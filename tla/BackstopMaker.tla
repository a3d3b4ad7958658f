--------------------------- MODULE BackstopMaker ----------------------------
(***************************************************************************)
(* One market's backstop maker over time (crates/cerdic-tee-matcher/src/   *)
(* backstop.rs).  Prints arrive from trades and from the oracle poll; a    *)
(* taker's leftover is filled at the maker's quote, and the order handler  *)
(* (api.rs, post_order) then records the fill's own price as a print.      *)
(* Between the fill and that record another print may come in, because     *)
(* the backstop mutex is released.                                         *)
(***************************************************************************)
EXTENDS Backstop

CONSTANTS
  Prices,    \* prices of the prints other trades and the oracle bring
  MaxQty,    \* bound: quantity a taker asks for
  MaxSteps   \* bound: prints and fills in one behaviour

ASSUME BackstopMakerAssumption == Prices \subseteq Nat \ {0} /\ MaxQty \in Nat /\ MaxSteps \in Nat

VARIABLES
  maker,     \* BackstopState
  unprinted, \* prices of fills not yet recorded as prints
  cash,      \* history: signed proceeds of the fills
  steps

vars == <<maker, unprinted, cash, steps>>

Sides == {"Long", "Short"}
LastPrint == maker.history[Len(maker.history)]

Init ==
  /\ maker = NewMaker /\ unprinted = <<>> /\ cash = 0
  /\ steps = 0

\* A print of another trade, or of poll_oracle_prices.
NewPrint(p) ==
  /\ steps < MaxSteps /\ steps' = steps + 1
  /\ maker' = record_price(maker, p)
  /\ UNCHANGED <<unprinted, cash>>

\* quote_and_check accepts and commit_fill takes the other side.  A taker that
\* wants all or nothing (Fill-or-Kill, or a remainder that already rests)
\* leaves the maker untouched unless the whole request is offered.
Fill(s, requested, whole) ==
  LET qty  == Offered(maker, s, requested)
      sold == IF s = "Long" THEN qty ELSE -qty
  IN
  /\ steps < MaxSteps /\ steps' = steps + 1
  /\ qty > 0 /\ (whole => qty = requested)
  /\ maker' = commit_fill(maker, s, qty)
  /\ cash' = cash + sold * quote(maker, s)
  /\ unprinted' = Append(unprinted, quote(maker, s))

\* post_order records the fill it just made.
RecordFill ==
  /\ unprinted # <<>>
  /\ maker' = record_price(maker, Head(unprinted))
  /\ unprinted' = Tail(unprinted)
  /\ UNCHANGED <<cash, steps>>

-----------------------------------------------------------------------------
(* Properties.                                                             *)

TypeOK ==
  /\ maker.history \in Seq(Nat) /\ Len(maker.history) <= MaxHistory
  /\ maker.inventory \in Int /\ maker.pnl \in Int
  /\ unprinted \in Seq(Nat) /\ cash \in Int
  /\ steps \in 0..MaxSteps

\* The two quotes straddle a centre that lies among the last QuoteWindow
\* prints: an older print has no influence, and the maker never bids above its
\* ask.
QuoteStraddlesRecentPrints ==
  maker.history # <<>> =>
    LET recent == Prints(Recent(maker.history, QuoteWindow))
        bid    == quote(maker, "Short")
        ask    == quote(maker, "Long")
    IN bid <= ask /\ bid <= Max(recent) /\ ask >= Min(recent)

\* Each fill moves the spread the way it moves the exposure, long or short: one
\* that adds to it never narrows the next quote, one that works it off never
\* widens it (SpreadModel::Dynamic).
SpreadFollowsExposure ==
  LET before == maker.inventory
      after  == maker'.inventory
  IN /\ Abs(after) >= Abs(before) => effective_spread_bps(after) >= effective_spread_bps(before)
     /\ Abs(after) <= Abs(before) => effective_spread_bps(after) <= effective_spread_bps(before)
=============================================================================
