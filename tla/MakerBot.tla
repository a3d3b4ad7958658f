------------------------------ MODULE MakerBot ------------------------------
(***************************************************************************)
(* The requote loop of bin/market_maker.rs against the matcher's book.     *)
(* Every call to the matcher is an await: orders are filled and expire in  *)
(* between, and a request or its answer may be lost.  An offer's id is the *)
(* arena slot it rests in, which the book hands out again once it is free; *)
(* which of the free slots comes next depends on everyone's orders.        *)
(***************************************************************************)
EXTENDS Integers, Sequences, SequencesExt, FiniteSetsExt

CONSTANTS
  Slots,             \* bound: arena slots the bot's orders may take
  HalfSpreads,       \* by level, innermost first: the half-spreads, in bps, that
                     \* volatility and jitter may give it
  Mids,              \* mid prices the oracle answers with, 0 among them
  QuoteSize,         \* MM_QUOTE_SIZE, every level
  SkewPerUnit,       \* MM_SKEW_BPS_PER_UNIT
  Collaterals,       \* what loadSealed may answer
  MaxInventory       \* bound: on the estimate

ASSUME MakerBotAssumption ==
  /\ HalfSpreads \in Seq(SUBSET Nat) /\ HalfSpreads # <<>>
  /\ Mids \subseteq Nat /\ QuoteSize \in Nat \ {0} /\ SkewPerUnit \in Int /\ MaxInventory \in Nat

VARIABLES
  botPc,             \* the next call of the cycle
  level,
  restingIds,        \* resting_ids
  oldIds,            \* old_resting_ids
  bid, ask,          \* the level's quote; <<>> before the first
  midNow,            \* the mid of the cycle
  lastBid, lastAsk,  \* (tick, qty) of level 0, <<>> for None
  lastCollateral,    \* -1 for None
  inventoryEstimate,
  offers             \* the matcher: slot -> the bot's order in it, or NoOffer

botVars == <<botPc, level, restingIds, oldIds, bid, ask, midNow, lastBid, lastAsk,
             lastCollateral, inventoryEstimate, offers>>
quoting == <<bid, ask, midNow, lastBid, lastAsk, lastCollateral, inventoryEstimate>>

IMR_BPS == 500
BPS_OF_ONE == 10000
ROUNDING_TOLERANCE_UNITS == 2

\* fresh: posted in the cycle that is running; lost: the bot was not told its id,
\* or its request to cancel the order was lost.
NoOffer == [rests |-> FALSE, fresh |-> FALSE, lost |-> FALSE]
Mine == {s \in Slots : offers[s] # NoOffer}
FreeSlotsNow == Slots \ Mine
AbsDiff(x, y) == IF x < y THEN y - x ELSE x - y

matches_quote(delta, quote) ==
  /\ quote # <<>>
  /\ LET expected == (quote[1] * quote[2] * IMR_BPS) \div BPS_OF_ONE
     IN expected > 0 /\ AbsDiff(expected, delta) <= ROUNDING_TOLERANCE_UNITS

filled_qty(delta) == (delta * BPS_OF_ONE) \div IMR_BPS

\* infer_fill_side, as the change of the estimate; nothing when it fits both
\* quotes or neither.  filled_qty is the notional, which counts as units.
InferredFill(delta) ==
  CASE delta > 0 /\ matches_quote(delta, lastBid) /\ ~matches_quote(delta, lastAsk) -> filled_qty(delta)
    [] delta > 0 /\ matches_quote(delta, lastAsk) /\ ~matches_quote(delta, lastBid) -> -filled_qty(delta)
    [] OTHER -> 0

Clamped(bps) == Min({Max({bps, 1}), 5000})

\* A collateral read that fails leaves the estimate and the last value alone.
ReadCollateral(c) ==
  IF c = -1 THEN UNCHANGED <<inventoryEstimate, lastCollateral>>
  ELSE /\ inventoryEstimate' = inventoryEstimate
            + (IF lastCollateral = -1 THEN 0 ELSE InferredFill(c - lastCollateral))
       /\ lastCollateral' = c
       /\ inventoryEstimate' \in -MaxInventory..MaxInventory

\* Without a mid the cycle ends, and the ids it took over are put back.
Skipped ==
  /\ restingIds' = restingIds
  /\ UNCHANGED <<botPc, level, oldIds, quoting, offers>>

\* interval.tick(): drain the ids of the last cycle, read the mid and the collateral.
StartCycle(mid, c) ==
  /\ botPc = "wait"
  /\ IF mid = 0 THEN Skipped
     ELSE /\ oldIds' = restingIds
          /\ restingIds' = <<>>
          /\ midNow' = mid
          /\ ReadCollateral(c)
          /\ botPc' = "quote" /\ level' = 1
          /\ offers' = [s \in Slots |-> [offers[s] EXCEPT !.fresh = FALSE]]
          /\ UNCHANGED <<bid, ask, lastBid, lastAsk>>

\* The level's ticks, skewed against the inventory.
Quote(halfBid, halfAsk) ==
  LET skew    == inventoryEstimate * SkewPerUnit
      bid_bps == Clamped(halfBid + skew)
      ask_bps == Clamped(halfAsk - skew)
  IN /\ botPc = "quote"
     /\ bid' = midNow - (midNow * bid_bps) \div BPS_OF_ONE
     /\ ask' = midNow + (midNow * ask_bps) \div BPS_OF_ONE
     /\ botPc' = "bid"
     /\ UNCHANGED <<level, restingIds, oldIds, midNow, lastBid, lastAsk, lastCollateral,
                    inventoryEstimate, offers>>

After(pc) == IF pc = "bid" THEN "ask" ELSE "retire1"

\* post_offer answered with an id.
PostOffer(s) ==
  /\ botPc \in {"bid", "ask"} /\ s \in FreeSlotsNow
  /\ offers' = [offers EXCEPT ![s] = [rests |-> TRUE, fresh |-> TRUE, lost |-> FALSE]]
  /\ restingIds' = Append(restingIds, s)
  /\ lastBid' = IF botPc = "bid" /\ level = 1 THEN <<bid, QuoteSize>> ELSE lastBid
  /\ lastAsk' = IF botPc = "ask" /\ level = 1 THEN <<ask, QuoteSize>> ELSE lastAsk
  /\ botPc' = After(botPc)
  /\ UNCHANGED <<level, oldIds, bid, ask, midNow, lastCollateral, inventoryEstimate>>

\* Refused, or the request lost; or, with a slot, the answer lost after the
\* order came to rest.
PostOfferFails(taken) ==
  /\ botPc \in {"bid", "ask"} /\ taken \subseteq FreeSlotsNow /\ Cardinality(taken) <= 1
  /\ offers' = [s \in Slots |->
                  IF s \in taken THEN [rests |-> TRUE, fresh |-> TRUE, lost |-> TRUE] ELSE offers[s]]
  /\ botPc' = After(botPc)
  /\ UNCHANGED <<level, restingIds, oldIds, quoting>>

\* After the second cancel the next level is quoted, or the cycle is over.
NextCall ==
  IF botPc = "retire1" THEN botPc' = "retire2" /\ level' = level
  ELSE IF level < Len(HalfSpreads) THEN botPc' = "quote" /\ level' = level + 1
  ELSE botPc' = "wait" /\ level' = 1

\* Mutant: one old id per level.
RetireOnce(arrives) ==
  /\ botPc \in {"retire1", "retire2"}
  /\ IF oldIds = <<>> \/ botPc = "retire2" THEN UNCHANGED <<oldIds, offers>>
     ELSE LET s == Head(oldIds) IN
          /\ oldIds' = Tail(oldIds)
          /\ offers' = [offers EXCEPT ![s] = IF arrives \/ @ = NoOffer THEN NoOffer
                                             ELSE [@ EXCEPT !.lost = TRUE]]
  /\ NextCall
  /\ UNCHANGED <<restingIds, quoting>>

\* post_cancel of the next old id, if any is left.  The matcher removes whatever
\* order of this signer is in the slot; a request that is lost is not repeated.
Retire(arrives) ==
  /\ botPc \in {"retire1", "retire2"}
  /\ IF oldIds = <<>> THEN UNCHANGED <<oldIds, offers>>
     ELSE LET s == Head(oldIds) IN
          /\ oldIds' = Tail(oldIds)
          /\ offers' = [offers EXCEPT ![s] = IF arrives \/ @ = NoOffer THEN NoOffer
                                             ELSE [@ EXCEPT !.lost = TRUE]]
  /\ NextCall
  /\ UNCHANGED <<restingIds, quoting>>

\* External: an order is filled, or swept away once the expiry it was posted with
\* (two intervals on) has passed.
Leaves(s) ==
  /\ s \in Mine
  /\ offers' = [offers EXCEPT ![s] = NoOffer]
  /\ UNCHANGED <<botPc, level, restingIds, oldIds, quoting>>

BotInit ==
  /\ botPc = "wait" /\ level = 1 /\ restingIds = <<>> /\ oldIds = <<>>
  /\ bid = 0 /\ ask = 0 /\ midNow = 0 /\ lastBid = <<>> /\ lastAsk = <<>>
  /\ lastCollateral = -1 /\ inventoryEstimate = 0
  /\ offers = [s \in Slots |-> NoOffer]

BotNext ==
  \/ \E mid \in Mids, c \in Collaterals \cup {-1} : StartCycle(mid, c)
  \/ \E b, a \in HalfSpreads[level] : Quote(b, a)
  \/ \E s \in Slots : PostOffer(s) \/ Leaves(s)
  \/ \E taken \in SUBSET Slots : PostOfferFails(taken)
  \/ \E arrives \in BOOLEAN : Retire(arrives)
-----------------------------------------------------------------------------
(* Properties *)

(* The bot never loses sight of an order it could still cancel: every      *)
(* order of its own in the book has its id in one of the two lists, unless *)
(* the answer with the id or the cancel was lost on the way.               *)
BotTracksItsOrders ==
  \A s \in Mine : offers[s].lost \/ s \in ToSet(restingIds) \cup ToSet(oldIds)

(* A cycle leaves no old id behind: two cancels per level retire all of    *)
(* the last cycle's orders, however many of its posts had failed, so the   *)
(* clean-up after the loop finds nothing.                                  *)
CycleRetiresAll == botPc = "wait" => oldIds = <<>>

(* For every inventory estimate, also one that counts notional as units,   *)
(* the skewed quote lies around the mid.                                   *)
QuotesAroundMid == botPc \in {"bid", "ask"} => bid <= midNow /\ midNow <= ask

(* A cancel is meant for an order of the last cycle.  It takes one of this *)
(* cycle only when the old order had left its slot and the new one was     *)
(* given the same: then the id is in both lists.                           *)
FreshCancelledOnlyByRecycling ==
  \A s \in Slots :
    offers[s].fresh /\ ~offers[s].lost /\ offers'[s] = NoOffer
      /\ botPc \in {"retire1", "retire2"} /\ botPc' # botPc
    => s \in ToSet(oldIds) /\ s \in ToSet(restingIds)
=============================================================================
