---------------------------- MODULE NativeFunding ----------------------------
(***************************************************************************)
(* The matcher's own funding index of one market (poll_funding_native,     *)
(* api.rs) over the Hermes client (oracle.rs).  A background task fetches  *)
(* the oracle price, with retries, then reads the clock and the middle of  *)
(* the book, smooths the premium and accrues the index.  The averages are  *)
(* f64 in the code: here rates are integers in units of 1/RATE_UNIT bps,   *)
(* exact for every window length, and the index keeps the product          *)
(* rate * mid * seconds, of which INDEX_UNIT make one whole unit.  Every   *)
(* reader rounds: the index to whole units, the rate to hundredths.        *)
(* External: Hermes answers or fails, the book has a middle or none.       *)
(***************************************************************************)
EXTENDS Integers, Sequences, FiniteSetsExt, Functions

CONSTANTS
  FUNDING_PREMIUM_WINDOW,   \* 720 in the code
  FUNDING_RATE_CLAMP_BPS,   \* 5 in the code
  RATE_UNIT,                \* divisible by every window length
  INDEX_UNIT,               \* RATE_UNIT * 10000 * 3600 in the code
  MAX_ATTEMPTS,             \* 3 in the code
  PythPrices,               \* raw prices Hermes answers, in 1/TICK_DIVISOR of a tick
  TICK_DIVISOR,
  BookMids,                 \* middles of the book
  MaxFundingTime, MaxPolls  \* bounds

ASSUME FundingAssumption ==
  /\ FUNDING_PREMIUM_WINDOW \in Nat \ {0} /\ MAX_ATTEMPTS \in Nat \ {0}
  /\ FUNDING_RATE_CLAMP_BPS \in Nat /\ RATE_UNIT \in Nat \ {0} /\ INDEX_UNIT \in Nat \ {0}
  /\ TICK_DIVISOR \in Nat \ {0}
  /\ PythPrices \subseteq Int
  /\ IsFiniteSet(BookMids) /\ BookMids # {} /\ BookMids \subseteq Nat \ {0}
  /\ \A n \in 1..FUNDING_PREMIUM_WINDOW : RATE_UNIT % n = 0

FUNDING_BPS == 10000
NoMid == 0
NoBody == -999999          \* fetch_hermes_body gave up

VARIABLES
  hermes,        \* the request under way: [attempt, stage], or what it ended with
  premiums,      \* funding_premium_history
  native,        \* funding_index_native: [index, at, rate], or NoIndex
  bookMid,       \* external
  fundingClock,
  readings,      \* history: every premium read
  entry_funding_index,   \* the stamp of an open position
  openedWith     \* history: the entry as it was when the position opened

nativeVars == <<hermes, premiums, native, bookMid, fundingClock, readings, entry_funding_index,
                openedWith>>
position == <<entry_funding_index, openedWith>>

NoIndex == [index |-> 0, at |-> -1, rate |-> 0]
Waiting == [stage |-> "waiting"]

NativeInit ==
  /\ hermes = Waiting
  /\ premiums = <<>> /\ readings = <<>>
  /\ native = NoIndex /\ openedWith = NoIndex /\ entry_funding_index = 0
  /\ bookMid = NoMid
  /\ fundingClock = 0

-----------------------------------------------------------------------------
(* oracle.rs *)

Trying(attempt, stage) == [stage |-> stage, attempt |-> attempt]
Answered(price) == [stage |-> "answered", price |-> price]

StartPoll ==
  /\ hermes = Waiting
  /\ Len(readings) < MaxPolls
  /\ hermes' = Trying(1, "reqwest")
  /\ UNCHANGED <<premiums, native, bookMid, fundingClock, readings, position>>

\* A failed reqwest is tried again with curl, a failed curl after a pause; an
\* answer cut off in its body, or a curl that cannot run, ends the request.
fetch_hermes_body ==
  /\ hermes.stage \in {"reqwest", "curl"}
  /\ hermes' \in {Answered(p) : p \in PythPrices \cup {NoBody}} \cup
                 {IF hermes.stage = "reqwest" THEN Trying(hermes.attempt, "curl")
                  ELSE IF hermes.attempt < MAX_ATTEMPTS THEN Trying(hermes.attempt + 1, "reqwest")
                  ELSE Answered(NoBody)}
  /\ UNCHANGED <<premiums, native, bookMid, fundingClock, readings, position>>

\* x / y to the nearest integer, half away from zero.
Rounded(x, y) ==
  IF x >= 0 THEN (2 * x + y) \div (2 * y) ELSE -((y - 2 * x) \div (2 * y))

\* To the nearest tick; nothing below zero.
pyth_price_to_tick(price) == IF price <= 0 THEN 0 ELSE Rounded(price, TICK_DIVISOR)

-----------------------------------------------------------------------------
(* api.rs *)

Trunc(x, y) == IF x >= 0 THEN x \div y ELSE -((-x) \div y)
ClampRate(x, most) == Max({-most, Min({x, most})})
SumOf(s) == SumFunction(s)
LastOf(s, n) == SubSeq(s, Max({1, Len(s) - n + 1}), Len(s))

raw_premium_bps(oracle) == Trunc((bookMid - oracle) * FUNDING_BPS, oracle)

\* The clamped average of the window.
Smoothed(samples) ==
  ClampRate((SumOf(samples) * RATE_UNIT) \div Len(samples), FUNDING_RATE_CLAMP_BPS * RATE_UNIT)

\* Mutant: the time of the poll is not kept.
AccruedFrozen(entry, rate) ==
  [entry EXCEPT !.index = @ + entry.rate * bookMid * (fundingClock - entry.at), !.rate = rate]

\* What has elapsed is charged at the rate of the poll before and the middle of
\* this one.
Accrued(entry, rate) ==
  [index |-> entry.index + entry.rate * bookMid * (fundingClock - entry.at),
   at |-> fundingClock, rate |-> rate]

\* poll_funding_native once Hermes has answered: no price, a price of zero or a
\* book without a middle leave everything as it was.
poll_funding_native ==
  /\ hermes.stage = "answered"
  /\ hermes' = Waiting
  /\ LET oracle == IF hermes.price = NoBody THEN 0 ELSE pyth_price_to_tick(hermes.price) IN
     IF oracle = 0 \/ bookMid = NoMid THEN UNCHANGED <<premiums, native, readings>>
     ELSE LET premium == raw_premium_bps(oracle)
              samples == LastOf(Append(premiums, premium), FUNDING_PREMIUM_WINDOW)
              rate    == Smoothed(samples)
          IN /\ premiums' = samples
             /\ readings' = Append(readings, premium)
             /\ native' = IF native = NoIndex THEN [index |-> 0, at |-> fundingClock, rate |-> rate]
                          ELSE Accrued(native, rate)
  /\ UNCHANGED <<bookMid, fundingClock, position>>

\* The index that positions are stamped with and charged by.
funding_index_for == Rounded(native.index, INDEX_UNIT)

OpenAtIndex ==
  /\ entry_funding_index' = funding_index_for /\ openedWith' = native
  /\ UNCHANGED <<hermes, premiums, native, bookMid, fundingClock, readings>>

\* What a client is told, the rate in hundredths of a bp.
get_funding == IF native = NoIndex THEN [known |-> FALSE]
               ELSE [known |-> TRUE, funding_index |-> funding_index_for,
                     rate_1h_bps |-> Rounded(100 * native.rate, RATE_UNIT)]

BookMoves(mid) ==
  /\ bookMid' = mid
  /\ UNCHANGED <<hermes, premiums, native, fundingClock, readings, position>>

FundingElapse ==
  /\ fundingClock < MaxFundingTime
  /\ fundingClock' = fundingClock + 1
  /\ UNCHANGED <<hermes, premiums, native, bookMid, readings, position>>

NativeNext ==
  \/ StartPoll
  \/ fetch_hermes_body
  \/ poll_funding_native
  \/ OpenAtIndex
  \/ \E mid \in BookMids \cup {NoMid} : BookMoves(mid)
  \/ FundingElapse

-----------------------------------------------------------------------------
(* Properties *)

\* The rate in force is the clamped mean of the last readings there were: a
\* spike weighs in full until it leaves the window, failed fetches and an empty
\* book add nothing to it and take nothing away.  A client is told of it once
\* there is a reading, to half of a hundredth.
RateIsRecentMean ==
  readings # <<>> =>
    LET recent == LastOf(readings, FUNDING_PREMIUM_WINDOW)
        mean   == (SumOf(recent) * RATE_UNIT) \div Len(recent)
        most   == FUNDING_RATE_CLAMP_BPS * RATE_UNIT
    IN /\ native.rate = IF mean > most THEN most ELSE IF mean < -most THEN -most ELSE mean
       /\ get_funding.known
       /\ 2 * (get_funding.rate_1h_bps * RATE_UNIT - 100 * native.rate) \in -RATE_UNIT..RATE_UNIT

\* A position never owes more than the clamp times the highest middle for the
\* time from the last poll before it opened to the last poll, with any number of
\* polls missed or failed in between, and never more than one unit besides for
\* the two roundings of the index.
FundingOwedCapped ==
  native # NoIndex =>
    LET since == IF openedWith = NoIndex THEN 0 ELSE openedWith.at
        most  == FUNDING_RATE_CLAMP_BPS * RATE_UNIT * Max(BookMids) * (native.at - since)
    IN (funding_index_for - entry_funding_index) * INDEX_UNIT \in -(most + INDEX_UNIT)..most + INDEX_UNIT
=============================================================================
