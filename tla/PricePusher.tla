----------------------------- MODULE PricePusher -----------------------------
(***************************************************************************)
(* The price keeper (bin/keeper_price_pusher.rs) over the FX calendar      *)
(* (market_hours.rs).  A push reads the calendar once, then fetches, pays, *)
(* sends and waits, each of which can fail, and at last has OracleHub.sol  *)
(* take the price on chain as its discovery reference, market by market.   *)
(* It waits for receipts and never reads their status.  A transaction      *)
(* without a receipt may land later.                                       *)
(* Time is counted in units of three hours, so the close at 21:00 is exact.*)
(***************************************************************************)
EXTENDS Integers, FiniteSets

CONSTANTS
  FxMarkets,
  MaxPriceAge,    \* MAX_STALENESS_SECONDS, rounded up to the clock
  PushTimes,      \* bound: the times of the clock
  MaxAfloat       \* bound: transactions under way at once

ASSUME PricePusherAssumption == PushTimes \subseteq Nat /\ PushTimes # {} /\ MaxPriceAge \in Nat

SECONDS_PER_DAY == 8
FX_CLOSE_OPEN_UTC_SECONDS == 7

VARIABLES
  pushClock,
  push,        \* the push under way: [step, began, open, price, landed, todo]
  onChain,     \* when the price in Pyth's contract was fetched
  afloat,      \* transactions sent that have not landed
  reference    \* OracleHub's reference of each market: [price, began, landed]

pushVars == <<pushClock, push, onChain, afloat, reference>>

NoPush == [step |-> "none"]
Never == -1
Unanchored == [price |-> Never, began |-> Never, landed |-> FALSE]
Update(price) == [call |-> "updatePriceFeeds", price |-> price]
Reanchor(m, p) == [call |-> "refreshDiscoveryReference", market |-> m, began |-> p.began, landed |-> p.landed]

\* Monday is 0; day 0 was a Thursday.
Weekday(day) == (day + 3) % 7

fx_market_open_at(t) ==
  LET weekday == Weekday(t \div SECONDS_PER_DAY)
      seconds_in_day == t % SECONDS_PER_DAY
  IN CASE weekday = 5 -> FALSE
       [] weekday = 4 -> seconds_in_day < FX_CLOSE_OPEN_UTC_SECONDS
       [] weekday = 6 -> seconds_in_day >= FX_CLOSE_OPEN_UTC_SECONDS
       [] OTHER -> TRUE

PushInit ==
  /\ pushClock = CHOOSE t \in PushTimes : \A u \in PushTimes : t <= u
  /\ push = NoPush
  /\ onChain = Never /\ afloat = {}
  /\ reference = [m \in FxMarkets |-> Unanchored]

PushElapse(t) ==
  /\ pushClock < t
  /\ pushClock' = t
  /\ UNCHANGED <<push, onChain, afloat, reference>>

\* A transaction is sent, or sending it fails.
Sent(tx) ==
  \/ UNCHANGED afloat
  \/ Cardinality(afloat) < MaxAfloat /\ afloat' = afloat \cup {tx}

\* Pyth's contract keeps the newer price.
Newer(t) == IF onChain < t THEN t ELSE onChain

\* A tick, which finds the push before it at an end.
BeginPush ==
  /\ push = NoPush
  /\ push' = [step |-> "fetch", began |-> pushClock, open |-> fx_market_open_at(pushClock)]
  /\ UNCHANGED <<pushClock, onChain, afloat, reference>>

\* The live prices are only logged; the update that is sent is fetched after them.
FetchUpdate ==
  /\ push.step = "fetch"
  /\ push' \in {NoPush, [step |-> "send", began |-> push.began, open |-> push.open, price |-> pushClock]}
  /\ UNCHANGED <<pushClock, onChain, afloat, reference>>

\* With a receipt the push goes on, also with that of a reverted update.
Receipt(landed) ==
  /\ push' = [step |-> "refresh", began |-> push.began, open |-> push.open, landed |-> landed,
              todo |-> FxMarkets]
  /\ UNCHANGED afloat

\* The fee is read and the transaction sent; without a receipt the push ends.
SendUpdate ==
  /\ push.step = "send"
  /\ \/ push' = NoPush /\ onChain' = onChain /\ Sent(Update(push.price))
     \/ Receipt(TRUE) /\ onChain' = Newer(push.price)
     \/ Receipt(FALSE) /\ onChain' = onChain
  /\ UNCHANGED <<pushClock, reference>>

\* Mutant: the reference is refreshed whatever the calendar says.
RefreshesAlways(p) == TRUE

Refreshes(p) == p.open

\* refreshDiscoveryReference of each market; a failure is only logged.
Refresh(m) ==
  /\ push.step = "refresh" /\ Refreshes(push) /\ m \in push.todo
  /\ push' = [push EXCEPT !.todo = @ \ {m}]
  /\ Sent(Reanchor(m, push))
  /\ UNCHANGED <<pushClock, onChain, reference>>

EndPush ==
  /\ push.step = "refresh" /\ (Refreshes(push) => push.todo = {})
  /\ push' = NoPush
  /\ UNCHANGED <<pushClock, onChain, afloat, reference>>

-----------------------------------------------------------------------------
(* The chain *)

LandUpdate(tx) ==
  /\ tx.call = "updatePriceFeeds"
  /\ afloat' = afloat \ {tx}
  /\ onChain' = Newer(tx.price)
  /\ UNCHANGED <<pushClock, push, reference>>

\* The hub has no price where Pyth's is too old, and reverts.
LandRefresh(tx) ==
  /\ tx.call = "refreshDiscoveryReference"
  /\ afloat' = afloat \ {tx}
  /\ reference' = IF onChain = Never \/ pushClock - onChain > MaxPriceAge THEN reference
                  ELSE [reference EXCEPT ![tx.market] =
                          [price |-> onChain, began |-> tx.began, landed |-> tx.landed]]
  /\ UNCHANGED <<pushClock, push, onChain>>

PushNext ==
  \/ \E t \in PushTimes : PushElapse(t)
  \/ BeginPush
  \/ FetchUpdate
  \/ SendUpdate
  \/ \E m \in FxMarkets : Refresh(m)
  \/ EndPush
  \/ \E tx \in afloat : LandUpdate(tx) \/ LandRefresh(tx)

-----------------------------------------------------------------------------
(* Properties *)

FirstClose == SECONDS_PER_DAY + FX_CLOSE_OPEN_UTC_SECONDS   \* Friday 21:00
InFxWeek(t) == (t - FirstClose) % (7 * SECONDS_PER_DAY) >= 2 * SECONDS_PER_DAY

\* The calendar, computed from weekdays and seconds of the day, is closed for
\* exactly the 48 hours after each Friday 21:00, at every time of two weeks.
CalendarExact ==
  \A t \in pushClock..pushClock + 14 * SECONDS_PER_DAY : fx_market_open_at(t) = InFxWeek(t)

\* A reference moves only by a push that began while the FX week was open, and
\* to a price that was fetched since, however late its transactions land and
\* whatever an earlier push left behind.  The exception is a push whose own
\* update was mined and reverted: it anchors what it finds, which may have been
\* fetched before it began, by no more than the hub's limit of staleness.
AnchoredByOpenPush ==
  \A m \in FxMarkets :
    LET r == reference[m] IN
    r # Unanchored =>
      InFxWeek(r.began) /\ r.price >= IF r.landed THEN r.began ELSE r.began - MaxPriceAge
=============================================================================
