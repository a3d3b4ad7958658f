------------------------------ MODULE TradeTape ------------------------------
(***************************************************************************)
(* The public tape of one market (market_data.rs) and the handlers that    *)
(* write and read it (api.rs).  A handler reads the clock first, matches,  *)
(* and records its fills under the tape's mutex later, with the time it    *)
(* read: handlers on several threads can record in another order.  Time is *)
(* counted in minutes.                                                     *)
(***************************************************************************)
EXTENDS Integers, Sequences, FiniteSets, FiniteSetsExt, Functions, SequencesExt

CONSTANTS
  TapeHandlers,
  TapeWindow,      \* WINDOW_SECONDS, 14 days in the code
  TapeDay,         \* the window of the 24h figures
  TapeFills,       \* what a handler records: [price, qty]
  TapePrices,      \* prices of a seeded history
  SeedSpans,       \* days of a seeded history
  TapeStart,       \* the first time on the clock
  MaxTapeTime, MaxTapeTrades   \* bounds

ASSUME TapeAssumption ==
  /\ TapeWindow \in Nat /\ TapeDay \in Nat /\ TapeStart \in Nat
  /\ TapeFills \subseteq [price : Nat, qty : Nat]
  /\ TapePrices \subseteq Nat /\ SeedSpans \subseteq Nat

VARIABLES
  tape,         \* trades: a sequence of [timestamp, price, qty]
  tapeClock,    \* the system clock
  orderNow,     \* the time each handler read, or Idle
  recorded      \* history: the prints recorded since the tape was last replaced

tapeVars == <<tape, tapeClock, orderNow, recorded>>

NotTrading == -1
NoPrice == 0

-----------------------------------------------------------------------------
(* market_data.rs *)

\* Mutant: a print exactly as old as the window goes too.
pruneInclusive(trades, now) ==
  LET kept == {k \in DOMAIN trades : trades[k].timestamp > Max({0, now - TapeWindow})} IN
  IF kept = {} THEN <<>> ELSE SubSeq(trades, Min(kept), Len(trades))

\* Prints go from the front, up to the first that is young enough.
prune(trades, now) ==
  LET kept == {k \in DOMAIN trades : trades[k].timestamp >= Max({0, now - TapeWindow})} IN
  IF kept = {} THEN <<>> ELSE SubSeq(trades, Min(kept), Len(trades))

record(trades, print) == prune(Append(trades, print), print.timestamp)

\* The day ends at the last print.
WindowStart(trades) == Max({0, Last(trades).timestamp - TapeDay})

snapshot(trades) ==
  IF trades = <<>> THEN [last_price |-> NoPrice, high |-> NoPrice, low |-> NoPrice, volume |-> 0]
  ELSE LET day == {k \in DOMAIN trades : trades[k].timestamp >= WindowStart(trades)}
           prices == {trades[k].price : k \in day}
       IN [last_price |-> Last(trades).price,
           high |-> IF day = {} THEN NoPrice ELSE Max(prices),
           low |-> IF day = {} THEN NoPrice ELSE Min(prices),
           volume |-> SumFunctionOnSet([k \in DOMAIN trades |-> trades[k].qty], day)]

Bucket(t, interval) == (t.timestamp \div interval) * interval

NewBar(t, interval) ==
  [open_time |-> Bucket(t, interval), open |-> t.price, high |-> t.price, low |-> t.price,
   close |-> t.price, volume |-> t.qty]

IntoBar(bar, t) ==
  [bar EXCEPT !.high = Max({@, t.price}), !.low = Min({@, t.price}), !.close = t.price,
              !.volume = @ + t.qty]

\* Only the newest bar is compared.
Continues(bars, t, interval) ==
  bars # <<>> /\ Last(bars).open_time = Bucket(t, interval)

IntoBars(bars, t, interval) ==
  IF Continues(bars, t, interval)
  THEN Append(Front(bars), IntoBar(Last(bars), t))
  ELSE Append(bars, NewBar(t, interval))

candles(trades, interval, limit) ==
  LET bars == FoldLeft(LAMBDA acc, t : IntoBars(acc, t, interval), <<>>, trades)
  IN SubSeq(bars, Max({1, Len(bars) - limit + 1}), Len(bars))

recent(trades, limit) == SubSeq(Reverse(trades), 1, Min({limit, Len(trades)}))

-----------------------------------------------------------------------------
(* api.rs: get_candles and get_trades clamp the limit they are asked for   *)

MAX_CANDLE_LIMIT == 500
MAX_TRADES_LIMIT == 200
Clamp(n, most) == Max({1, Min({n, most})})

interval_to_seconds ==
  [i \in {"1m", "5m", "15m", "30m", "1h", "4h", "1d"} |->
     CASE i = "1m" -> 1 [] i = "5m" -> 5 [] i = "15m" -> 15 [] i = "30m" -> 30
       [] i = "1h" -> 60 [] i = "4h" -> 240 [] i = "1d" -> 1440]

get_candles(interval, limit) ==
  candles(tape, interval_to_seconds[interval], Clamp(limit, MAX_CANDLE_LIMIT))
get_trades(limit) == recent(tape, Clamp(limit, MAX_TRADES_LIMIT))

-----------------------------------------------------------------------------
TapeInit ==
  /\ tape = <<>> /\ recorded = <<>>
  /\ tapeClock = TapeStart
  /\ orderNow = [h \in TapeHandlers |-> NotTrading]

TapeElapse ==
  /\ tapeClock < MaxTapeTime
  /\ tapeClock' = tapeClock + 1
  /\ UNCHANGED <<tape, orderNow, recorded>>

\* post_order reads the clock.
ReadClock(h) ==
  /\ orderNow[h] = NotTrading
  /\ orderNow' = [orderNow EXCEPT ![h] = tapeClock]
  /\ UNCHANGED <<tape, tapeClock, recorded>>

Stamped(fill, now) == [timestamp |-> now, price |-> fill.price, qty |-> fill.qty]

\* post_order records its fills, all with the time it read.
RecordFills(h, fills) ==
  LET prints == [k \in DOMAIN fills |-> Stamped(fills[k], orderNow[h])] IN
  /\ orderNow[h] # NotTrading
  /\ Len(recorded) + Len(fills) <= MaxTapeTrades
  /\ tape' = FoldLeft(record, tape, prints)
  /\ recorded' = recorded \o prints
  /\ orderNow' = [orderNow EXCEPT ![h] = NotTrading]
  /\ UNCHANGED tapeClock

\* post_debug_seed_history: one print a minute back from now, oldest first; the
\* walk ends at the price asked for.
Backfill(span, price, older) ==
  LET first == Max({0, tapeClock - span}) IN
  [k \in 1..(tapeClock - first + 1) |->
     [timestamp |-> first + k - 1, qty |-> 1, price |-> IF first + k - 1 = tapeClock THEN price ELSE older]]

\* It replaces the tape.
SeedHistory(span, price, older) ==
  /\ tape' = FoldLeft(record, <<>>, Backfill(span, price, older))
  /\ recorded' = Backfill(span, price, older)
  /\ UNCHANGED <<tapeClock, orderNow>>

Fills == UNION {[1..n -> TapeFills] : n \in 1..2}

TapeNext ==
  \/ TapeElapse
  \/ \E h \in TapeHandlers : ReadClock(h) \/ \E f \in Fills : RecordFills(h, f)
  \/ \E span \in SeedSpans, p, q \in TapePrices : SeedHistory(span, p, q)

-----------------------------------------------------------------------------
(* Properties *)

Elements(s) == {s[k] : k \in DOMAIN s}
Count(s, x) == Cardinality({k \in DOMAIN s : s[k] = x})

\* Whatever the order in which handlers record, a print no older than the window
\* before the newest one is still on the tape, as often as it was recorded.
TapeKeepsYoung ==
  \A x \in Elements(recorded) :
    (\A y \in Elements(recorded) : x.timestamp >= y.timestamp - TapeWindow)
      => Count(tape, x) = Count(recorded, x)

\* The bars of each interval hold every print of the tape once: volume, high and
\* low of an interval, taken over the bars that carry its time, are those of its
\* prints, even when prints are recorded out of order.
CandlesAddUp ==
  \A interval \in DOMAIN interval_to_seconds :
    LET length == interval_to_seconds[interval]
        bars   == candles(tape, length, Len(tape))
    IN \A b \in {Bucket(t, length) : t \in Elements(tape)} :
         LET mine == {k \in DOMAIN tape : Bucket(tape[k], length) = b}
             its  == {k \in DOMAIN bars : bars[k].open_time = b}
         IN /\ SumFunctionOnSet([k \in DOMAIN bars |-> bars[k].volume], its)
                 = SumFunctionOnSet([k \in DOMAIN tape |-> tape[k].qty], mine)
            /\ Max({bars[k].high : k \in its}) = Max({tape[k].price : k \in mine})
            /\ Min({bars[k].low : k \in its}) = Min({tape[k].price : k \in mine})

Ordered(s) == \A k \in 1..Len(s) - 1 : s[k].timestamp <= s[k + 1].timestamp
Ascending(bars) == \A k \in 1..Len(bars) - 1 : bars[k].open_time < bars[k + 1].open_time

\* The bars ascend strictly in time as long as the tape does: only handlers that
\* record in another order than they read the clock make a bar repeat.
BarsRepeatOnlyByInversion == Ordered(tape) => Ascending(get_candles("5m", MAX_CANDLE_LIMIT))

\* The day's figures are those of a day that holds the last print, in a market
\* that has been quiet and after prints out of order as well.
SnapshotHoldsLast ==
  tape # <<>> =>
    LET s == snapshot(tape) IN
    /\ s.low <= s.last_price /\ s.last_price <= s.high
    /\ s.volume >= Last(tape).qty
    /\ get_trades(1)[1].price = s.last_price

\* The bars a client gets ascend strictly in time (refuted: two handlers).
CandlesAscend == Ascending(get_candles("5m", MAX_CANDLE_LIMIT))
=============================================================================
