------------------------------ MODULE Backstop ------------------------------
(***************************************************************************)
(* The pricing of the matcher's backstop maker                             *)
(* (crates/cerdic-tee-matcher/src/backstop.rs): a quote centred on a slow  *)
(* trailing mean of the market's prints, refused when the latest print     *)
(* strays from a fast trailing mean, and capped in size.  A maker is a     *)
(* record of its print history (oldest first), its inventory (positive     *)
(* when long) and its cumulative PnL.                                      *)
(***************************************************************************)
EXTENDS Integers, Sequences, SequencesExt, FiniteSetsExt

CONSTANTS
  Dynamic,        \* the spread model: TRUE for SpreadModel::Dynamic
  SpreadBps,      \* flat spread, or the floor of the dynamic one
  MaxSpreadBps,   \* ceiling of the dynamic spread
  WidenBps,       \* widen_per_unit_utilization_bps
  InventoryRef,   \* inventory_reference
  QuoteWindow,    \* quote_twap_window
  LookWindow,     \* last_look_window
  LookBps,        \* last_look_threshold_bps
  Cap,            \* notional_cap
  MaxHistory      \* MAX_HISTORY (64 in the code)

ASSUME BackstopAssumption ==
  /\ Dynamic \in BOOLEAN
  /\ {SpreadBps, MaxSpreadBps, WidenBps, InventoryRef, LookBps, Cap} \subseteq Nat
  /\ {QuoteWindow, LookWindow, MaxHistory} \subseteq Nat \ {0}

BPS == 10000      \* BPS_DENOMINATOR
NoPrice == -1     \* Option::None

NewMaker == [history |-> <<>>, inventory |-> 0, pnl |-> 0]

Abs(n) == IF n < 0 THEN -n ELSE n
LowerOf(a, b) == IF a < b THEN a ELSE b

Prints(h) == {h[k] : k \in 1..Len(h)}

\* The last n prints.
Recent(h, n) == SubSeq(h, IF Len(h) > n THEN Len(h) - n + 1 ELSE 1, Len(h))

trailing_mean(h, window) ==
  LET w == Recent(h, window) IN
  IF h = <<>> THEN NoPrice ELSE SumFunction(w) \div Len(w)

\* How much of InventoryRef the inventory uses, in basis points.
utilization(inventory) == LowerOf((Abs(inventory) * BPS) \div InventoryRef, BPS)

effective_spread_bps(inventory) ==
  IF ~Dynamic THEN SpreadBps
  ELSE IF InventoryRef = 0 THEN MaxSpreadBps
  ELSE LowerOf(SpreadBps + (WidenBps * utilization(inventory)) \div BPS, MaxSpreadBps)

\* The price a taker of side s gets; a Short taker's price stops at zero.
quote(m, s) ==
  LET center == trailing_mean(m.history, QuoteWindow)
      half   == (center * effective_spread_bps(m.inventory)) \div BPS
  IN IF center = NoPrice THEN NoPrice
     ELSE IF s = "Long" THEN center + half
     ELSE IF half > center THEN 0 ELSE center - half

\* The last print strays too far from the fast mean, or there is no mean.
stale(m) ==
  LET ref == trailing_mean(m.history, LookWindow) IN
  ref <= 0 \/ (Abs(m.history[Len(m.history)] - ref) * BPS) \div ref > LookBps

\* quote_and_check: the size the maker would fill of a request, 0 for a refusal.
Offered(m, s, requested) ==
  IF quote(m, s) = NoPrice \/ stale(m) THEN 0 ELSE LowerOf(requested, Cap)

\* commit_fill: the maker takes the other side of the taker's.
commit_fill(m, s, qty) ==
  [m EXCEPT !.inventory = IF s = "Long" THEN @ - qty ELSE @ + qty]

\* Faulty variant: the inventory is marked after the print replaced the last one.
record_price_late(m, price) ==
  [m EXCEPT !.history = Recent(Append(@, price), MaxHistory)]

\* record_price: mark the open inventory from the previous print to this one,
\* then keep the last MaxHistory prints.
record_price(m, price) ==
  [m EXCEPT !.history = Recent(Append(@, price), MaxHistory),
            !.pnl = IF m.history = <<>> THEN @
                    ELSE @ + m.inventory * (price - m.history[Len(m.history)])]

\* One record_price for each fill of a sweep, in order.
record_prices(m, prices) ==
  LET after[n \in 0..Len(prices)] == IF n = 0 THEN m ELSE record_price(after[n - 1], prices[n])
  IN after[Len(prices)]
=============================================================================
