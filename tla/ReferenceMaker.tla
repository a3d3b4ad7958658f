--------------------------- MODULE ReferenceMaker ---------------------------
(***************************************************************************)
(* The reference backstop maker of the risk crate                          *)
(* (crates/risk/src/backstop_maker.rs), which the matcher's own maker was  *)
(* built after, fed with the same prints and asked for the same fills.     *)
(* SCALE is 1.                                                             *)
(***************************************************************************)
EXTENDS BackstopMaker

\* The reference divides by its mean: a quote a whole spread of 100% away would
\* print a price of 0.
ASSUME ReferenceMakerAssumption == SpreadBps < BPS /\ MaxSpreadBps < BPS

VARIABLE pnlLedger    \* PnlLedger: cumulative, inventory

makerVars == <<vars, pnlLedger>>

EmptyHistory == [price |-> NoPrice, size |-> 0]
RejectedStalePrice == EmptyHistory
Rises(x, y) == IF x > y THEN x - y ELSE 0        \* saturating_sub

mean(h) == SumFunction(h) \div Len(h)
ref_trailing_mean(h, window) == mean(SubSeq(h, Rises(Len(h), window) + 1, Len(h)))
fair_value(h) == ref_trailing_mean(h, QuoteWindow)

ref_effective_spread_bps(inventory) ==
  IF ~Dynamic THEN SpreadBps
  ELSE IF InventoryRef = 0 THEN MaxSpreadBps
  ELSE LET utilization_bps == Min({(Abs(inventory) * BPS) \div InventoryRef, BPS})
       IN Min({SpreadBps + (WidenBps * utilization_bps) \div BPS, MaxSpreadBps})

compute_quote(h, inventory) ==
  LET half_spread == (fair_value(h) * ref_effective_spread_bps(inventory)) \div BPS
  IN [bid |-> Rises(fair_value(h), half_spread), ask |-> fair_value(h) + half_spread]

\* FillDecision: the price and size accepted, or size 0.
evaluate_fill(h, side, requested_size, inventory) ==
  LET two       == compute_quote(h, inventory)
      reference == ref_trailing_mean(h, LookWindow)
  IN IF h = <<>> THEN EmptyHistory
     ELSE IF (Abs(h[Len(h)] - reference) * BPS) \div reference > LookBps THEN RejectedStalePrice
     ELSE [price |-> IF side = "Long" THEN two.ask ELSE two.bid, size |-> Min({requested_size, Cap})]

record_fill(l, side, fill_price, mark_price, size) ==
  [cumulative |-> l.cumulative + (IF side = "Long" THEN -1 ELSE 1) * (mark_price - fill_price) * size,
   inventory  |-> l.inventory + (IF side = "Long" THEN -size ELSE size)]

\* A fill of the matcher's maker, also booked in the reference ledger at the print
\* in force.
FillBooked(s, requested, whole) ==
  /\ Fill(s, requested, whole)
  /\ pnlLedger' = record_fill(pnlLedger, s, quote(maker, s), LastPrint, Offered(maker, s, requested))

MakerInit == Init /\ pnlLedger = [cumulative |-> 0, inventory |-> 0]

MakerNext ==
  \/ \E p \in Prices : NewPrint(p) /\ UNCHANGED pnlLedger
  \/ \E s \in Sides, requested \in 1..MaxQty, whole \in BOOLEAN : FillBooked(s, requested, whole)
  \/ RecordFill /\ UNCHANGED pnlLedger
-----------------------------------------------------------------------------
(* Properties *)

(* The matcher's maker takes the reference's decision in every state it    *)
(* can get to: the same refusals, the same price, the same capped size.    *)
ReferenceAgrees ==
  \A s \in Sides, requested \in 1..MaxQty :
    LET decision == evaluate_fill(maker.history, s, requested, maker.inventory)
        size     == Offered(maker, s, requested)
    IN decision.size = size /\ (size > 0 => decision.price = quote(maker, s))

(* Two ledgers of one maker complete each other: PnlLedger, booked at the  *)
(* print in force, holds exactly the edge that cumulative_pnl leaves out,  *)
(* so the subsidy computed from either one alone is off by the other.      *)
LedgersAddUp ==
  /\ pnlLedger.inventory = maker.inventory
  /\ maker.history # <<>> =>
       cash + maker.inventory * LastPrint = maker.pnl + pnlLedger.cumulative
=============================================================================
