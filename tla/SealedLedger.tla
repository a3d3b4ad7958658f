---------------------------- MODULE SealedLedger ----------------------------
(***************************************************************************)
(* The arithmetic of a sealed position, with no state of its own: what a   *)
(* fill does to a position (PositionFold of api.rs), the margin it needs,  *)
(* the fee it pays, the sizing of a liquidation, and what one settlement   *)
(* transaction does to the sealed positions kept on chain                  *)
(* (SettlementEngine.sol).                                                 *)
(*                                                                         *)
(* A position is [size, entry, fund, coll, lev]: signed size, entry tick,  *)
(* funding index at entry, collateral and leverage.  Take-profit and       *)
(* stop-loss travel with it unread and are left out.  Sealing is an        *)
(* encryption only the matcher can undo: sealed params are the clear ones, *)
(* Empty when the code sends no bytes.                                     *)
(***************************************************************************)
EXTENDS Integers, Sequences, SequencesExt

BPS == 10000
MAX_LEVERAGE == 50
MMR_BPS == 300
LIQUIDATION_SAFETY_BUFFER_BPS == 1000
FEE_TIERS == << <<0, 10>>, <<1000000, 8>>, <<10000000, 6>>, <<100000000, 4>> >>

None == [none |-> TRUE]
Empty == [empty |-> TRUE]
Reverted == [reverted |-> TRUE]

Mag(x) == IF x < 0 THEN -x ELSE x
Least(x, y) == IF x < y THEN x ELSE y
\* Division as Rust and Solidity do it, towards zero.
Quot(x, y) == IF x < 0 THEN -((-x) \div y) ELSE x \div y

----------------------------------------------------------------------------
(* Margin, fee and fill *)

required_margin(tick, qty, leverage) ==
  LET lev == IF leverage < 1 THEN 1 ELSE Least(leverage, MAX_LEVERAGE)
  IN (tick * qty * (BPS \div lev)) \div BPS

\* The tier is the last one, in order, whose threshold the volume reaches.
tier_for_volume(volume) ==
  LET reached == {k \in 1..Len(FEE_TIERS) : \A j \in 1..k : volume >= FEE_TIERS[j][1]}
  IN FEE_TIERS[CHOOSE k \in reached : \A j \in reached : j <= k][2]

taker_fee(notional, volume) == (notional * tier_for_volume(volume)) \div BPS

realized_close_delta(st, close, tick, funding) ==
  LET n      == Least(close, Mag(st.size))
      signed == IF st.size >= 0 THEN n ELSE -n
  IN signed * (tick - st.entry) + signed * (funding - st.fund)

FreshFold(leverage) == [size |-> 0, entry |-> 0, fund |-> 0, coll |-> 0, lev |-> leverage]

\* One fill folded into a position: it adds (entries blended by size), closes
\* (the spot and funding PnL of the closed part is realized and the margin
\* stays), or closes and opens the rest on the other side.
apply_fill(st, buy, price, qty, funding) ==
  LET signed == IF buy THEN qty ELSE -qty
      old    == Mag(st.size)
      closed == Least(qty, old)
      pnl    == realized_close_delta(st, closed, price, funding)
      Added(delta, realized, to) ==
        [st |-> [to EXCEPT !.coll = @ + delta], delta |-> delta, realized |-> realized]
  IN IF st.size = 0 \/ ((st.size > 0) = buy)
     THEN Added(required_margin(price, qty, st.lev), 0,
                [st EXCEPT !.size  = @ + signed,
                           !.entry = (old * @ + qty * price) \div (old + qty),
                           !.fund  = Quot(@ * old + funding * qty, old + qty)])
     ELSE IF closed = qty
     THEN Added(pnl, pnl, [st EXCEPT !.size = @ + signed])
     ELSE Added(pnl + required_margin(price, qty - old, st.lev), pnl,
                [st EXCEPT !.size = @ + signed, !.entry = price, !.fund = funding])

----------------------------------------------------------------------------
(* Liquidation *)

\* The mark of a position: the live price, or its own entry when there is none.
MarkOf(st, price) == IF price = 0 THEN st.entry ELSE price

\* held maps a market to its position, live to its price (0 without a feed).
compute_margin(held, live) ==
  LET req == SumFunction([m \in DOMAIN held |->
               (Mag(held[m].size) * MarkOf(held[m], live[m]) * MMR_BPS) \div BPS])
      eff == SumFunction([m \in DOMAIN held |-> IF held[m].coll > 0 THEN held[m].coll ELSE 0])
  IN [requirement |-> req, collateral |-> eff, breached |-> req > eff]

\* The share to close: the deficit over the requirement, rounded up, and the
\* safety buffer.
CloseBps(margin) ==
  LET deficit == margin.requirement - margin.collateral
  IN IF margin.requirement = 0 THEN BPS
     ELSE Least(BPS, (deficit * BPS + margin.requirement - 1) \div margin.requirement
                     + LIQUIDATION_SAFETY_BUFFER_BPS)

\* One leg: the part to close, or all of it when a part would round to
\* nothing or to everything.
size_liquidation_leg(st, close_bps, price, funding) ==
  LET part   == (Mag(st.size) * close_bps) \div BPS
      closed == IF part = 0 \/ part = Mag(st.size) THEN Mag(st.size) ELSE part
      delta  == realized_close_delta(st, closed, MarkOf(st, price), funding)
      signed == IF st.size >= 0 THEN closed ELSE -closed
  IN [st |-> [st EXCEPT !.size = @ - signed, !.coll = @ + delta], delta |-> delta]

----------------------------------------------------------------------------
(* The sealed positions on chain.  sealed maps a key to [params, coll]; a leg  *)
(* is [key, delta, params].                                                    *)

\* The bound on collateral is the contract's: a leg below zero reverts.
_applySealedLeg(sealed, leg) ==
  LET coll == sealed[leg.key].coll + leg.delta
  IN IF coll < 0 THEN Reverted
     ELSE [sealed EXCEPT ![leg.key] = [params |-> leg.params, coll |-> coll]]

ApplyLegs(sealed, legs) ==
  LET after[n \in 0..Len(legs)] ==
        IF n = 0 THEN sealed
        ELSE IF after[n - 1] = Reverted THEN Reverted
        ELSE _applySealedLeg(after[n - 1], legs[n])
  IN after[Len(legs)]

\* The taker's leg first, then one per maker fill; any revert unwinds all.
settleTakerSweep(sealed, legs) == ApplyLegs(sealed, legs)

\* The collateral the requirement is compared with is the one stored in the
\* markets of these legs.
liquidateSealed(sealed, requirement, legs) ==
  LET before == FoldLeft(LAMBDA acc, leg : acc + sealed[leg.key].coll, 0, legs)
  IN IF legs = <<>> \/ requirement <= before THEN Reverted ELSE ApplyLegs(sealed, legs)

ParamsOf(st) == [size |-> st.size, entry |-> st.entry, fund |-> st.fund, lev |-> st.lev]

\* loadSealed and its unsealing: no bytes, no position, whatever the
\* collateral left behind.
loadSealed(rec) ==
  IF rec.params = Empty THEN None
  ELSE [size |-> rec.params.size, entry |-> rec.params.entry, fund |-> rec.params.fund,
        coll |-> rec.coll, lev |-> rec.params.lev]
=============================================================================
