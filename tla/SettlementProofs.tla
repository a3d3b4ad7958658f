--------------------------- MODULE SettlementProofs ---------------------------
(***************************************************************************)
(* From a fill to the chain, for every number of traders, markets, orders  *)
(* and liquidations: handlers never wait on each other in a circle,        *)
(* realized PnL reaches Account.sol once, and the position cache mirrors   *)
(* what the chain will be.                                                 *)
(***************************************************************************)
EXTENDS SealedSettlement, FiniteSums

-----------------------------------------------------------------------------
(* Records and arithmetic *)

Positions == [size : Int, entry : Nat, fund : Int, coll : Int, lev : Int]
Params == [size : Int, entry : Nat, fund : Int, lev : Int] \cup {Empty}
SealedRecords == [params : Params, coll : Int]
Legs == [key : Keys, delta : Int, params : Params, stamp : Nat]

LEMMA PositionFields ==
  ASSUME NEW st \in Positions
  PROVE  /\ st.size \in Int /\ st.entry \in Nat /\ st.fund \in Int /\ st.coll \in Int /\ st.lev \in Int
         /\ st # None
BY DEF Positions, None

LEMMA PositionMade ==
  ASSUME NEW size \in Int, NEW entry \in Nat, NEW fund \in Int, NEW coll \in Int, NEW lev \in Int,
         NEW st, st = [size |-> size, entry |-> entry, fund |-> fund, coll |-> coll, lev |-> lev]
  PROVE  /\ st \in Positions
         /\ st.size = size /\ st.entry = entry /\ st.fund = fund /\ st.coll = coll /\ st.lev = lev
BY DEF Positions

\* The changes a fill or a liquidation makes to a position.
LEMMA CollateralChanged ==
  ASSUME NEW st \in Positions, NEW coll \in Int, NEW u, u = [st EXCEPT !.coll = coll]
  PROVE  u \in Positions /\ u.size = st.size /\ u.coll = coll
BY DEF Positions

LEMMA SizeChanged ==
  ASSUME NEW st \in Positions, NEW size \in Int, NEW u, u = [st EXCEPT !.size = size]
  PROVE  u \in Positions /\ u.size = size /\ u.coll = st.coll
BY DEF Positions

LEMMA PartClosed ==
  ASSUME NEW st \in Positions, NEW size \in Int, NEW coll \in Int,
         NEW u, u = [st EXCEPT !.size = size, !.coll = coll]
  PROVE  u \in Positions /\ u.size = size /\ u.coll = coll
<1>1. PICK s \in Int, e \in Nat, f \in Int, c \in Int, l \in Int : st = [size |-> s, entry |-> e, fund |-> f, coll |-> c, lev |-> l]
  BY DEF Positions
<1>2. u = [size |-> size, entry |-> e, fund |-> f, coll |-> coll, lev |-> l]
  BY <1>1
<1> QED BY <1>1, <1>2 DEF Positions

LEMMA Arithmetic ==
  ASSUME NEW x \in Int, NEW y \in Int
  PROVE  /\ Mag(x) \in Nat /\ (x # 0 => Mag(x) > 0)
         /\ Least(x, y) \in {x, y} /\ Least(x, y) <= x /\ Least(x, y) <= y
         /\ y > 0 => Quot(x, y) \in Int
BY DEF Mag, Least, Quot

LEMMA MarginInt ==
  ASSUME NEW tick \in Int, NEW qty \in Int, NEW leverage \in Int
  PROVE  required_margin(tick, qty, leverage) \in Int
<1> DEFINE lev == IF leverage < 1 THEN 1 ELSE Least(leverage, MAX_LEVERAGE)
<1>1. lev \in Int /\ lev > 0 /\ BPS \in Int /\ BPS > 0
  BY DEF Least, MAX_LEVERAGE, BPS
<1> HIDE DEF lev
<1>2. (BPS \div lev) \in Int
  BY <1>1
<1>3. (tick * qty * (BPS \div lev)) \in Int
  BY <1>2
<1>4. ((tick * qty * (BPS \div lev)) \div BPS) \in Int
  BY <1>1, <1>3
<1> QED BY <1>4 DEF required_margin, lev

LEMMA FeeInt ==
  ASSUME NEW notional \in Int, NEW volumeBefore \in Nat
  PROVE  taker_fee(notional, volumeBefore) \in Int
<1> DEFINE reached == {k \in 1..Len(FEE_TIERS) : \A j \in 1..k : volumeBefore >= FEE_TIERS[j][1]}
           P(k) == \A j \in reached : j <= k
           tier == CHOOSE k \in reached : P(k)
<1>1. Len(FEE_TIERS) = 4 /\ FEE_TIERS[1][1] = 0
  BY DEF FEE_TIERS
<1>2. 1 \in reached /\ reached \subseteq 1..4
  BY <1>1
<1> HIDE DEF reached
<1>3. \E k \in reached : P(k)
  <2>1. CASE 4 \in reached
    BY <1>2, <2>1
  <2>2. CASE 4 \notin reached /\ 3 \in reached
    BY <1>2, <2>2
  <2>3. CASE 4 \notin reached /\ 3 \notin reached /\ 2 \in reached
    BY <1>2, <2>3
  <2>4. CASE 4 \notin reached /\ 3 \notin reached /\ 2 \notin reached
    BY <1>2, <2>4
  <2> QED BY <2>1, <2>2, <2>3, <2>4
<1> HIDE DEF P
<1>4. tier \in reached
  BY <1>3
<1> HIDE DEF tier
<1>5. FEE_TIERS[tier][2] \in Int
  <2>1. tier \in 1..4
    BY <1>2, <1>4
  <2> QED BY <2>1 DEF FEE_TIERS
<1>6. tier_for_volume(volumeBefore) \in Int
  BY <1>5 DEF tier_for_volume, tier, P, reached
<1>7. BPS \in Int /\ BPS > 0
  BY DEF BPS
<1>8. (notional * tier_for_volume(volumeBefore)) \in Int
  BY <1>6
<1> QED BY <1>7, <1>8 DEF taker_fee

LEMMA CloseInt ==
  ASSUME NEW st \in Positions, NEW close \in Int, NEW tick \in Int, NEW funding \in Int
  PROVE  realized_close_delta(st, close, tick, funding) \in Int
<1>1. st.size \in Int /\ st.entry \in Nat /\ st.fund \in Int
  BY PositionFields
<1>2. Least(close, Mag(st.size)) \in Int
  BY <1>1, Arithmetic
<1> QED BY <1>1, <1>2 DEF realized_close_delta

\* A fill changes the collateral by what it reports and the size by its own.
LEMMA FillResult ==
  ASSUME NEW st \in Positions, NEW buy \in BOOLEAN, NEW price \in Nat, NEW qty \in Nat \ {0},
         NEW funding \in Int, NEW res, res = apply_fill(st, buy, price, qty, funding)
  PROVE  /\ res.st \in Positions /\ res.delta \in Int /\ res.realized \in Int
         /\ res.st.coll = st.coll + res.delta
         /\ res.st.size = st.size + (IF buy THEN qty ELSE -qty)
<1> DEFINE signed == IF buy THEN qty ELSE -qty
           old    == Mag(st.size)
           closed == Least(qty, old)
           pnl    == realized_close_delta(st, closed, price, funding)
           size   == st.size + signed
           blend  == (old * st.entry + qty * price) \div (old + qty)
           fund   == Quot(st.fund * old + funding * qty, old + qty)
           margin == required_margin(price, qty, st.lev)
           more   == pnl + required_margin(price, qty - old, st.lev)
<1>1. st.size \in Int /\ st.entry \in Nat /\ st.fund \in Int /\ st.coll \in Int /\ st.lev \in Int
  BY PositionFields
<1>2. signed \in Int /\ size \in Int /\ old \in Nat /\ closed \in Int
  <2>1. signed \in Int /\ size \in Int
    BY <1>1
  <2>2. old \in Nat
    BY <1>1, Arithmetic
  <2> HIDE DEF old
  <2>3. closed \in Int
    BY <2>2 DEF Least
  <2> QED BY <2>1, <2>2, <2>3
<1>3. pnl \in Int
  BY <1>2, CloseInt
<1>4. margin \in Int /\ more \in Int
  <2> DEFINE rest == qty - old
  <2>1. rest \in Int /\ price \in Int /\ qty \in Int
    BY <1>2
  <2> HIDE DEF rest
  <2>2. margin \in Int /\ required_margin(price, rest, st.lev) \in Int
    BY <1>1, <2>1, MarginInt
  <2> HIDE DEF pnl, margin
  <2> QED BY <1>3, <2>2 DEF rest
<1>5. blend \in Nat /\ fund \in Int
  <2> HIDE DEF old
  <2> DEFINE both == old + qty
             cost == old * st.entry + qty * price
             paid == st.fund * old + funding * qty
  <2>1. both \in Int /\ both > 0 /\ cost \in Nat /\ paid \in Int
    BY <1>1, <1>2
  <2> HIDE DEF both, cost, paid
  <2>2. cost \div both \in Nat
    BY <2>1
  <2>3. Quot(paid, both) \in Int
    BY <2>1, Arithmetic
  <2> QED BY <2>2, <2>3 DEF both, cost, paid
<1> HIDE DEF size, blend, fund, margin, more, pnl
<1> DEFINE Added(delta, realizedPnl, to) ==
             [st |-> [to EXCEPT !.coll = to.coll + delta], delta |-> delta, realized |-> realizedPnl]
<1>6. ASSUME NEW to \in Positions, to.coll = st.coll, to.size = size, NEW delta \in Int, NEW gain \in Int,
             res = Added(delta, gain, to)
      PROVE  /\ res.st \in Positions /\ res.delta \in Int /\ res.realized \in Int
             /\ res.st.coll = st.coll + res.delta
             /\ res.st.size = size
  <2> DEFINE after == [to EXCEPT !.coll = to.coll + delta]
             sum == to.coll + delta
  <2>0. sum \in Int
    BY <1>1, <1>6
  <2> HIDE DEF sum
  <2>1. after = [to EXCEPT !.coll = sum]
    BY DEF sum
  <2> HIDE DEF after
  <2>2. after \in Positions /\ after.coll = st.coll + delta /\ after.size = size
    <3>1. after \in Positions /\ after.coll = sum /\ after.size = to.size
      BY <2>0, <2>1, CollateralChanged
    <3> QED BY <1>6, <3>1 DEF sum
  <2>3. res = [st |-> after, delta |-> delta, realized |-> gain]
    BY <1>6 DEF after
  <2> QED BY <1>6, <2>2, <2>3
<1>7. CASE st.size = 0 \/ ((st.size > 0) = buy)
  <2> DEFINE to == [st EXCEPT !.size = size, !.entry = blend, !.fund = fund]
  <2>0. to = [st EXCEPT !.size = size, !.entry = blend, !.fund = fund]
    OBVIOUS
  <2>2. res = Added(margin, 0, to)
    BY <1>7 DEF apply_fill, size, blend, fund, margin
  <2> HIDE DEF to, Added
  <2>1. to \in Positions /\ to.coll = st.coll /\ to.size = size
    <3>1. PICK s \in Int, e \in Nat, f \in Int, c \in Int, l \in Int : st = [size |-> s, entry |-> e, fund |-> f, coll |-> c, lev |-> l]
      BY DEF Positions
    <3>2. to = [size |-> size, entry |-> blend, fund |-> fund, coll |-> c, lev |-> l]
      BY <2>0, <3>1
    <3> QED BY <1>2, <1>5, <3>1, <3>2 DEF Positions
  <2> QED BY <1>4, <1>6, <2>1, <2>2 DEF size
<1>8. CASE ~(st.size = 0 \/ ((st.size > 0) = buy)) /\ closed = qty
  <2> DEFINE to == [st EXCEPT !.size = size]
  <2>1. to \in Positions /\ to.coll = st.coll /\ to.size = size
    BY <1>2, SizeChanged
  <2>2. res = Added(pnl, pnl, to)
    BY <1>8 DEF apply_fill, size, pnl
  <2> HIDE DEF to, Added
  <2> QED BY <1>3, <1>6, <2>1, <2>2 DEF size
<1>9. CASE ~(st.size = 0 \/ ((st.size > 0) = buy)) /\ closed # qty
  <2> DEFINE to == [st EXCEPT !.size = size, !.entry = price, !.fund = funding]
  <2>0. to = [st EXCEPT !.size = size, !.entry = price, !.fund = funding] /\ price \in Int
    OBVIOUS
  <2>2. res = Added(more, pnl, to)
    BY <1>9 DEF apply_fill, size, pnl, more
  <2> HIDE DEF to, Added
  <2>1. to \in Positions /\ to.coll = st.coll /\ to.size = size
    <3>1. PICK s \in Int, e \in Nat, f \in Int, c \in Int, l \in Int : st = [size |-> s, entry |-> e, fund |-> f, coll |-> c, lev |-> l]
      BY DEF Positions
    <3>2. to = [size |-> size, entry |-> price, fund |-> funding, coll |-> c, lev |-> l]
      BY <2>0, <3>1
    <3> QED BY <1>2, <3>1, <3>2 DEF Positions
  <2> QED BY <1>3, <1>4, <1>6, <2>1, <2>2 DEF size
<1> QED BY <1>7, <1>8, <1>9

\* A leg of a liquidation, likewise.
LEMMA LiquidationLeg ==
  ASSUME NEW st \in Positions, NEW bps \in Int, NEW price \in Nat, NEW funding \in Int,
         NEW leg, leg = size_liquidation_leg(st, bps, price, funding)
  PROVE  leg.st \in Positions /\ leg.delta \in Int /\ leg.st.coll = st.coll + leg.delta
<1> DEFINE part   == (Mag(st.size) * bps) \div BPS
           closed == IF part = 0 \/ part = Mag(st.size) THEN Mag(st.size) ELSE part
           delta  == realized_close_delta(st, closed, MarkOf(st, price), funding)
           signed == IF st.size >= 0 THEN closed ELSE -closed
           size   == st.size - signed
           coll   == st.coll + delta
           to     == [st EXCEPT !.size = size, !.coll = coll]
<1>1. st.size \in Int /\ st.entry \in Nat /\ st.coll \in Int /\ Mag(st.size) \in Nat
  BY PositionFields, Arithmetic
<1>2. BPS \in Int /\ BPS > 0 /\ Mag(st.size) * bps \in Int
  BY <1>1 DEF BPS
<1>3. part \in Int
  BY <1>2
<1> HIDE DEF part
<1>4. closed \in Int /\ MarkOf(st, price) \in Int
  BY <1>1, <1>3 DEF MarkOf
<1> HIDE DEF closed
<1>5. delta \in Int
  BY <1>4, CloseInt
<1> HIDE DEF delta
<1>6. size \in Int /\ coll \in Int
  BY <1>1, <1>4, <1>5
<1>7. leg = [st |-> to, delta |-> delta]
  BY DEF size_liquidation_leg, part, closed, delta
<1>8. to = [st EXCEPT !.size = size, !.coll = coll]
  OBVIOUS
<1> HIDE DEF to, size, coll
<1>9. PICK s \in Int, e \in Nat, f \in Int, c \in Int, l \in Int :
        st = [size |-> s, entry |-> e, fund |-> f, coll |-> c, lev |-> l]
  BY DEF Positions
<1>10. to = [size |-> size, entry |-> e, fund |-> f, coll |-> coll, lev |-> l]
  BY <1>8, <1>9
<1>11. to \in Positions /\ to.coll = coll
  BY <1>6, <1>9, <1>10 DEF Positions
<1> QED BY <1>5, <1>7, <1>11 DEF coll

\* The share of a liquidation that is closed.
LEMMA ShareInt ==
  ASSUME NEW held, IsFiniteSet(DOMAIN held), \A m \in DOMAIN held : held[m] \in Positions,
         NEW live, \A m \in DOMAIN held : live[m] \in Nat
  PROVE  LET margin == compute_margin(held, live) IN
         margin.requirement \in Nat /\ CloseBps(margin) \in Int
<1> DEFINE needs == [m \in DOMAIN held |-> (Mag(held[m].size) * MarkOf(held[m], live[m]) * MMR_BPS) \div BPS]
           has == [m \in DOMAIN held |-> IF held[m].coll > 0 THEN held[m].coll ELSE 0]
           need == SumFunction(needs)
           own == SumFunction(has)
           margin == compute_margin(held, live)
<1>1. \A m \in DOMAIN needs : needs[m] \in Nat
  <2> TAKE m \in DOMAIN needs
  <2>1. held[m].size \in Int /\ held[m].entry \in Nat /\ live[m] \in Nat
    BY PositionFields
  <2>2. Mag(held[m].size) \in Nat /\ MarkOf(held[m], live[m]) \in Nat /\ MMR_BPS \in Nat /\ BPS \in Nat \ {0}
    BY <2>1, Arithmetic DEF MarkOf, MMR_BPS, BPS
  <2>3. (Mag(held[m].size) * MarkOf(held[m], live[m]) * MMR_BPS) \in Nat
    BY <2>2
  <2> QED BY <2>2, <2>3
<1>2. \A m \in DOMAIN has : has[m] \in Nat
  BY PositionFields
<1>3. margin = [requirement |-> need, collateral |-> own, breached |-> need > own]
  BY DEF compute_margin
<1>4. DOMAIN needs = DOMAIN held /\ DOMAIN has = DOMAIN held
  OBVIOUS
<1> HIDE DEF needs, has
<1>5. need \in Nat /\ own \in Nat
  BY <1>1, <1>2, <1>4, SumNat DEF SumFunction
<1> HIDE DEF need, own
<1>6. margin.requirement = need /\ margin.collateral = own
  BY <1>3
<1> HIDE DEF margin
<1>7. CloseBps(margin) \in Int
  <2> DEFINE x == (need - own) * BPS + need - 1
             y == x \div need + LIQUIDATION_SAFETY_BUFFER_BPS
  <2>1. BPS \in Int /\ LIQUIDATION_SAFETY_BUFFER_BPS \in Int
    BY DEF BPS, LIQUIDATION_SAFETY_BUFFER_BPS
  <2>2. x \in Int
    BY <1>5, <2>1
  <2> HIDE DEF x
  <2>3. need # 0 => y \in Int
    BY <1>5, <2>1, <2>2
  <2> HIDE DEF y
  <2>4. CloseBps(margin) = IF need = 0 THEN BPS ELSE Least(BPS, y)
    BY <1>6 DEF CloseBps, x, y
  <2> QED BY <2>1, <2>3, <2>4 DEF Least
<1> QED BY <1>5, <1>6, <1>7 DEF margin

LEMMA SealedFields ==
  ASSUME NEW rec \in SealedRecords
  PROVE  /\ rec.params \in Params /\ rec.coll \in Int
         /\ loadSealed(rec) \in Positions \cup {None}
BY DEF SealedRecords, Params, Positions, loadSealed, Empty

LEMMA ParamsMade ==
  ASSUME NEW st \in Positions
  PROVE  ParamsOf(st) \in Params
BY DEF Positions, Params, ParamsOf

-----------------------------------------------------------------------------
(* What a transaction does to the chain *)

SealedMaps == [Keys -> SealedRecords]

\* The legs one by one: the chain after each, from the first to the last.
LegsRun(chain, legs, run) ==
  /\ run[0] = chain
  /\ \A n \in 1..Len(legs) :
       run[n] = IF run[n - 1] = Reverted THEN Reverted ELSE _applySealedLeg(run[n - 1], legs[n])

LEMMA LegsRunExists ==
  ASSUME NEW chain, NEW legs \in Seq(Legs)
  PROVE  \E run : LegsRun(chain, legs, run) /\ ApplyLegs(chain, legs) = run[Len(legs)]
<1> DEFINE N == Len(legs)
           Body(g, k) == IF k = 0 THEN chain
                         ELSE IF g[k - 1] = Reverted THEN Reverted
                         ELSE _applySealedLeg(g[k - 1], legs[k])
           Runs(g) == g = [k \in 0..N |-> Body(g, k)]
<1>1. N \in Nat
  OBVIOUS
<1>2. \E g : Runs(g)
  <2> DEFINE Good(n) == \E g : g = [k \in 0..n |-> Body(g, k)]
             G == {n \in Nat : Good(n)}
  <2>1. Good(0)
    <3> DEFINE g == [k \in 0..0 |-> chain]
    <3>1. g = [k \in 0..0 |-> Body(g, k)]
      OBVIOUS
    <3> QED BY <3>1
  <2>2. \A n \in Nat : Good(n) => Good(n + 1)
    <3> TAKE n \in Nat
    <3> HAVE Good(n)
    <3>1. PICK g : g = [k \in 0..n |-> Body(g, k)]
      OBVIOUS
    <3> DEFINE h == [k \in 0..n + 1 |-> IF k \in 0..n THEN g[k] ELSE Body(g, k)]
    <3>2. \A k \in 0..n : h[k] = g[k] /\ g[k] = Body(g, k)
      <4> HIDE DEF Body
      <4>1. \A k \in 0..n : k \in 0..n + 1
        OBVIOUS
      <4>2. \A k \in 0..n : g[k] = Body(g, k)
        BY <3>1
      <4> QED BY <4>1, <4>2
    <3>3. \A k \in 0..n + 1 : k # 0 => k - 1 \in 0..n
      OBVIOUS
    <3>4. \A k \in 0..n + 1 : h[k] = Body(h, k)
      <4> TAKE k \in 0..n + 1
      <4>1. h[k] = Body(g, k)
        BY <3>2
      <4>2. k # 0 => h[k - 1] = g[k - 1]
        BY <3>2, <3>3
      <4> QED BY <4>1, <4>2
    <3>5. h = [k \in 0..n + 1 |-> h[k]]
      OBVIOUS
    <3> HIDE DEF h
    <3>6. h = [k \in 0..n + 1 |-> Body(h, k)]
      BY <3>4, <3>5
    <3> QED BY <3>6
  <2>3. \A n \in Nat : n \in G => n + 1 \in G
    <3> HIDE DEF Good
    <3> QED BY <2>2
  <2>4. Nat \subseteq G
    <3>1. 0 \in G
      BY <2>1
    <3> HIDE DEF G
    <3> QED BY <2>3, <3>1, Induction
  <2> QED BY <1>1, <2>4
<1> DEFINE it == CHOOSE g : Runs(g)
<1>3. Runs(it)
  BY <1>2
<1>4. ApplyLegs(chain, legs) = it[N]
  BY Zenon DEF ApplyLegs
<1> HIDE DEF it
<1>5. \A k \in 0..N : it[k] = Body(it, k)
  <2> HIDE DEF Body
  <2> QED BY <1>3
<1>6. 0 \in 0..N /\ \A n \in 1..N : n \in 0..N /\ n # 0
  BY <1>1
<1>7. LegsRun(chain, legs, it)
  BY <1>5, <1>6 DEF LegsRun
<1> QED BY <1>4, <1>7

\* One leg moves the collateral of its key by its delta, and nothing else.
LEMMA OneLeg ==
  ASSUME NEW chain \in SealedMaps, NEW leg \in Legs, _applySealedLeg(chain, leg) # Reverted
  PROVE  /\ _applySealedLeg(chain, leg) \in SealedMaps
         /\ _applySealedLeg(chain, leg)[leg.key].coll = chain[leg.key].coll + leg.delta
         /\ _applySealedLeg(chain, leg)[leg.key].params = leg.params
         /\ \A k \in Keys \ {leg.key} : _applySealedLeg(chain, leg)[k] = chain[k]
<1> DEFINE coll == chain[leg.key].coll + leg.delta
           rec == [params |-> leg.params, coll |-> coll]
<1>1. leg.key \in Keys /\ leg.delta \in Int /\ leg.params \in Params
  BY DEF Legs
<1>2. chain[leg.key].coll \in Int
  BY <1>1, SealedFields DEF SealedMaps
<1>3. coll \in Int
  BY <1>1, <1>2
<1>4. _applySealedLeg(chain, leg) = [chain EXCEPT ![leg.key] = rec]
  BY DEF _applySealedLeg
<1> HIDE DEF coll
<1>5. rec \in SealedRecords /\ rec.coll = coll /\ rec.params = leg.params
  BY <1>1, <1>3 DEF SealedRecords
<1> HIDE DEF rec
<1> QED BY <1>1, <1>4, <1>5 DEF SealedMaps, coll

LEMMA LegsType ==
  ASSUME NEW chain \in SealedMaps, NEW legs \in Seq(Legs)
  PROVE  ApplyLegs(chain, legs) \in SealedMaps \cup {Reverted}
<1>1. PICK run : LegsRun(chain, legs, run) /\ ApplyLegs(chain, legs) = run[Len(legs)]
  BY LegsRunExists
<1> DEFINE Good(n) == n <= Len(legs) => run[n] \in SealedMaps \cup {Reverted}
           G == {n \in Nat : Good(n)}
<1>2. 0 \in G
  BY <1>1 DEF LegsRun
<1>3. \A n \in Nat : n \in G => n + 1 \in G
  <2> SUFFICES ASSUME NEW n \in Nat, Good(n), n + 1 <= Len(legs)
               PROVE  run[n + 1] \in SealedMaps \cup {Reverted}
    OBVIOUS
  <2>1. n + 1 \in 1..Len(legs) /\ (n + 1) - 1 = n /\ Len(legs) \in Nat
    OBVIOUS
  <2>2. legs[n + 1] \in Legs /\ run[n] \in SealedMaps \cup {Reverted}
    BY <2>1
  <2>3. run[n + 1] = IF run[n] = Reverted THEN Reverted ELSE _applySealedLeg(run[n], legs[n + 1])
    BY <1>1, <2>1 DEF LegsRun
  <2>4. CASE run[n] = Reverted
    BY <2>3, <2>4
  <2>5. CASE run[n] # Reverted
    BY <2>2, <2>3, <2>5, OneLeg
  <2> QED BY <2>4, <2>5
<1> HIDE DEF G
<1>4. Nat \subseteq G
  BY <1>2, <1>3, Induction
<1> USE DEF G
<1>5. Len(legs) \in Nat
  OBVIOUS
<1> QED BY <1>1, <1>4, <1>5

-----------------------------------------------------------------------------
(* The shape of the state *)

Fills == [maker : Traders, price : Prices, qty : Qtys]
Batches == [Traders -> Int]
Txs == [owner : Procs, kind : {"sweep", "liquidate", "pnl"}, legs : Seq(Legs),
        requirement : Nat, batch : Batches]

OrderOver(o) ==
  "pc" \in DOMAIN o /\ o.pc \in {"idle", "rejected", "unfilled", "confirmed", "unsettled", "dropped"}

AskFields == {"pc", "taker", "market", "buy", "tick", "qty", "lev"}
Asking(o) ==
  /\ DOMAIN o = AskFields /\ o.pc = "match"
  /\ o.taker \in Traders /\ o.market \in Markets /\ o.buy \in BOOLEAN /\ o.lev \in Leverages

Filling(o) ==
  /\ DOMAIN o = AskFields \cup {"role", "i", "fills", "legs", "delta", "tier", "funding", "locked", "got"}
  /\ o.pc \in {"lock", "read", "fold", "leg", "spawn", "queued", "sent", "failed"}
  /\ o.taker \in Traders /\ o.market \in Markets /\ o.buy \in BOOLEAN /\ o.lev \in Leverages
  /\ o.role \in {"maker", "taker"}
  /\ o.fills \in Seq(Fills) /\ o.i \in 1..Len(o.fills) /\ o.legs \in Seq(Legs)
  /\ o.delta \in Int /\ o.locked \in Int /\ o.tier \in Nat /\ o.funding \in Int
  /\ o.got \in Positions \cup {None}

OrderOK(o) == OrderOver(o) \/ Asking(o) \/ Filling(o)

LiqOver(o) == "pc" \in DOMAIN o /\ o.pc \in {"idle", "done"}

Locking(o) ==
  /\ DOMAIN o = {"pc", "who", "markets", "todo", "got"}
  /\ o.pc \in {"lock", "read", "size"}
  /\ o.who \in Traders /\ o.markets \subseteq Markets /\ o.markets # {} /\ o.todo \subseteq o.markets
  /\ o.pc # "size" => o.todo # {}
  /\ DOMAIN o.got \subseteq o.markets /\ \A m \in DOMAIN o.got : o.got[m] \in Positions

Sending(o) ==
  /\ DOMAIN o = {"pc", "who", "markets", "left", "legs", "failed", "requirement"}
  /\ o.pc \in {"send", "sent"}
  /\ o.who \in Traders /\ o.markets \subseteq Markets /\ o.left \subseteq o.markets
  /\ o.requirement \in Nat /\ \A m \in o.left : o.legs[m] \in Legs

LiqOK(o) == LiqOver(o) \/ Locking(o) \/ Sending(o)

FlushOK(f) ==
  f = Idle \/ (DOMAIN f = {"pc", "batch"} /\ f.pc \in {"send", "sent"} /\ f.batch \in Batches)

OrderTypes == req = [r \in Orders |-> req[r]] /\ \A r \in Orders : OrderOK(req[r])
LiqTypes == liq = [l \in Liquidations |-> liq[l]] /\ \A l \in Liquidations : LiqOK(liq[l])
Store == cache \in [Keys -> Positions \cup {None}] /\ sealed \in SealedMaps /\ stamp \in [Keys -> Nat]
Money ==
  /\ pending \in Batches /\ account \in Batches /\ realized \in Batches /\ forgiven \in Batches
  /\ volume \in [Traders -> Nat]
Wires ==
  /\ queue \in Seq(Txs) /\ faults \in Nat
  /\ locks \in [Keys -> Procs \cup {Free}] /\ bcast \in Procs \cup {Free}

Types == OrderTypes /\ LiqTypes /\ FlushOK(flush) /\ Store /\ Money /\ Wires

LEMMA FillNumbers ==
  ASSUME NEW f \in Fills
  PROVE  f.maker \in Traders /\ f.price \in Nat /\ f.qty \in Nat \ {0} /\ f.price * f.qty \in Nat
<1>1. f.maker \in Traders /\ f.price \in Prices /\ f.qty \in Qtys
  BY DEF Fills
<1>2. f.price \in Nat /\ f.qty \in Nat \ {0}
  BY <1>1, ConstantsAssumption
<1> QED BY <1>1, <1>2

LEMMA UsdInt ==
  ASSUME NEW x \in Int, NEW m \in Markets
  PROVE  ToUsd(x, m) \in Int
<1> DEFINE top == x * UsdScale
<1>1. UsdScale \in Int
  BY ConstantsAssumption
<1>2. PriceScale[m] \in Int /\ PriceScale[m] > 0
  <2>1. PriceScale[m] \in Nat \ {0}
    BY ConstantsAssumption
  <2> QED BY <2>1
<1>3. top \in Int
  BY <1>1
<1> HIDE DEF top
<1>4. Quot(top, PriceScale[m]) \in Int
  BY <1>2, <1>3, Arithmetic
<1> QED BY <1>4 DEF ToUsd, top

LEMMA LegMade ==
  ASSUME NEW k \in Keys, NEW delta \in Int, NEW p \in Params, NEW n \in Nat
  PROVE  [key |-> k, delta |-> delta, params |-> p, stamp |-> n] \in Legs
BY DEF Legs

LEMMA OrderMoved ==
  ASSUME OrderTypes, NEW r \in Orders, NEW u, req' = [req EXCEPT ![r] = u], OrderOK(u)
  PROVE  OrderTypes' /\ req'[r] = u /\ \A q \in Orders \ {r} : req'[q] = req[q]
<1>1. req'[r] = u /\ (\A q \in Orders \ {r} : req'[q] = req[q]) /\ req' = [q \in Orders |-> req'[q]]
  BY DEF OrderTypes
<1>2. \A q \in Orders : OrderOK(req'[q])
  BY <1>1 DEF OrderTypes
<1>3. OrderTypes'
  BY <1>1, <1>2 DEF OrderTypes, OrderOK, OrderOver, Asking, Filling
<1> QED BY <1>1, <1>3

LEMMA LiqMoved ==
  ASSUME LiqTypes, NEW l \in Liquidations, NEW u, liq' = [liq EXCEPT ![l] = u], LiqOK(u)
  PROVE  LiqTypes' /\ liq'[l] = u /\ \A q \in Liquidations \ {l} : liq'[q] = liq[q]
<1>1. liq'[l] = u /\ (\A q \in Liquidations \ {l} : liq'[q] = liq[q]) /\ liq' = [q \in Liquidations |-> liq'[q]]
  BY DEF LiqTypes
<1>2. \A q \in Liquidations : LiqOK(liq'[q])
  BY <1>1 DEF LiqTypes
<1>3. LiqTypes'
  BY <1>1, <1>2 DEF LiqTypes, LiqOK, LiqOver, Locking, Sending
<1> QED BY <1>1, <1>3

LEMMA FillingByPc ==
  ASSUME NEW o, OrderOK(o), o.pc \in {"lock", "read", "fold", "leg", "spawn", "queued", "sent", "failed"}
  PROVE  Filling(o)
BY DEF OrderOK, OrderOver, Asking

LEMMA KeyOfFilling ==
  ASSUME NEW o, Filling(o)
  PROVE  KeyOf(o) \in Keys /\ o.fills[o.i] \in Fills /\ KeyOf(o)[2] = o.market /\ KeyOf(o)[1] \in Traders
<1>1. o.fills[o.i] \in Fills /\ o.taker \in Traders /\ o.market \in Markets
  BY DEF Filling
<1>2. o.fills[o.i].maker \in Traders
  BY <1>1 DEF Fills
<1> QED BY <1>1, <1>2 DEF KeyOf, Keys

LEMMA TypesStart == Init => Types
<1> SUFFICES ASSUME Init PROVE Types
  OBVIOUS
<1>1. OrderTypes /\ LiqTypes /\ FlushOK(flush)
  BY DEF Init, OrderTypes, LiqTypes, FlushOK, OrderOK, OrderOver, LiqOK, LiqOver, Idle
<1>2. Money
  BY ConstantsAssumption DEF Init, Money, Batches, NoBatch
<1>3. Wires
  BY DEF Init, Wires
<1>4. Store
  <2>1. ASSUME NEW size \in Int PROVE Opened(size) \in SealedRecords
    <3>1. CASE size = 0
      BY <3>1 DEF Opened, SealedRecords, Params
    <3>2. CASE size # 0
      <4> DEFINE tick == CHOOSE t \in Prices : \A u \in Prices : t <= u
                 lev  == CHOOSE l \in Leverages : \A x \in Leverages : x <= l
                 new  == apply_fill(FreshFold(lev), size > 0, tick, Mag(size), 0).st
      <4>1. tick \in Nat
        BY ConstantsAssumption, LeastOf
      <4>2. lev \in Nat
        BY ConstantsAssumption, GreatestOf
      <4> HIDE DEF tick, lev
      <4>3. FreshFold(lev) \in Positions
        BY <4>2 DEF FreshFold, Positions
      <4>4. Mag(size) \in Nat \ {0} /\ (size > 0) \in BOOLEAN /\ 0 \in Int
        BY <3>2, Arithmetic
      <4>5. new \in Positions
        BY <4>1, <4>3, <4>4, FillResult
      <4> HIDE DEF new
      <4>6. ParamsOf(new) \in Params /\ new.coll \in Int
        BY <4>5, ParamsMade, PositionFields
      <4>7. Opened(size) = [params |-> ParamsOf(new), coll |-> new.coll]
        BY <3>2 DEF Opened, new, tick, lev
      <4> QED BY <4>6, <4>7 DEF SealedRecords
    <3> QED BY <3>1, <3>2
  <2>2. \A open \in Openings : \A k \in Keys : open[k] \in Int
    BY ConstantsAssumption
  <2>3. sealed \in SealedMaps
    BY <2>1, <2>2 DEF Init, SealedMaps
  <2> QED BY <2>3 DEF Init, Store
<1> QED BY <1>1, <1>2, <1>3, <1>4 DEF Types

-----------------------------------------------------------------------------
(* The steps of an order *)

LEMMA CheckTypes ==
  ASSUME Types, NEW r \in Orders, Check(r)
  PROVE  Types' /\ req'[r].pc \in {"match", "rejected"} /\ \A q \in Orders \ {r} : req'[q] = req[q]
<1>1. PICK t \in Traders, m \in Markets, buy \in BOOLEAN, tick \in Prices, qty \in Qtys, lev \in Leverages :
        req' = [req EXCEPT ![r] =
          IF check_deposited_collateral(t, m, buy, tick, qty, lev)
          THEN [pc |-> "match", taker |-> t, market |-> m, buy |-> buy, tick |-> tick, qty |-> qty, lev |-> lev]
          ELSE [pc |-> "rejected"]]
  BY DEF Check
<1> DEFINE u == IF check_deposited_collateral(t, m, buy, tick, qty, lev)
                THEN [pc |-> "match", taker |-> t, market |-> m, buy |-> buy, tick |-> tick, qty |-> qty, lev |-> lev]
                ELSE [pc |-> "rejected"]
<1>2. OrderOK(u) /\ u.pc \in {"match", "rejected"}
  BY DEF OrderOK, OrderOver, Asking, AskFields
<1>3. req' = [req EXCEPT ![r] = u]
  BY <1>1
<1> HIDE DEF u
<1>4. OrderTypes' /\ req'[r] = u /\ \A q \in Orders \ {r} : req'[q] = req[q]
  BY <1>2, <1>3, OrderMoved DEF Types
<1> QED BY <1>2, <1>4 DEF Types, Check, LiqTypes, Store, Money, Wires, history

LEMMA MatchTypes ==
  ASSUME Types, NEW r \in Orders, Match(r)
  PROVE  Types' /\ req'[r].pc \in {"lock", "unfilled"} /\ \A q \in Orders \ {r} : req'[q] = req[q]
<1>1. Asking(req[r])
  BY DEF Match, Types, OrderTypes, OrderOK, OrderOver, Filling
<1>2. PICK s \in Sweeps(req[r]), f \in FundingIndexes :
        req' = [req EXCEPT ![r] = IF s = <<>> THEN [pc |-> "unfilled"] ELSE
          [pc |-> "lock", role |-> "maker", i |-> 1, fills |-> s, legs |-> <<>>, delta |-> 0,
           tier |-> volume[req[r].taker], funding |-> f, locked |-> 0, got |-> None,
           taker |-> req[r].taker, market |-> req[r].market, buy |-> req[r].buy, tick |-> req[r].tick,
           qty |-> req[r].qty, lev |-> req[r].lev]]
  BY DEF Match
<1> DEFINE new == [pc |-> "lock", role |-> "maker", i |-> 1, fills |-> s, legs |-> <<>>, delta |-> 0,
                   tier |-> volume[req[r].taker], funding |-> f, locked |-> 0, got |-> None,
                   taker |-> req[r].taker, market |-> req[r].market, buy |-> req[r].buy, tick |-> req[r].tick,
                   qty |-> req[r].qty, lev |-> req[r].lev]
           u == IF s = <<>> THEN [pc |-> "unfilled"] ELSE new
<1>3. s \in Seq(Fills) /\ (s # <<>> => 1 \in 1..Len(s))
  <2>1. PICK n \in 0..MaxFills : s \in [1..n -> [maker : Traders \ {req[r].taker}, price : Prices, qty : Qtys]]
    BY DEF Sweeps
  <2>2. n \in Nat
    BY ConstantsAssumption
  <2>3. s \in [1..n -> Fills]
    BY <2>1 DEF Fills
  <2>4. s \in Seq(Fills) /\ Len(s) = n
    BY <2>2, <2>3
  <2>5. s # <<>> => n # 0
    BY <2>4
  <2> QED BY <2>2, <2>4, <2>5
<1>4. volume[req[r].taker] \in Nat /\ f \in Int
  BY <1>1, ConstantsAssumption DEF Types, Money, Asking
<1>5. OrderOK(u) /\ u.pc \in {"lock", "unfilled"}
  <2>1. CASE s = <<>>
    BY <2>1 DEF OrderOK, OrderOver
  <2>2. CASE s # <<>>
    <3>1. new.pc = "lock" /\ Filling(new)
      BY <1>1, <1>3, <1>4, <2>2 DEF Filling, Asking, AskFields
    <3> QED BY <2>2, <3>1 DEF OrderOK
  <2> QED BY <2>1, <2>2
<1>6. req' = [req EXCEPT ![r] = u]
  BY <1>2
<1> HIDE DEF u
<1>7. OrderTypes' /\ req'[r] = u /\ \A q \in Orders \ {r} : req'[q] = req[q]
  BY <1>5, <1>6, OrderMoved DEF Types
<1> QED BY <1>5, <1>7 DEF Types, Match, LiqTypes, Store, Money, Wires, history

\* It holds one lock, that of the leg it folds.
LEMMA LockTypes ==
  ASSUME Types, NEW r \in Orders, Lock(r)
  PROVE  LET k == KeyOf(req[r]) IN
         /\ Types' /\ req'[r].pc \in {"read", "fold"} /\ \A q \in Orders \ {r} : req'[q] = req[q]
         /\ k \in Keys /\ KeyOf(req'[r]) = k /\ locks' = [locks EXCEPT ![k] = r] /\ locks[k] = Free
<1> DEFINE k == KeyOf(req[r])
           o == req[r]
           u == [o EXCEPT !.pc = IF cache[k] = None THEN "read" ELSE "fold", !.got = cache[k]]
<1>1. Filling(o)
  BY FillingByPc DEF Lock, Types, OrderTypes
<1>2. k \in Keys
  BY <1>1, KeyOfFilling
<1>3. cache[k] \in Positions \cup {None}
  BY <1>2 DEF Types, Store
<1> HIDE DEF k
<1>4. /\ DOMAIN u = DOMAIN o /\ u.pc \in {"read", "fold"} /\ u.got = cache[k]
      /\ \A x \in DOMAIN o \ {"pc", "got"} : u[x] = o[x]
  BY <1>1 DEF Filling, AskFields
<1>5. req' = [req EXCEPT ![r] = u]
  BY DEF Lock, k, Types, OrderTypes
<1> HIDE DEF u
<1>6. Filling(u) /\ KeyOf(u) = KeyOf(o)
  BY <1>1, <1>3, <1>4 DEF Filling, AskFields, KeyOf
<1> HIDE DEF o
<1>7. OrderTypes' /\ req'[r] = u /\ \A q \in Orders \ {r} : req'[q] = req[q]
  BY <1>5, <1>6, OrderMoved DEF Types, OrderOK
<1>8. locks' = [locks EXCEPT ![k] = r] /\ locks[k] = Free
  BY DEF Lock, k
<1>9. Wires'
  BY <1>8 DEF Types, Wires, Lock, Procs
<1> QED BY <1>2, <1>4, <1>6, <1>7, <1>8, <1>9 DEF Types, Lock, LiqTypes, Store, Money, history, k, o

LEMMA ReadTypes ==
  ASSUME Types, NEW r \in Orders, ReadChain(r)
  PROVE  /\ Types' /\ req[r].pc = "read" /\ req'[r].pc = "fold" /\ \A q \in Orders \ {r} : req'[q] = req[q]
         /\ KeyOf(req'[r]) = KeyOf(req[r])
<1> DEFINE k == KeyOf(req[r])
           o == req[r]
<1>1. Filling(o) /\ o.pc = "read"
  BY FillingByPc DEF ReadChain, Types, OrderTypes
<1>2. k \in Keys
  BY <1>1, KeyOfFilling
<1>3. loadSealed(sealed[k]) \in Positions \cup {None}
  BY <1>2, SealedFields DEF Types, Store, SealedMaps
<1>4. PICK got \in Positions \cup {None} : req' = [req EXCEPT ![r].pc = "fold", ![r].got = got]
  BY <1>3 DEF ReadChain
<1> DEFINE u == [o EXCEPT !.pc = "fold", !.got = got]
<1>5. /\ DOMAIN u = DOMAIN o /\ u.pc = "fold" /\ u.got = got
      /\ \A x \in DOMAIN o \ {"pc", "got"} : u[x] = o[x]
  BY <1>1 DEF Filling, AskFields
<1>6. req' = [req EXCEPT ![r] = u]
  BY <1>4 DEF Types, OrderTypes
<1> HIDE DEF u
<1>7. Filling(u) /\ KeyOf(u) = KeyOf(o)
  BY <1>1, <1>5 DEF Filling, AskFields, KeyOf
<1>8. OrderTypes' /\ req'[r] = u /\ \A q \in Orders \ {r} : req'[q] = req[q]
  BY <1>6, <1>7, OrderMoved DEF Types, OrderOK
<1>9. faults' \in Nat
  BY DEF ReadChain, Types, Wires
<1> QED BY <1>1, <1>5, <1>7, <1>8, <1>9 DEF Types, ReadChain, LiqTypes, Store, Money, Wires

\* The PnL it realizes is queued for the trader whose position was folded.
LEMMA FoldTypes ==
  ASSUME Types, NEW r \in Orders, Fold(r)
  PROVE  LET k == KeyOf(req[r]) IN
         /\ Types' /\ req[r].pc = "fold" /\ req'[r].pc \in {"leg", "spawn", "lock"}
         /\ \A q \in Orders \ {r} : req'[q] = req[q]
         /\ k \in Keys /\ locks' = [locks EXCEPT ![k] = Free]
         /\ \E usd \in Int : /\ pending' = [pending EXCEPT ![k[1]] = @ + usd]
                             /\ realized' = [realized EXCEPT ![k[1]] = @ + usd]
<1> DEFINE o     == req[r]
           k     == KeyOf(o)
           f     == o.fills[o.i]
           maker == o.role = "maker"
           buy   == IF maker THEN ~o.buy ELSE o.buy
           from  == IF o.got # None THEN o.got ELSE FreshFold(IF maker THEN MakerLeverage ELSE o.lev)
           res   == apply_fill(from, buy, f.price, f.qty, o.funding)
           fee   == IF maker THEN 0 ELSE taker_fee(f.price * f.qty, o.tier)
           new   == [res.st EXCEPT !.coll = res.st.coll + fee]
           usd   == ToUsd(res.realized, o.market)
           last  == o.i = Len(o.fills)
           u     == IF maker THEN [o EXCEPT !.pc = "leg", !.locked = res.delta, !.got = None]
                    ELSE [o EXCEPT !.pc = IF last THEN "spawn" ELSE "lock", !.got = None,
                                   !.i = IF last THEN o.i ELSE o.i + 1,
                                   !.role = IF last THEN o.role ELSE "maker",
                                   !.delta = o.delta + res.delta + fee]
<1>1. Filling(o) /\ o.pc = "fold"
  BY FillingByPc DEF Fold, Types, OrderTypes
<1>2. k \in Keys /\ k[1] \in Traders /\ f \in Fills
  BY <1>1, KeyOfFilling
<1>3. /\ cache' = [cache EXCEPT ![k] = IF new.size = 0 THEN None ELSE new]
      /\ locks' = [locks EXCEPT ![k] = Free]
      /\ pending' = [pending EXCEPT ![k[1]] = @ + usd]
      /\ realized' = [realized EXCEPT ![k[1]] = @ + usd]
      /\ req' = [req EXCEPT ![r] = u]
      /\ stamp' = [stamp EXCEPT ![k] = @ + 1]
      /\ UNCHANGED <<sealed, bcast, queue, liq, flush, account, volume, faults, forgiven>>
  BY DEF Fold, queue_realized_pnl
<1>4. f.price \in Nat /\ f.qty \in Nat \ {0} /\ f.price * f.qty \in Int
  BY <1>2, FillNumbers
<1>5. from \in Positions
  <2>1. o.lev \in Nat /\ MakerLeverage \in Nat
    BY <1>1, ConstantsAssumption DEF Filling
  <2> QED BY <1>1, <2>1 DEF Filling, FreshFold, Positions
<1>6. buy \in BOOLEAN /\ o.funding \in Int
  BY <1>1 DEF Filling
<1> HIDE DEF from, buy
<1>7. res.st \in Positions /\ res.delta \in Int /\ res.realized \in Int
  BY <1>4, <1>5, <1>6, FillResult
<1> HIDE DEF res
<1>8. fee \in Int
  <2> DEFINE notional == f.price * f.qty
  <2>1. notional \in Int /\ o.tier \in Nat
    BY <1>1, <1>4 DEF Filling
  <2> HIDE DEF notional
  <2>2. taker_fee(notional, o.tier) \in Int
    BY <2>1, FeeInt
  <2> QED BY <2>2 DEF notional
<1> HIDE DEF fee
<1>9. usd \in Int
  <2>1. o.market \in Markets
    BY <1>1 DEF Filling
  <2> QED BY <1>7, <2>1, UsdInt
<1>10. new \in Positions
  <2> DEFINE sum == res.st.coll + fee
  <2>1. sum \in Int
    BY <1>7, <1>8, PositionFields
  <2>2. new = [res.st EXCEPT !.coll = sum]
    OBVIOUS
  <2> HIDE DEF sum, new
  <2> QED BY <1>7, <2>1, <2>2, CollateralChanged
<1> HIDE DEF new, usd, k, f
<1>11. Filling(u) /\ u.pc \in {"leg", "spawn", "lock"}
  <2>1. CASE maker
    <3> DEFINE v == [o EXCEPT !.pc = "leg", !.locked = res.delta, !.got = None]
    <3>1. /\ DOMAIN v = DOMAIN o /\ v.pc = "leg" /\ v.locked = res.delta /\ v.got = None
          /\ \A x \in DOMAIN o \ {"pc", "locked", "got"} : v[x] = o[x]
      BY <1>1 DEF Filling, AskFields
    <3>2. u = v
      BY <2>1
    <3> HIDE DEF v, u
    <3> QED BY <1>1, <1>7, <3>1, <3>2 DEF Filling, AskFields
  <2>2. CASE ~maker
    <3> DEFINE pc == IF last THEN "spawn" ELSE "lock"
               i == IF last THEN o.i ELSE o.i + 1
               role == IF last THEN o.role ELSE "maker"
               delta == o.delta + res.delta + fee
               v == [o EXCEPT !.pc = pc, !.got = None, !.i = i, !.role = role, !.delta = delta]
    <3>0. o.fills \in Seq(Fills) /\ o.i \in 1..Len(o.fills) /\ o.role \in {"maker", "taker"} /\ o.delta \in Int
      BY <1>1 DEF Filling
    <3>1. /\ pc \in {"spawn", "lock"} /\ i \in 1..Len(o.fills) /\ role \in {"maker", "taker"}
          /\ delta \in Int
      BY <1>7, <1>8, <3>0
    <3>2. u = v
      BY <2>2
    <3> HIDE DEF pc, i, role, delta, u
    <3>3. /\ DOMAIN v = DOMAIN o /\ v.pc = pc /\ v.got = None /\ v.i = i /\ v.role = role /\ v.delta = delta
          /\ \A x \in DOMAIN o \ {"pc", "got", "i", "role", "delta"} : v[x] = o[x]
      BY <1>1 DEF Filling, AskFields
    <3> HIDE DEF v
    <3> QED BY <1>1, <3>1, <3>2, <3>3 DEF Filling, AskFields
  <2> QED BY <2>1, <2>2
<1> HIDE DEF u
<1>12. OrderTypes' /\ req'[r] = u /\ \A q \in Orders \ {r} : req'[q] = req[q]
  BY <1>3, <1>11, OrderMoved DEF Types, OrderOK
<1>13. Store' /\ Wires'
  BY <1>2, <1>3, <1>10 DEF Types, Store, Wires
<1>14. Money'
  BY <1>2, <1>3, <1>9 DEF Types, Money, Batches
<1>15. LiqTypes' /\ FlushOK(flush)'
  BY <1>3 DEF Types, LiqTypes
<1> QED BY <1>1, <1>2, <1>3, <1>9, <1>11, <1>12, <1>13, <1>14, <1>15 DEF Types, k

LEMMA CachedParams ==
  ASSUME Types, NEW k \in Keys, NEW delta \in Int
  PROVE  LegOf(k, delta) \in Legs
<1>1. cached_sealed_params(k) \in Params
  BY ParamsMade DEF cached_sealed_params, Types, Store, Params
<1>2. stamp[k] \in Nat
  BY DEF Types, Store
<1> QED BY <1>1, <1>2, LegMade DEF LegOf

LEMMA LegTypes ==
  ASSUME Types, NEW r \in Orders, Leg(r)
  PROVE  Types' /\ req[r].pc = "leg" /\ req'[r].pc = "lock" /\ \A q \in Orders \ {r} : req'[q] = req[q]
<1> DEFINE o == req[r]
           legs == Append(o.legs, LegOf(KeyOf(o), o.locked))
           u == [o EXCEPT !.legs = legs, !.pc = "lock", !.role = "taker"]
<1>1. Filling(o) /\ o.pc = "leg"
  BY FillingByPc DEF Leg, Types, OrderTypes
<1>2. KeyOf(o) \in Keys /\ o.locked \in Int
  BY <1>1, KeyOfFilling DEF Filling
<1>3. LegOf(KeyOf(o), o.locked) \in Legs
  BY <1>2, CachedParams
<1>4. legs \in Seq(Legs)
  BY <1>1, <1>3 DEF Filling
<1>5. req' = [req EXCEPT ![r] = u]
  BY DEF Leg, Types, OrderTypes
<1> HIDE DEF legs
<1>6. /\ DOMAIN u = DOMAIN o /\ u.pc = "lock" /\ u.role = "taker" /\ u.legs = legs
      /\ \A x \in DOMAIN o \ {"pc", "role", "legs"} : u[x] = o[x]
  BY <1>1 DEF Filling, AskFields
<1> HIDE DEF u
<1>7. Filling(u)
  BY <1>1, <1>4, <1>6 DEF Filling, AskFields
<1>8. OrderTypes' /\ req'[r] = u /\ \A q \in Orders \ {r} : req'[q] = req[q]
  BY <1>5, <1>7, OrderMoved DEF Types, OrderOK
<1> QED BY <1>1, <1>6, <1>8 DEF Types, Leg, LiqTypes, Store, Money, Wires, history

LEMMA SpawnTypes ==
  ASSUME Types, NEW r \in Orders, Spawn(r)
  PROVE  Types' /\ req[r].pc = "spawn" /\ req'[r].pc = "queued" /\ \A q \in Orders \ {r} : req'[q] = req[q]
<1> DEFINE o == req[r]
           mine == LegOf(<<o.taker, o.market>>, o.delta)
           legs == <<mine>> \o o.legs
           u == [o EXCEPT !.pc = "queued", !.legs = legs]
           each == [i \in DOMAIN o.fills |-> o.fills[i].price * o.fills[i].qty]
<1>1. Filling(o) /\ o.pc = "spawn"
  BY FillingByPc DEF Spawn, Types, OrderTypes
<1>2. <<o.taker, o.market>> \in Keys /\ o.delta \in Int /\ o.taker \in Traders
  BY <1>1 DEF Filling, Keys
<1>3. mine \in Legs
  BY <1>2, CachedParams
<1> HIDE DEF mine
<1>4. legs \in Seq(Legs)
  BY <1>1, <1>3 DEF Filling
<1>5. req' = [req EXCEPT ![r] = u] /\ volume' = [volume EXCEPT ![o.taker] = @ + SumFunction(each)]
  BY DEF Spawn, Types, OrderTypes, mine
<1> HIDE DEF legs
<1>6. /\ DOMAIN u = DOMAIN o /\ u.pc = "queued" /\ u.legs = legs
      /\ \A x \in DOMAIN o \ {"pc", "legs"} : u[x] = o[x]
  BY <1>1 DEF Filling, AskFields
<1> HIDE DEF u
<1>7. Filling(u)
  BY <1>1, <1>4, <1>6 DEF Filling, AskFields
<1>8. OrderTypes' /\ req'[r] = u /\ \A q \in Orders \ {r} : req'[q] = req[q]
  BY <1>5, <1>7, OrderMoved DEF Types, OrderOK
<1>9. SumFunction(each) \in Nat
  <2>1. o.fills \in Seq(Fills)
    BY <1>1 DEF Filling
  <2>2. \A i \in DOMAIN o.fills : o.fills[i] \in Fills
    BY <2>1
  <2>3. \A i \in DOMAIN each : each[i] \in Nat
    BY <2>2, FillNumbers
  <2>4. DOMAIN each = 1..Len(o.fills) /\ Len(o.fills) \in Nat
    BY <2>1
  <2> HIDE DEF each
  <2>5. IsFiniteSet(DOMAIN each)
    BY <2>4, FS_Interval
  <2> QED BY <2>3, <2>5, SumNat DEF SumFunction
<1> HIDE DEF each
<1>10. Money'
  BY <1>2, <1>5, <1>9 DEF Types, Money, Spawn, history
<1> QED BY <1>1, <1>6, <1>8, <1>10 DEF Types, Spawn, LiqTypes, Store, Wires, history

LEMMA TxMade ==
  ASSUME NEW p \in Procs, NEW kind \in {"sweep", "liquidate", "pnl"}, NEW legs \in Seq(Legs),
         NEW n \in Nat, NEW batch \in Batches
  PROVE  LET tx == [owner |-> p, kind |-> kind, legs |-> legs, requirement |-> n, batch |-> batch] IN
         tx \in Txs /\ tx.owner = p /\ tx.batch = batch
BY DEF Txs

LEMMA NoBatchType == NoBatch \in Batches
BY DEF NoBatch, Batches

\* A send takes the broadcast lock, or leaves it and the queue alone.
SendsOrNot(p, tx) ==
  \/ bcast = Free /\ bcast' = p /\ queue' = Append(queue, tx)
  \/ UNCHANGED <<bcast, queue>>

LEMMA SendTypes ==
  ASSUME Wires, NEW p \in Procs, NEW tx \in Txs, UNCHANGED locks, Sent(p, tx) \/ Refused(p, tx)
  PROVE  Wires' /\ SendsOrNot(p, tx)
<1>1. SendsOrNot(p, tx) /\ faults' \in Nat
  BY DEF Sent, Refused, SendsOrNot, Wires
<1>2. queue' \in Seq(Txs) /\ bcast' \in Procs \cup {Free}
  BY <1>1 DEF SendsOrNot, Wires
<1> QED BY <1>1, <1>2 DEF Wires

\* An order whose program counter alone moves.
LEMMA PcTypes ==
  ASSUME OrderTypes, NEW r \in Orders, Filling(req[r]),
         NEW pc \in {"lock", "read", "fold", "leg", "spawn", "queued", "sent", "failed"},
         req' = [req EXCEPT ![r].pc = pc]
  PROVE  OrderTypes' /\ req'[r].pc = pc /\ \A q \in Orders \ {r} : req'[q] = req[q]
<1> DEFINE o == req[r]
           u == [o EXCEPT !.pc = pc]
<1>1. /\ DOMAIN u = DOMAIN o /\ u.pc = pc
      /\ \A x \in DOMAIN o \ {"pc"} : u[x] = o[x]
  BY DEF Filling, AskFields
<1>2. req' = [req EXCEPT ![r] = u]
  OBVIOUS
<1> HIDE DEF u
<1>3. Filling(u)
  BY <1>1 DEF Filling, AskFields
<1> QED BY <1>1, <1>2, <1>3, OrderMoved DEF OrderOK

\* An order that is over.
LEMMA OverTypes ==
  ASSUME OrderTypes, NEW r \in Orders,
         NEW pc \in {"idle", "rejected", "unfilled", "confirmed", "unsettled", "dropped"},
         req' = [req EXCEPT ![r] = [pc |-> pc]]
  PROVE  OrderTypes' /\ req'[r].pc = pc /\ \A q \in Orders \ {r} : req'[q] = req[q]
<1> DEFINE u == [pc |-> pc]
<1>1. OrderOver(u) /\ u.pc = pc
  BY DEF OrderOver
<1>2. req' = [req EXCEPT ![r] = u]
  OBVIOUS
<1> HIDE DEF u
<1> QED BY <1>1, <1>2, OrderMoved DEF OrderOK

LEMMA SendSweepTypes ==
  ASSUME Types, NEW r \in Orders, SendSweep(r)
  PROVE  /\ Types' /\ req[r].pc = "queued" /\ \A q \in Orders \ {r} : req'[q] = req[q]
         /\ \/ req'[r].pc = "sent" /\ bcast = Free /\ bcast' = r /\ queue' = Append(queue, SweepTx(r))
            \/ req'[r].pc = "failed" /\ UNCHANGED <<bcast, queue>>
         /\ SweepTx(r).owner = r /\ SweepTx(r).batch = NoBatch /\ SweepTx(r) \in Txs
<1>1. Filling(req[r]) /\ req[r].pc = "queued"
  BY FillingByPc DEF SendSweep, Types, OrderTypes
<1>2. SweepTx(r) \in Txs /\ SweepTx(r).owner = r /\ SweepTx(r).batch = NoBatch
  <2>1. req[r].legs \in Seq(Legs) /\ r \in Procs /\ 0 \in Nat
    BY <1>1 DEF Filling, Procs
  <2> QED BY <2>1, NoBatchType, TxMade DEF SweepTx
<1> HIDE DEF SweepTx
<1>3. Sent(r, SweepTx(r)) \/ Refused(r, SweepTx(r))
  BY DEF SendSweep
<1>4. UNCHANGED <<cache, locks, sealed, liq, flush, pending, account, volume, stamp, realized, forgiven>>
  BY DEF SendSweep, history
<1>5. Wires'
  BY <1>2, <1>3, <1>4, SendTypes DEF Types, Procs
<1>6. CASE Sent(r, SweepTx(r)) /\ req' = [req EXCEPT ![r].pc = "sent"]
  <2>1. OrderTypes' /\ req'[r].pc = "sent" /\ \A q \in Orders \ {r} : req'[q] = req[q]
    BY <1>1, <1>6, PcTypes DEF Types
  <2>2. bcast = Free /\ bcast' = r /\ queue' = Append(queue, SweepTx(r))
    BY <1>6 DEF Sent
  <2> QED BY <1>1, <1>2, <1>4, <1>5, <2>1, <2>2 DEF Types, LiqTypes, Store, Money
<1>7. CASE Refused(r, SweepTx(r)) /\ req' = [req EXCEPT ![r].pc = "failed"]
  <2>1. OrderTypes' /\ req'[r].pc = "failed" /\ \A q \in Orders \ {r} : req'[q] = req[q]
    BY <1>1, <1>7, PcTypes DEF Types
  <2>2. UNCHANGED <<bcast, queue>>
    BY <1>7 DEF Refused
  <2> QED BY <1>1, <1>2, <1>4, <1>5, <2>1, <2>2 DEF Types, LiqTypes, Store, Money
<1> QED BY <1>6, <1>7 DEF SendSweep

LEMMA ConfirmSweepTypes ==
  ASSUME Types, NEW r \in Orders, ConfirmSweep(r)
  PROVE  /\ Types' /\ req[r].pc = "sent" /\ bcast' = Free /\ req'[r].pc \in {"confirmed", "failed"}
         /\ \A q \in Orders \ {r} : req'[q] = req[q]
<1>1. Filling(req[r]) /\ req[r].pc = "sent"
  BY FillingByPc DEF ConfirmSweep, Types, OrderTypes
<1>2. bcast' = Free /\ faults' \in Nat
  BY DEF ConfirmSweep, Receipt, ReceiptLost, Types, Wires
<1>3. UNCHANGED <<cache, locks, sealed, queue, liq, flush, pending, account, volume, stamp, realized, forgiven>>
  BY DEF ConfirmSweep, history
<1>4. OrderTypes' /\ req'[r].pc \in {"confirmed", "failed"} /\ \A q \in Orders \ {r} : req'[q] = req[q]
  <2>1. CASE req' = [req EXCEPT ![r] = [pc |-> "confirmed"]]
    BY <2>1, OverTypes DEF Types
  <2>2. CASE req' = [req EXCEPT ![r].pc = "failed"]
    BY <1>1, <2>2, PcTypes DEF Types
  <2> QED BY <2>1, <2>2 DEF ConfirmSweep
<1> QED BY <1>1, <1>2, <1>3, <1>4 DEF Types, LiqTypes, Store, Money, Wires

LEMMA InvalidateTypes ==
  ASSUME Types, NEW r \in Orders, InvalidateSweep(r)
  PROVE  Types' /\ req[r].pc = "failed" /\ req'[r].pc = "unsettled" /\ \A q \in Orders \ {r} : req'[q] = req[q]
<1>1. /\ UNCHANGED <<locks, sealed, bcast, queue, liq, flush, pending, account, volume, faults,
                      stamp, realized, forgiven>>
      /\ req[r].pc = "failed" /\ req' = [req EXCEPT ![r] = [pc |-> "unsettled"]]
      /\ cache' = [k \in Keys |-> IF k \in KeysIn(req[r]) THEN None ELSE cache[k]]
  BY DEF InvalidateSweep
<1>2. OrderTypes' /\ req'[r].pc = "unsettled" /\ \A q \in Orders \ {r} : req'[q] = req[q]
  BY <1>1, OverTypes DEF Types
<1>3. Store'
  BY <1>1 DEF Types, Store
<1> QED BY <1>1, <1>2, <1>3 DEF Types, LiqTypes, Money, Wires

\* A lock that p holds is freed, and no other.
LEMMA Releases ==
  ASSUME locks \in [Keys -> Procs \cup {Free}], NEW p
  PROVE  /\ Release(p) \in [Keys -> Procs \cup {Free}]
         /\ p # Free => \A k \in Keys : Release(p)[k] # p
         /\ \A k \in Keys : Release(p)[k] = Free \/ Release(p)[k] = locks[k]
BY DEF Release

LEMMA DropOrderTypes ==
  ASSUME Types, NEW r \in Orders, DropOrder(r)
  PROVE  /\ Types' /\ req[r].pc \in {"match", "lock", "read"} /\ req'[r].pc = "dropped"
         /\ \A q \in Orders \ {r} : req'[q] = req[q]
         /\ locks' = Release(r)
<1>1. /\ UNCHANGED <<cache, sealed, bcast, queue, liq, flush, pending, account, volume, stamp, realized, forgiven>>
      /\ req[r].pc \in {"match", "lock", "read"} /\ req' = [req EXCEPT ![r] = [pc |-> "dropped"]]
      /\ locks' = Release(r) /\ faults' = faults + 1
  BY DEF DropOrder, Dropped
<1>2. OrderTypes' /\ req'[r].pc = "dropped" /\ \A q \in Orders \ {r} : req'[q] = req[q]
  BY <1>1, OverTypes DEF Types
<1>3. Wires'
  BY <1>1, Releases DEF Types, Wires
<1> QED BY <1>1, <1>2, <1>3 DEF Types, LiqTypes, Store, Money

-----------------------------------------------------------------------------
(* The steps of a liquidation *)

LEMMA LockingByPc ==
  ASSUME NEW o, LiqOK(o)
  PROVE  /\ o.pc \in {"lock", "read", "size"} => Locking(o)
         /\ o.pc \in {"send", "sent"} => Sending(o)
BY DEF LiqOK, LiqOver, Locking, Sending

LEMMA LiqOverTypes ==
  ASSUME LiqTypes, NEW l \in Liquidations, liq' = [liq EXCEPT ![l] = [pc |-> "done"]]
  PROVE  LiqTypes' /\ liq'[l].pc = "done" /\ \A q \in Liquidations \ {l} : liq'[q] = liq[q]
<1> DEFINE u == [pc |-> "done"]
<1>1. LiqOver(u) /\ u.pc = "done"
  BY DEF LiqOver
<1>2. liq' = [liq EXCEPT ![l] = u]
  OBVIOUS
<1> HIDE DEF u
<1> QED BY <1>1, <1>2, LiqMoved DEF LiqOK

LEMMA FirstLeast ==
  ASSUME NEW S, S \subseteq Nat, S # {}
  PROVE  First(S) \in S /\ \A n \in S : First(S) <= n
BY LeastOf DEF First

LEMMA KnownType ==
  ASSUME Types, NEW k \in Keys
  PROVE  Known(k) \in Positions \cup {None}
BY SealedFields DEF Known, Types, Store, SealedMaps

LEMMA DiscoverTypes ==
  ASSUME Types, NEW l \in Liquidations, Discover(l)
  PROVE  /\ Types' /\ liq[l] = Idle /\ liq'[l].pc \in {"done", "lock"}
         /\ \A q \in Liquidations \ {l} : liq'[q] = liq[q]
<1>1. PICK t \in Traders : LET found == {m \in Markets : Known(<<t, m>>) # None} IN
        liq' = [liq EXCEPT ![l] =
          IF found = {} THEN [pc |-> "done"]
          ELSE [pc |-> "lock", who |-> t, markets |-> found, todo |-> found, got |-> [m \in {} |-> None]]]
  BY DEF Discover
<1> DEFINE found == {m \in Markets : Known(<<t, m>>) # None}
           u == IF found = {} THEN [pc |-> "done"]
                ELSE [pc |-> "lock", who |-> t, markets |-> found, todo |-> found, got |-> [m \in {} |-> None]]
<1>2. liq' = [liq EXCEPT ![l] = u]
  BY <1>1
<1>3. found \subseteq Markets
  OBVIOUS
<1> HIDE DEF found
<1>4. LiqOK(u) /\ u.pc \in {"done", "lock"}
  <2>1. CASE found = {}
    BY <2>1 DEF LiqOK, LiqOver
  <2>2. CASE found # {}
    BY <1>3, <2>2 DEF LiqOK, Locking
  <2> QED BY <2>1, <2>2
<1> HIDE DEF u
<1>5. LiqTypes' /\ liq'[l] = u /\ \A q \in Liquidations \ {l} : liq'[q] = liq[q]
  BY <1>2, <1>4, LiqMoved DEF Types
<1> QED BY <1>4, <1>5 DEF Types, Discover, OrderTypes, Store, Money, Wires, history

\* The next lock is that of the least market left, and they are taken upwards.
LEMMA LockNextTypes ==
  ASSUME Types, NEW l \in Liquidations, LockNext(l)
  PROVE  LET m == NextMarket(l)
             k == LKey(l, m) IN
         /\ Types' /\ liq[l].pc = "lock" /\ \A q \in Liquidations \ {l} : liq'[q] = liq[q]
         /\ k = <<liq[l].who, m>> /\ k \in Keys /\ locks[k] = Free /\ locks' = [locks EXCEPT ![k] = l]
         /\ m \in liq[l].todo /\ \A n \in liq[l].todo : m <= n
         /\ liq'[l].pc \in {"lock", "read"} /\ liq'[l].who = liq[l].who
         /\ liq'[l].pc = "lock" => liq'[l].todo = liq[l].todo \ {m}
<1> DEFINE o == liq[l]
           m == NextMarket(l)
           k == LKey(l, m)
           u == IF o.todo = {m} THEN [o EXCEPT !.pc = "read", !.todo = o.markets]
                ELSE [o EXCEPT !.todo = o.todo \ {m}]
<1>1. o.pc = "lock" /\ Locking(o)
  BY LockingByPc DEF LockNext, Types, LiqTypes
<1>2. o.todo \subseteq Nat /\ o.todo # {} /\ o.todo \subseteq Markets /\ o.who \in Traders
  BY <1>1, ConstantsAssumption DEF Locking
<1>3. m \in o.todo /\ \A n \in o.todo : m <= n
  BY <1>2, FirstLeast DEF NextMarket
<1>4. k = <<o.who, m>> /\ k \in Keys
  BY <1>2, <1>3 DEF LKey, Keys
<1>5. liq' = [liq EXCEPT ![l] = u] /\ locks[k] = Free /\ locks' = [locks EXCEPT ![k] = l]
      /\ UNCHANGED <<cache, sealed, bcast, queue, req, flush, pending, account, volume, faults, stamp, realized, forgiven>>
  BY DEF LockNext, history
<1> HIDE DEF m, k
<1>6. Locking(u) /\ u.pc \in {"lock", "read"} /\ u.who = o.who /\ (u.pc = "lock" => u.todo = o.todo \ {m})
  <2>1. CASE o.todo = {m}
    <3> DEFINE v == [o EXCEPT !.pc = "read", !.todo = o.markets]
    <3>1. /\ DOMAIN v = DOMAIN o /\ v.pc = "read" /\ v.todo = o.markets
          /\ \A x \in DOMAIN o \ {"pc", "todo"} : v[x] = o[x]
      BY <1>1 DEF Locking
    <3>2. u = v
      BY <2>1
    <3> HIDE DEF u, v
    <3> QED BY <1>1, <3>1, <3>2 DEF Locking
  <2>2. CASE o.todo # {m}
    <3> DEFINE v == [o EXCEPT !.todo = o.todo \ {m}]
    <3>1. /\ DOMAIN v = DOMAIN o /\ v.todo = o.todo \ {m}
          /\ \A x \in DOMAIN o \ {"todo"} : v[x] = o[x]
      BY <1>1 DEF Locking
    <3>2. u = v
      BY <2>2
    <3>3. o.todo \ {m} # {}
      BY <1>2, <2>2
    <3> HIDE DEF u, v
    <3> QED BY <1>1, <3>1, <3>2, <3>3 DEF Locking
  <2> QED BY <2>1, <2>2
<1> HIDE DEF u
<1>7. LiqTypes' /\ liq'[l] = u /\ \A q \in Liquidations \ {l} : liq'[q] = liq[q]
  BY <1>5, <1>6, LiqMoved DEF Types, LiqOK
<1>8. Wires'
  BY <1>4, <1>5 DEF Types, Wires, Procs
<1> QED BY <1>1, <1>3, <1>4, <1>5, <1>6, <1>7, <1>8 DEF Types, OrderTypes, Store, Money, m, k

LEMMA ReadNextTypes ==
  ASSUME Types, NEW l \in Liquidations, ReadNext(l)
  PROVE  /\ Types' /\ liq[l].pc = "read" /\ \A q \in Liquidations \ {l} : liq'[q] = liq[q]
         /\ liq'[l].pc \in {"read", "size"} /\ liq'[l].who = liq[l].who
<1> DEFINE o == liq[l]
           m == NextMarket(l)
           pc == IF o.todo = {m} THEN "size" ELSE "read"
           Got(st) == IF st = None THEN o.got
                      ELSE [n \in DOMAIN o.got \cup {m} |-> IF n = m THEN st ELSE o.got[n]]
           u(got) == [o EXCEPT !.todo = o.todo \ {m}, !.pc = pc, !.got = got]
<1>1. o.pc = "read" /\ Locking(o)
  BY LockingByPc DEF ReadNext, Types, LiqTypes
<1>2. o.todo \subseteq Nat /\ o.todo # {} /\ o.todo \subseteq Markets /\ o.who \in Traders
  BY <1>1, ConstantsAssumption DEF Locking
<1>3. m \in o.todo
  BY <1>2, FirstLeast DEF NextMarket
<1>4. LKey(l, m) \in Keys
  BY <1>2, <1>3 DEF LKey, Keys
<1>5. PICK st \in Positions \cup {None} : liq' = [liq EXCEPT ![l] = u(Got(st))]
  <2>1. \E st \in {Known(LKey(l, m)), None} : liq' = [liq EXCEPT ![l] = u(Got(st))]
    BY DEF ReadNext
  <2>2. Known(LKey(l, m)) \in Positions \cup {None}
    BY <1>4, KnownType
  <2> QED BY <2>1, <2>2
<1>6. faults' \in Nat
      /\ UNCHANGED <<cache, locks, sealed, bcast, queue, req, flush, pending, account, volume, stamp, realized, forgiven>>
  BY DEF ReadNext, Types, Wires
<1> DEFINE got == Got(st)
           v == u(got)
<1>7. DOMAIN got \subseteq o.markets /\ \A n \in DOMAIN got : got[n] \in Positions
  BY <1>1, <1>3 DEF Locking
<1>8. pc \in {"size", "read"} /\ (pc # "size" => o.todo \ {m} # {})
  BY <1>2
<1>9. liq' = [liq EXCEPT ![l] = v]
  BY <1>5
<1> HIDE DEF got, pc, m
<1>10. /\ DOMAIN v = DOMAIN o /\ v.pc = pc /\ v.todo = o.todo \ {m} /\ v.got = got
       /\ \A x \in DOMAIN o \ {"pc", "todo", "got"} : v[x] = o[x]
  BY <1>1 DEF Locking
<1> HIDE DEF v
<1>11. Locking(v) /\ v.who = o.who
  BY <1>1, <1>7, <1>8, <1>10 DEF Locking
<1>12. LiqTypes' /\ liq'[l] = v /\ \A q \in Liquidations \ {l} : liq'[q] = liq[q]
  BY <1>9, <1>11, LiqMoved DEF Types, LiqOK
<1> QED BY <1>1, <1>6, <1>8, <1>10, <1>11, <1>12 DEF Types, OrderTypes, Store, Money, Wires

LEMMA SizeTypes ==
  ASSUME Types, NEW l \in Liquidations, Size(l)
  PROVE  /\ Types' /\ liq[l].pc = "size" /\ \A q \in Liquidations \ {l} : liq'[q] = liq[q]
         /\ \/ liq'[l].pc = "done" /\ locks' = Release(l)
            \/ liq'[l].pc = "send" /\ liq'[l].who = liq[l].who /\ UNCHANGED locks
<1> DEFINE o == liq[l]
           held == o.got
<1>1. o.pc = "size" /\ Locking(o)
  BY LockingByPc DEF Size, Types, LiqTypes
<1>2. PICK live \in [o.markets -> Marks], f \in FundingIndexes :
        LET margin == compute_margin(held, live)
            sized  == [m \in DOMAIN held |-> size_liquidation_leg(held[m], CloseBps(margin), live[m], f)]
            At(k)  == k[1] = o.who /\ k[2] \in DOMAIN held
            LegAt(k) == LET st == sized[k[2]].st
                        IN [key |-> k, delta |-> sized[k[2]].delta, stamp |-> stamp[k] + 1,
                            params |-> IF st.size = 0 THEN Empty ELSE ParamsOf(st)]
        IN IF ~margin.breached
           THEN /\ locks' = Release(l)
                /\ liq' = [liq EXCEPT ![l] = [pc |-> "done"]]
                /\ UNCHANGED <<cache, stamp>>
           ELSE /\ cache' = [k \in Keys |-> IF ~At(k) THEN cache[k]
                                           ELSE IF sized[k[2]].st.size = 0 THEN None ELSE sized[k[2]].st]
                /\ liq' = [liq EXCEPT ![l] =
                     [pc |-> "send", who |-> o.who, markets |-> o.markets, left |-> DOMAIN held,
                      legs |-> [m \in DOMAIN held |-> LegAt(<<o.who, m>>)], failed |-> FALSE,
                      requirement |-> margin.requirement]]
                /\ stamp' = [k \in Keys |-> IF At(k) THEN stamp[k] + 1 ELSE stamp[k]]
                /\ UNCHANGED locks
  BY DEF Size
<1> DEFINE margin == compute_margin(held, live)
           bps == CloseBps(margin)
           sized == [m \in DOMAIN held |-> size_liquidation_leg(held[m], bps, live[m], f)]
           At(k) == k[1] = o.who /\ k[2] \in DOMAIN held
           LegAt(k) == [key |-> k, delta |-> sized[k[2]].delta, stamp |-> stamp[k] + 1,
                        params |-> IF sized[k[2]].st.size = 0 THEN Empty ELSE ParamsOf(sized[k[2]].st)]
           legs == [m \in DOMAIN held |-> LegAt(<<o.who, m>>)]
           u == [pc |-> "send", who |-> o.who, markets |-> o.markets, left |-> DOMAIN held,
                 legs |-> legs, failed |-> FALSE, requirement |-> margin.requirement]
<1>3. UNCHANGED <<sealed, bcast, queue, req, flush, pending, account, volume, faults, realized, forgiven>>
  BY DEF Size
<1>4. CASE ~margin.breached
  <2>1. /\ locks' = Release(l) /\ liq' = [liq EXCEPT ![l] = [pc |-> "done"]] /\ UNCHANGED <<cache, stamp>>
    BY <1>2, <1>4
  <2>2. LiqTypes' /\ liq'[l].pc = "done" /\ \A q \in Liquidations \ {l} : liq'[q] = liq[q]
    BY <2>1, LiqOverTypes DEF Types
  <2>3. Wires'
    BY <1>3, <2>1, Releases DEF Types, Wires
  <2> QED BY <1>1, <1>3, <2>1, <2>2, <2>3 DEF Types, OrderTypes, Store, Money
<1>5. CASE margin.breached
  <2>1. /\ cache' = [k \in Keys |-> IF ~At(k) THEN cache[k]
                                    ELSE IF sized[k[2]].st.size = 0 THEN None ELSE sized[k[2]].st]
        /\ liq' = [liq EXCEPT ![l] = u]
        /\ stamp' = [k \in Keys |-> IF At(k) THEN stamp[k] + 1 ELSE stamp[k]]
        /\ UNCHANGED locks
    BY <1>2, <1>5
  <2>2. /\ IsFiniteSet(DOMAIN held) /\ DOMAIN held \subseteq o.markets /\ o.markets \subseteq Markets
        /\ \A m \in DOMAIN held : held[m] \in Positions /\ live[m] \in Nat
        /\ o.who \in Traders /\ f \in Int
    <3>1. DOMAIN held \subseteq o.markets /\ o.markets \subseteq Markets /\ o.who \in Traders
          /\ \A m \in DOMAIN held : held[m] \in Positions
      BY <1>1 DEF Locking
    <3>2. DOMAIN held \subseteq Markets /\ IsFiniteSet(Markets)
      BY <3>1, ConstantsAssumption
    <3>3. IsFiniteSet(DOMAIN held)
      BY <3>2, FS_Subset
    <3>4. Marks \subseteq Nat /\ f \in Int
      BY ConstantsAssumption
    <3> QED BY <3>1, <3>3, <3>4
  <2>3. margin.requirement \in Nat /\ bps \in Int
    BY <2>2, ShareInt
  <2> HIDE DEF bps, margin
  <2>4. \A m \in DOMAIN held : sized[m].st \in Positions /\ sized[m].delta \in Int
    BY <2>2, <2>3, LiquidationLeg
  <2> HIDE DEF sized
  <2>5. \A m \in DOMAIN held : legs[m] \in Legs
    <3> TAKE m \in DOMAIN held
    <3> DEFINE k == <<o.who, m>>
               params == IF sized[m].st.size = 0 THEN Empty ELSE ParamsOf(sized[m].st)
               n == stamp[k] + 1
    <3>1. k \in Keys
      BY <2>2 DEF Keys
    <3>2. params \in Params
      BY <2>4, ParamsMade DEF Params
    <3>3. n \in Nat
      BY <3>1 DEF Types, Store
    <3>4. legs[m] = [key |-> k, delta |-> sized[m].delta, params |-> params, stamp |-> n]
      OBVIOUS
    <3> HIDE DEF k, params, n, legs
    <3> QED BY <2>4, <3>1, <3>2, <3>3, <3>4, LegMade
  <2> HIDE DEF legs
  <2>6. Sending(u) /\ u.pc = "send" /\ u.who = o.who
    BY <2>2, <2>3, <2>5 DEF Sending
  <2>7. Store'
    <3>1. \A k \in Keys : At(k) => sized[k[2]].st \in Positions
      BY <2>4
    <3>2. cache' \in [Keys -> Positions \cup {None}]
      BY <2>1, <3>1 DEF Types, Store
    <3>3. stamp' \in [Keys -> Nat]
      BY <2>1 DEF Types, Store
    <3> QED BY <1>3, <3>2, <3>3 DEF Types, Store
  <2> HIDE DEF u
  <2>8. LiqTypes' /\ liq'[l] = u /\ \A q \in Liquidations \ {l} : liq'[q] = liq[q]
    BY <2>1, <2>6, LiqMoved DEF Types, LiqOK
  <2> QED BY <1>1, <1>3, <2>1, <2>6, <2>7, <2>8 DEF Types, OrderTypes, Money, Wires
<1> QED BY <1>4, <1>5
\* A liquidation that settles its legs moves on: a leg fewer, or the same.
LEMMA SendingMoved ==
  ASSUME LiqTypes, NEW l \in Liquidations, Sending(liq[l]), NEW pc \in {"send", "sent"},
         NEW left, left \subseteq liq[l].left, NEW failed,
         liq' = [liq EXCEPT ![l] = [liq[l] EXCEPT !.pc = pc, !.left = left, !.failed = failed]]
  PROVE  LiqTypes' /\ liq'[l].pc = pc /\ liq'[l].who = liq[l].who /\ \A q \in Liquidations \ {l} : liq'[q] = liq[q]
<1> DEFINE o == liq[l]
           u == [o EXCEPT !.pc = pc, !.left = left, !.failed = failed]
<1>1. /\ DOMAIN u = DOMAIN o /\ u.pc = pc /\ u.left = left
      /\ \A x \in DOMAIN o \ {"pc", "left", "failed"} : u[x] = o[x]
  BY DEF Sending
<1>2. liq' = [liq EXCEPT ![l] = u]
  OBVIOUS
<1> HIDE DEF u
<1>3. Sending(u) /\ u.who = o.who
  BY <1>1 DEF Sending
<1> QED BY <1>1, <1>2, <1>3, LiqMoved DEF LiqOK

LEMMA SendLiquidationTypes ==
  ASSUME Types, NEW l \in Liquidations, SendLiquidation(l)
  PROVE  /\ Types' /\ liq[l].pc = "send" /\ liq'[l].who = liq[l].who /\ \A q \in Liquidations \ {l} : liq'[q] = liq[q]
         /\ \/ liq'[l].pc = "sent" /\ bcast = Free /\ bcast' = l
               /\ \E tx \in Txs : tx.owner = l /\ tx.batch = NoBatch /\ queue' = Append(queue, tx)
            \/ liq'[l].pc = "send" /\ UNCHANGED <<bcast, queue>>
<1> DEFINE o == liq[l]
<1>1. o.pc = "send" /\ Sending(o)
  BY LockingByPc DEF SendLiquidation, Types, LiqTypes
<1>2. PICK m \in o.left :
        \/ Sent(l, LiqTx(l, m)) /\ liq' = [liq EXCEPT ![l].pc = "sent", ![l].left = @ \ {m}]
        \/ Refused(l, LiqTx(l, m)) /\ liq' = [liq EXCEPT ![l].failed = TRUE, ![l].left = @ \ {m}]
  BY DEF SendLiquidation
<1>3. LiqTx(l, m) \in Txs /\ LiqTx(l, m).owner = l /\ LiqTx(l, m).batch = NoBatch
  <2> DEFINE legs == <<o.legs[m]>>
  <2>1. o.legs[m] \in Legs /\ o.requirement \in Nat /\ l \in Procs
    BY <1>1 DEF Sending, Procs
  <2>2. legs \in Seq(Legs)
    BY <2>1
  <2>3. LiqTx(l, m) = [owner |-> l, kind |-> "liquidate", legs |-> legs, requirement |-> o.requirement,
                       batch |-> NoBatch]
    BY DEF LiqTx
  <2> HIDE DEF legs
  <2> QED BY <2>1, <2>2, <2>3, NoBatchType, TxMade
<1> DEFINE tx == LiqTx(l, m)
<1> HIDE DEF tx
<1>4. UNCHANGED <<cache, locks, sealed, req, flush, pending, account, volume, stamp, realized, forgiven>>
  BY DEF SendLiquidation, history
<1>5. Wires'
  <2>1. Sent(l, tx) \/ Refused(l, tx)
    BY <1>2 DEF tx
  <2> QED BY <1>3, <1>4, <2>1, SendTypes DEF Types, Procs, tx
<1>6. o.left \ {m} \subseteq o.left
  OBVIOUS
<1>7. CASE Sent(l, tx) /\ liq' = [liq EXCEPT ![l].pc = "sent", ![l].left = @ \ {m}]
  <2> DEFINE left == o.left \ {m}
  <2>0. [o EXCEPT !.pc = "sent", !.left = left] = [o EXCEPT !.pc = "sent", !.left = left, !.failed = o.failed]
    BY <1>1 DEF Sending
  <2>1. liq' = [liq EXCEPT ![l] = [liq[l] EXCEPT !.pc = "sent", !.left = left, !.failed = o.failed]]
    BY <1>1, <1>7, <2>0 DEF Types, LiqTypes
  <2> HIDE DEF left
  <2>2. LiqTypes' /\ liq'[l].pc = "sent" /\ liq'[l].who = liq[l].who /\ \A q \in Liquidations \ {l} : liq'[q] = liq[q]
    BY <1>1, <1>6, <2>1, SendingMoved DEF Types, left
  <2>3. bcast = Free /\ bcast' = l /\ queue' = Append(queue, tx)
    BY <1>7 DEF Sent
  <2> QED BY <1>1, <1>3, <1>4, <1>5, <2>2, <2>3 DEF Types, OrderTypes, Store, Money, tx
<1>8. CASE Refused(l, tx) /\ liq' = [liq EXCEPT ![l].failed = TRUE, ![l].left = @ \ {m}]
  <2> DEFINE left == o.left \ {m}
  <2>0. [o EXCEPT !.failed = TRUE, !.left = left] = [o EXCEPT !.pc = "send", !.left = left, !.failed = TRUE]
    BY <1>1 DEF Sending
  <2>1. liq' = [liq EXCEPT ![l] = [liq[l] EXCEPT !.pc = "send", !.left = left, !.failed = TRUE]]
    BY <1>1, <1>8, <2>0 DEF Types, LiqTypes
  <2> HIDE DEF left
  <2>2. LiqTypes' /\ liq'[l].pc = "send" /\ liq'[l].who = liq[l].who /\ \A q \in Liquidations \ {l} : liq'[q] = liq[q]
    BY <1>1, <1>6, <2>1, SendingMoved DEF Types, left
  <2>3. UNCHANGED <<bcast, queue>>
    BY <1>8 DEF Refused
  <2> QED BY <1>1, <1>4, <1>5, <2>2, <2>3 DEF Types, OrderTypes, Store, Money
<1> QED BY <1>2, <1>7, <1>8 DEF tx

LEMMA ConfirmLiquidationTypes ==
  ASSUME Types, NEW l \in Liquidations, ConfirmLiquidation(l)
  PROVE  /\ Types' /\ liq[l].pc = "sent" /\ liq'[l].pc = "send" /\ liq'[l].who = liq[l].who
         /\ \A q \in Liquidations \ {l} : liq'[q] = liq[q]
         /\ bcast' = Free
<1> DEFINE o == liq[l]
<1>1. o.pc = "sent" /\ Sending(o)
  BY LockingByPc DEF ConfirmLiquidation, Types, LiqTypes
<1>2. bcast' = Free /\ faults' \in Nat
  BY DEF ConfirmLiquidation, Receipt, ReceiptLost, Types, Wires
<1>3. UNCHANGED <<cache, locks, sealed, queue, req, flush, pending, account, volume, stamp, realized, forgiven>>
  BY DEF ConfirmLiquidation, history
<1>4. PICK failed : liq' = [liq EXCEPT ![l] = [liq[l] EXCEPT !.pc = "send", !.left = o.left, !.failed = failed]]
  <2>1. CASE liq' = [liq EXCEPT ![l].pc = "send"]
    <3>1. [o EXCEPT !.pc = "send"] = [o EXCEPT !.pc = "send", !.left = o.left, !.failed = o.failed]
      BY <1>1 DEF Sending
    <3> QED BY <2>1, <3>1
  <2>2. CASE liq' = [liq EXCEPT ![l].pc = "send", ![l].failed = TRUE]
    <3>1. [o EXCEPT !.pc = "send", !.failed = TRUE] = [o EXCEPT !.pc = "send", !.left = o.left, !.failed = TRUE]
      BY <1>1 DEF Sending
    <3>2. liq' = [liq EXCEPT ![l] = [o EXCEPT !.pc = "send", !.failed = TRUE]]
      BY <2>2 DEF Types, LiqTypes
    <3> QED BY <3>1, <3>2
  <2> QED BY <2>1, <2>2 DEF ConfirmLiquidation
<1>5. LiqTypes' /\ liq'[l].pc = "send" /\ liq'[l].who = liq[l].who /\ \A q \in Liquidations \ {l} : liq'[q] = liq[q]
  <2>1. "send" \in {"send", "sent"} /\ o.left \subseteq liq[l].left
    OBVIOUS
  <2> QED BY <1>1, <1>4, <2>1, SendingMoved DEF Types
<1> QED BY <1>1, <1>2, <1>3, <1>5 DEF Types, OrderTypes, Store, Money, Wires

LEMMA FinishLiquidationTypes ==
  ASSUME Types, NEW l \in Liquidations, FinishLiquidation(l)
  PROVE  /\ Types' /\ liq[l].pc = "send" /\ liq'[l].pc = "done" /\ \A q \in Liquidations \ {l} : liq'[q] = liq[q]
         /\ locks' = Release(l)
<1>1. /\ UNCHANGED <<sealed, bcast, queue, req, flush, pending, account, volume, faults, stamp, realized, forgiven>>
      /\ liq[l].pc = "send" /\ liq' = [liq EXCEPT ![l] = [pc |-> "done"]] /\ locks' = Release(l)
  BY DEF FinishLiquidation
<1>2. cache' = cache \/ \E keys : cache' = [k \in Keys |-> IF k \in keys THEN None ELSE cache[k]]
  BY DEF FinishLiquidation
<1>3. Store'
  BY <1>1, <1>2 DEF Types, Store
<1>4. LiqTypes' /\ liq'[l].pc = "done" /\ \A q \in Liquidations \ {l} : liq'[q] = liq[q]
  BY <1>1, LiqOverTypes DEF Types
<1>5. Wires'
  BY <1>1, Releases DEF Types, Wires
<1> QED BY <1>1, <1>3, <1>4, <1>5 DEF Types, OrderTypes, Money

LEMMA DropLiquidationTypes ==
  ASSUME Types, NEW l \in Liquidations, DropLiquidation(l)
  PROVE  /\ Types' /\ liq'[l].pc = "done" /\ \A q \in Liquidations \ {l} : liq'[q] = liq[q]
         /\ locks' = Release(l) /\ bcast' = IF bcast = l THEN Free ELSE bcast
<1>1. /\ UNCHANGED <<cache, sealed, queue, req, flush, pending, account, volume, stamp, realized, forgiven>>
      /\ liq' = [liq EXCEPT ![l] = [pc |-> "done"]] /\ locks' = Release(l) /\ faults' = faults + 1
      /\ bcast' = IF bcast = l THEN Free ELSE bcast
  BY DEF DropLiquidation, Dropped
<1>2. LiqTypes' /\ liq'[l].pc = "done" /\ \A q \in Liquidations \ {l} : liq'[q] = liq[q]
  BY <1>1, LiqOverTypes DEF Types
<1>3. Wires'
  BY <1>1, Releases DEF Types, Wires
<1> QED BY <1>1, <1>2, <1>3 DEF Types, OrderTypes, Store, Money

-----------------------------------------------------------------------------
(* The steps of the flush loop, of the chain, and the crash *)

LEMMA FlushByPc ==
  ASSUME FlushOK(flush), flush.pc \in {"send", "sent"}
  PROVE  DOMAIN flush = {"pc", "batch"} /\ flush.batch \in Batches
BY DEF FlushOK, Idle

LEMMA DrainTypes ==
  ASSUME Types, Drain
  PROVE  Types' /\ flush = Idle /\ flush' = [pc |-> "send", batch |-> pending] /\ pending' = NoBatch
<1>1. /\ UNCHANGED <<cache, locks, sealed, bcast, queue, req, liq, account, volume, faults, stamp, realized, forgiven>>
      /\ flush = Idle /\ flush' = [pc |-> "send", batch |-> pending] /\ pending' = NoBatch
  BY DEF Drain, history
<1>2. FlushOK(flush')
  BY <1>1 DEF FlushOK, Types, Money
<1>3. FlushOK(flush)'
  BY <1>2 DEF FlushOK
<1>4. Money'
  BY <1>1, NoBatchType DEF Types, Money
<1> QED BY <1>1, <1>3, <1>4 DEF Types, OrderTypes, LiqTypes, Store, Wires

LEMMA SendBatchTypes ==
  ASSUME Types, SendBatch
  PROVE  /\ Types' /\ flush.pc = "send"
         /\ \/ flush'.pc = "sent" /\ flush'.batch = flush.batch /\ bcast = Free /\ bcast' = Flusher
               /\ queue' = Append(queue, BatchTx)
            \/ flush' = Idle /\ UNCHANGED <<bcast, queue>>
         /\ BatchTx \in Txs /\ BatchTx.owner = Flusher /\ BatchTx.batch = flush.batch
<1>1. flush.pc = "send" /\ DOMAIN flush = {"pc", "batch"} /\ flush.batch \in Batches
  BY FlushByPc DEF SendBatch, Types
<1>2. BatchTx \in Txs /\ BatchTx.owner = Flusher /\ BatchTx.batch = flush.batch
  <2>1. Flusher \in Procs /\ <<>> \in Seq(Legs) /\ 0 \in Nat
    BY DEF Procs
  <2> QED BY <1>1, <2>1, TxMade DEF BatchTx
<1> HIDE DEF BatchTx
<1>3. UNCHANGED <<cache, locks, sealed, req, liq, pending, account, volume, stamp, realized, forgiven>>
  BY DEF SendBatch, history
<1>4. Wires'
  <2>1. Sent(Flusher, BatchTx) \/ Refused(Flusher, BatchTx)
    BY DEF SendBatch
  <2> QED BY <1>2, <1>3, <2>1, SendTypes DEF Types, Procs
<1>5. CASE Sent(Flusher, BatchTx) /\ flush' = [flush EXCEPT !.pc = "sent"]
  <2>1. DOMAIN flush' = {"pc", "batch"} /\ flush'.pc = "sent" /\ flush'.batch = flush.batch
    BY <1>1, <1>5
  <2>2. FlushOK(flush)'
    BY <1>1, <2>1 DEF FlushOK
  <2>3. bcast = Free /\ bcast' = Flusher /\ queue' = Append(queue, BatchTx)
    BY <1>5 DEF Sent
  <2> QED BY <1>1, <1>2, <1>3, <1>4, <2>1, <2>2, <2>3 DEF Types, OrderTypes, LiqTypes, Store, Money
<1>6. CASE Refused(Flusher, BatchTx) /\ flush' = Idle
  <2>1. FlushOK(flush)'
    BY <1>6 DEF FlushOK, Idle
  <2>2. UNCHANGED <<bcast, queue>>
    BY <1>6 DEF Refused
  <2> QED BY <1>1, <1>2, <1>3, <1>4, <1>6, <2>1, <2>2 DEF Types, OrderTypes, LiqTypes, Store, Money
<1> QED BY <1>5, <1>6 DEF SendBatch

LEMMA ConfirmBatchTypes ==
  ASSUME Types, ConfirmBatch
  PROVE  Types' /\ flush.pc = "sent" /\ flush' = Idle /\ bcast' = Free
<1>1. UNCHANGED <<cache, locks, sealed, queue, req, liq, pending, account, volume, stamp, realized, forgiven>>
  BY DEF ConfirmBatch, history
<1>2. flush.pc = "sent" /\ flush' = Idle /\ bcast' = Free /\ faults' \in Nat
  BY DEF ConfirmBatch, Receipt, ReceiptLost, Types, Wires
<1>3. FlushOK(flush)'
  BY <1>2 DEF FlushOK, Idle
<1> QED BY <1>1, <1>2, <1>3 DEF Types, OrderTypes, LiqTypes, Store, Money, Wires

LEMMA HeadOfQueue ==
  ASSUME Wires, queue # <<>>
  PROVE  /\ Head(queue) \in Txs /\ Head(queue).legs \in Seq(Legs) /\ Head(queue).batch \in Batches
         /\ Head(queue).owner \in Procs /\ Head(queue) = queue[1] /\ 1 \in DOMAIN queue
         /\ Tail(queue) \in Seq(Txs) /\ Len(Tail(queue)) = Len(queue) - 1
         /\ \A i \in DOMAIN Tail(queue) : i + 1 \in DOMAIN queue /\ Tail(queue)[i] = queue[i + 1]
<1>1. queue \in Seq(Txs)
  BY DEF Wires
<1>2. Head(queue) \in Txs
  BY <1>1
<1> DEFINE tx == Head(queue)
<1>3. tx.legs \in Seq(Legs) /\ tx.batch \in Batches /\ tx.owner \in Procs
  BY <1>2 DEF Txs
<1> QED BY <1>1, <1>2, <1>3

LEMMA OutcomeType ==
  ASSUME Store, NEW tx, tx.legs \in Seq(Legs)
  PROVE  Reverts(tx) \/ Outcome(tx) \in SealedMaps
<1>1. ApplyLegs(sealed, tx.legs) \in SealedMaps \cup {Reverted}
  BY LegsType DEF Store
<1>2. sealed \in SealedMaps
  BY DEF Store
<1> HIDE DEF SealedMaps
<1>3. Outcome(tx) = sealed \/ Outcome(tx) \in SealedMaps \cup {Reverted}
  BY <1>1 DEF Outcome, settleTakerSweep, liquidateSealed
<1>4. tx.kind = "pnl" => Outcome(tx) = sealed
  BY DEF Outcome
<1> QED BY <1>2, <1>3, <1>4 DEF Reverts

\* What a mined batch adds to a balance is the batch, and what the floor forgave.
LEMMA MineTypes ==
  ASSUME Types, Mine
  PROVE  /\ Types' /\ queue # <<>> /\ queue' = Tail(queue)
         /\ UNCHANGED <<cache, locks, bcast, req, liq, flush, pending, volume, faults, stamp, realized>>
         /\ \A t \in Traders : account'[t] - forgiven'[t] = account[t] - forgiven[t] + Head(queue).batch[t]
<1> DEFINE tx == Head(queue)
<1>1. /\ queue # <<>> /\ queue' = Tail(queue)
      /\ UNCHANGED <<cache, locks, bcast, req, liq, flush, pending, volume, faults, stamp, realized>>
      /\ IF Reverts(tx) THEN sealed' = sealed ELSE sealed' = Outcome(tx)
      /\ account' = [t \in Traders |->
              LET sum == account[t] + tx.batch[t] IN IF sum < 0 THEN 0 ELSE sum]
      /\ forgiven' = [t \in Traders |->
              LET sum == account[t] + tx.batch[t] IN IF sum < 0 THEN forgiven[t] - sum ELSE forgiven[t]]
  BY DEF Mine
<1>2. tx.legs \in Seq(Legs) /\ tx.batch \in Batches /\ Tail(queue) \in Seq(Txs)
  BY <1>1, HeadOfQueue DEF Types
<1>3. sealed' \in SealedMaps
  <2>1. Reverts(tx) \/ Outcome(tx) \in SealedMaps
    BY <1>2, OutcomeType DEF Types
  <2>2. sealed \in SealedMaps
    BY DEF Types, Store
  <2> HIDE DEF SealedMaps
  <2> QED BY <1>1, <2>1, <2>2
<1> HIDE DEF tx
<1>4. \A t \in Traders : /\ account[t] \in Int /\ forgiven[t] \in Int /\ tx.batch[t] \in Int
  BY <1>2 DEF Types, Money, Batches
<1>5. \A t \in Traders : /\ account'[t] \in Int /\ forgiven'[t] \in Int
                         /\ account'[t] - forgiven'[t] = account[t] - forgiven[t] + tx.batch[t]
  <2> TAKE t \in Traders
  <2> DEFINE sum == account[t] + tx.batch[t]
  <2>1. account'[t] = (IF sum < 0 THEN 0 ELSE sum) /\ forgiven'[t] = IF sum < 0 THEN forgiven[t] - sum ELSE forgiven[t]
    BY <1>1
  <2> QED BY <1>4, <2>1
<1>6. account' = [t \in Traders |-> account'[t]] /\ forgiven' = [t \in Traders |-> forgiven'[t]]
  BY <1>1
<1>7. account' \in Batches /\ forgiven' \in Batches
  BY <1>5, <1>6 DEF Batches
<1> QED BY <1>1, <1>2, <1>3, <1>5, <1>7 DEF Types, OrderTypes, LiqTypes, Store, Money, Wires, tx

LEMMA CrashTypes ==
  ASSUME Types, Crash
  PROVE  /\ Types' /\ locks' = [k \in Keys |-> Free] /\ bcast' = Free /\ flush' = Idle /\ pending' = NoBatch
         /\ faults' = faults + 1 /\ UNCHANGED queue
<1>1. /\ cache' = [k \in Keys |-> None] /\ locks' = [k \in Keys |-> Free] /\ bcast' = Free
      /\ flush' = Idle /\ pending' = NoBatch /\ faults' = faults + 1
      /\ UNCHANGED <<sealed, queue, account, volume, stamp, realized, forgiven>>
  BY DEF Crash
<1>2. OrderTypes'
  BY DEF Crash, OrderTypes, OrderOK, OrderOver, Idle
<1>3. LiqTypes'
  BY DEF Crash, LiqTypes, LiqOK, LiqOver, Idle
<1>4. FlushOK(flush)'
  BY <1>1 DEF FlushOK, Idle
<1> QED BY <1>1, <1>2, <1>3, <1>4, NoBatchType DEF Types, Store, Money, Wires

-----------------------------------------------------------------------------
(* No deadlock *)

\* An order holds a position only while it reads and folds it, one at a time.
OrderHolds(r) == \A k \in Keys : locks[k] = r => req[r].pc \in {"read", "fold"} /\ k = KeyOf(req[r])
\* A liquidation that still takes locks holds smaller markets than it needs.
LiqHolds(l) ==
  \A k \in Keys : locks[k] = l =>
    /\ liq[l].pc \in {"lock", "read", "size", "send", "sent"} /\ k[1] = liq[l].who
    /\ liq[l].pc = "lock" => \A n \in liq[l].todo : k[2] < n
\* Who holds the broadcast lock waits for a receipt, and for nobody.
Broadcasts(p) ==
  bcast = p => /\ p \in Orders => req[p].pc = "sent"
               /\ p \in Liquidations => liq[p].pc = "sent"
               /\ p = Flusher => flush.pc = "sent"

LocksRight ==
  /\ \A k \in Keys : locks[k] # Flusher
  /\ \A r \in Orders : OrderHolds(r)
  /\ \A l \in Liquidations : LiqHolds(l)
  /\ \A p \in Procs : Broadcasts(p)

LockInv == Types /\ LocksRight

LEMMA Apart ==
  /\ \A r \in Orders : r \notin Liquidations /\ r # Flusher /\ r # Free /\ r \in Procs
  /\ \A l \in Liquidations : l \notin Orders /\ l # Flusher /\ l # Free /\ l \in Procs
  /\ Flusher # Free /\ Flusher \in Procs
BY ConstantsAssumption DEF Procs

\* A handler that takes or frees locks of its own leaves the others as they were.
LEMMA OrderKeeps ==
  ASSUME LocksRight, NEW r \in Orders, UNCHANGED <<liq, flush>>,
         \A q \in Orders \ {r} : req'[q] = req[q],
         \A k \in Keys : locks'[k] \in {locks[k], r, Free}, bcast' \in {bcast, r, Free},
         OrderHolds(r)', Broadcasts(r)'
  PROVE  LocksRight'
<1>1. \A k \in Keys : locks'[k] # Flusher
  BY Apart DEF LocksRight
<1>2. ASSUME NEW q \in Orders PROVE OrderHolds(q)'
  <2>1. CASE q = r
    BY <2>1
  <2>2. CASE q # r
    <3>1. \A k \in Keys : locks'[k] = q => locks[k] = q
      BY <2>2, Apart
    <3>2. req'[q] = req[q]
      BY <2>2
    <3> QED BY <3>1, <3>2 DEF LocksRight, OrderHolds, KeyOf
  <2> QED BY <2>1, <2>2
<1>3. ASSUME NEW l \in Liquidations PROVE LiqHolds(l)'
  <2>1. \A k \in Keys : locks'[k] = l => locks[k] = l
    BY Apart
  <2> QED BY <2>1 DEF LocksRight, LiqHolds
<1>4. ASSUME NEW p \in Procs PROVE Broadcasts(p)'
  <2>1. CASE p = r
    BY <2>1
  <2>2. CASE p # r
    <3>1. bcast' = p => bcast = p
      BY <2>2, Apart DEF Procs
    <3> QED BY <2>2, <3>1 DEF LocksRight, Broadcasts
  <2> QED BY <2>1, <2>2
<1> QED BY <1>1, <1>2, <1>3, <1>4 DEF LocksRight

LEMMA LiqKeeps ==
  ASSUME LocksRight, NEW l \in Liquidations, UNCHANGED <<req, flush>>,
         \A q \in Liquidations \ {l} : liq'[q] = liq[q],
         \A k \in Keys : locks'[k] \in {locks[k], l, Free}, bcast' \in {bcast, l, Free},
         LiqHolds(l)', Broadcasts(l)'
  PROVE  LocksRight'
<1>1. \A k \in Keys : locks'[k] # Flusher
  BY Apart DEF LocksRight
<1>2. ASSUME NEW q \in Orders PROVE OrderHolds(q)'
  <2>1. \A k \in Keys : locks'[k] = q => locks[k] = q
    BY Apart
  <2> QED BY <2>1 DEF LocksRight, OrderHolds, KeyOf
<1>3. ASSUME NEW q \in Liquidations PROVE LiqHolds(q)'
  <2>1. CASE q = l
    BY <2>1
  <2>2. CASE q # l
    <3>1. \A k \in Keys : locks'[k] = q => locks[k] = q
      BY <2>2, Apart
    <3>2. liq'[q] = liq[q]
      BY <2>2
    <3> QED BY <3>1, <3>2 DEF LocksRight, LiqHolds
  <2> QED BY <2>1, <2>2
<1>4. ASSUME NEW p \in Procs PROVE Broadcasts(p)'
  <2>1. CASE p = l
    BY <2>1
  <2>2. CASE p # l
    <3>1. bcast' = p => bcast = p
      BY <2>2, Apart DEF Procs
    <3> QED BY <2>2, <3>1 DEF LocksRight, Broadcasts
  <2> QED BY <2>1, <2>2
<1> QED BY <1>1, <1>2, <1>3, <1>4 DEF LocksRight

\* A handler that holds nothing, before and after.
LEMMA HoldsNothing ==
  ASSUME LocksRight
  PROVE  /\ \A r \in Orders : req[r].pc \notin {"read", "fold"} => \A k \in Keys : locks[k] # r
         /\ \A l \in Liquidations : liq[l].pc \notin {"lock", "read", "size", "send", "sent"} => \A k \in Keys : locks[k] # l
         /\ \A r \in Orders : req[r].pc # "sent" => bcast # r
         /\ \A l \in Liquidations : liq[l].pc # "sent" => bcast # l
         /\ flush.pc # "sent" => bcast # Flusher
BY Apart DEF LocksRight, OrderHolds, LiqHolds, Broadcasts

LEMMA LocksStart == Init => LocksRight
<1> SUFFICES ASSUME Init PROVE LocksRight
  OBVIOUS
<1>1. (\A k \in Keys : locks[k] = Free) /\ bcast = Free
  BY DEF Init
<1>2. (\A k \in Keys : \A p \in Procs : locks[k] # p) /\ \A p \in Procs : bcast # p
  BY <1>1, Apart DEF Procs
<1> QED BY <1>2, Apart DEF LocksRight, OrderHolds, LiqHolds, Broadcasts

LEMMA OrderLocks ==
  ASSUME LockInv, NEW r \in Orders, Order(r) \/ DropOrder(r)
  PROVE  LockInv'
<1> USE DEF LockInv
<1>1. CASE Check(r)
  <2>1. Types' /\ (\A q \in Orders \ {r} : req'[q] = req[q]) /\ req[r].pc = "idle"
    <3>1. req[r] = Idle
      BY <1>1 DEF Check
    <3>2. Types' /\ \A q \in Orders \ {r} : req'[q] = req[q]
      BY <1>1, CheckTypes
    <3> QED BY <3>1, <3>2 DEF Idle
  <2>2. UNCHANGED <<liq, flush, locks, bcast>>
    BY <1>1 DEF Check
  <2>3. OrderHolds(r)' /\ Broadcasts(r)'
    BY <2>1, <2>2, HoldsNothing, Apart DEF OrderHolds, Broadcasts
  <2> QED BY <2>1, <2>2, <2>3, OrderKeeps
<1>2. CASE Match(r)
  <2>1. Types' /\ (\A q \in Orders \ {r} : req'[q] = req[q]) /\ req[r].pc = "match"
    BY <1>2, MatchTypes DEF Match
  <2>2. UNCHANGED <<liq, flush, locks, bcast>>
    BY <1>2 DEF Match
  <2>3. OrderHolds(r)' /\ Broadcasts(r)'
    BY <2>1, <2>2, HoldsNothing, Apart DEF OrderHolds, Broadcasts
  <2> QED BY <2>1, <2>2, <2>3, OrderKeeps
<1>3. CASE Lock(r)
  <2> DEFINE k == KeyOf(req[r])
  <2>1. /\ Types' /\ (\A q \in Orders \ {r} : req'[q] = req[q]) /\ req[r].pc = "lock"
        /\ req'[r].pc \in {"read", "fold"} /\ k \in Keys /\ KeyOf(req'[r]) = k /\ locks' = [locks EXCEPT ![k] = r]
    BY <1>3, LockTypes DEF Lock
  <2>2. UNCHANGED <<liq, flush, bcast>>
    BY <1>3 DEF Lock
  <2> HIDE DEF k
  <2>3. \A x \in Keys : locks'[x] = IF x = k THEN r ELSE locks[x]
    BY <2>1 DEF Types, Wires
  <2>4. OrderHolds(r)' /\ Broadcasts(r)'
    BY <2>1, <2>2, <2>3, HoldsNothing, Apart DEF OrderHolds, Broadcasts, KeyOf
  <2> QED BY <2>1, <2>2, <2>3, <2>4, OrderKeeps
<1>4. CASE ReadChain(r)
  <2>1. /\ Types' /\ (\A q \in Orders \ {r} : req'[q] = req[q]) /\ req[r].pc = "read" /\ req'[r].pc = "fold"
        /\ KeyOf(req'[r]) = KeyOf(req[r])
    BY <1>4, ReadTypes
  <2>2. UNCHANGED <<liq, flush, locks, bcast>>
    BY <1>4 DEF ReadChain
  <2>3. OrderHolds(r)' /\ Broadcasts(r)'
    BY <2>1, <2>2, HoldsNothing, Apart DEF OrderHolds, Broadcasts, LocksRight, KeyOf
  <2> QED BY <2>1, <2>2, <2>3, OrderKeeps
<1>5. CASE Fold(r)
  <2> DEFINE k == KeyOf(req[r])
  <2>1. /\ Types' /\ (\A q \in Orders \ {r} : req'[q] = req[q]) /\ req[r].pc = "fold"
        /\ k \in Keys /\ locks' = [locks EXCEPT ![k] = Free]
    BY <1>5, FoldTypes
  <2>2. UNCHANGED <<liq, flush, bcast>>
    BY <1>5 DEF Fold
  <2>3. \A x \in Keys : locks'[x] = IF x = k THEN Free ELSE locks[x]
    BY <2>1 DEF Types, Wires
  <2>4. \A x \in Keys : locks[x] = r => x = k
    BY DEF LocksRight, OrderHolds
  <2> HIDE DEF k
  <2>5. OrderHolds(r)' /\ Broadcasts(r)'
    BY <2>1, <2>2, <2>3, <2>4, HoldsNothing, Apart DEF OrderHolds, Broadcasts
  <2> QED BY <2>1, <2>2, <2>3, <2>5, OrderKeeps
<1>6. CASE Leg(r)
  <2>1. Types' /\ (\A q \in Orders \ {r} : req'[q] = req[q]) /\ req[r].pc = "leg"
    BY <1>6, LegTypes
  <2>2. UNCHANGED <<liq, flush, locks, bcast>>
    BY <1>6 DEF Leg
  <2>3. OrderHolds(r)' /\ Broadcasts(r)'
    BY <2>1, <2>2, HoldsNothing, Apart DEF OrderHolds, Broadcasts
  <2> QED BY <2>1, <2>2, <2>3, OrderKeeps
<1>7. CASE Spawn(r)
  <2>1. Types' /\ (\A q \in Orders \ {r} : req'[q] = req[q]) /\ req[r].pc = "spawn"
    BY <1>7, SpawnTypes
  <2>2. UNCHANGED <<liq, flush, locks, bcast>>
    BY <1>7 DEF Spawn
  <2>3. OrderHolds(r)' /\ Broadcasts(r)'
    BY <2>1, <2>2, HoldsNothing, Apart DEF OrderHolds, Broadcasts
  <2> QED BY <2>1, <2>2, <2>3, OrderKeeps
<1>8. CASE SendSweep(r)
  <2>1. /\ Types' /\ (\A q \in Orders \ {r} : req'[q] = req[q]) /\ req[r].pc = "queued"
        /\ (req'[r].pc = "sent" /\ bcast' = r) \/ bcast' = bcast
    BY <1>8, SendSweepTypes
  <2>2. UNCHANGED <<liq, flush, locks>>
    BY <1>8 DEF SendSweep
  <2>3. OrderHolds(r)' /\ Broadcasts(r)'
    BY <2>1, <2>2, HoldsNothing, Apart DEF OrderHolds, Broadcasts
  <2> QED BY <2>1, <2>2, <2>3, OrderKeeps
<1>9. CASE ConfirmSweep(r)
  <2>1. Types' /\ (\A q \in Orders \ {r} : req'[q] = req[q]) /\ req[r].pc = "sent" /\ bcast' = Free
    BY <1>9, ConfirmSweepTypes
  <2>2. UNCHANGED <<liq, flush, locks>>
    BY <1>9 DEF ConfirmSweep
  <2>3. OrderHolds(r)' /\ Broadcasts(r)'
    BY <2>1, <2>2, HoldsNothing, Apart DEF OrderHolds, Broadcasts
  <2> QED BY <2>1, <2>2, <2>3, OrderKeeps
<1>10. CASE InvalidateSweep(r)
  <2>1. Types' /\ (\A q \in Orders \ {r} : req'[q] = req[q]) /\ req[r].pc = "failed"
    BY <1>10, InvalidateTypes
  <2>2. UNCHANGED <<liq, flush, locks, bcast>>
    BY <1>10 DEF InvalidateSweep
  <2>3. OrderHolds(r)' /\ Broadcasts(r)'
    BY <2>1, <2>2, HoldsNothing, Apart DEF OrderHolds, Broadcasts
  <2> QED BY <2>1, <2>2, <2>3, OrderKeeps
<1>11. CASE DropOrder(r)
  <2>1. /\ Types' /\ (\A q \in Orders \ {r} : req'[q] = req[q]) /\ req[r].pc \in {"match", "lock", "read"}
        /\ locks' = Release(r)
    BY <1>11, DropOrderTypes
  <2>2. UNCHANGED <<liq, flush, bcast>>
    BY <1>11 DEF DropOrder
  <2>3. (\A k \in Keys : locks'[k] # r) /\ \A k \in Keys : locks'[k] \in {locks[k], r, Free}
    BY <2>1, Releases, Apart DEF Types, Wires
  <2>4. OrderHolds(r)' /\ Broadcasts(r)'
    BY <2>1, <2>2, <2>3, HoldsNothing, Apart DEF OrderHolds, Broadcasts
  <2> QED BY <2>1, <2>2, <2>3, <2>4, OrderKeeps
<1> QED BY <1>1, <1>2, <1>3, <1>4, <1>5, <1>6, <1>7, <1>8, <1>9, <1>10, <1>11 DEF Order

LEMMA LiqLocks ==
  ASSUME LockInv, NEW l \in Liquidations, Liquidate(l) \/ DropLiquidation(l)
  PROVE  LockInv'
<1> USE DEF LockInv
<1>1. CASE Discover(l)
  <2>1. Types' /\ (\A q \in Liquidations \ {l} : liq'[q] = liq[q]) /\ liq[l].pc = "idle"
    BY <1>1, DiscoverTypes DEF Idle
  <2>2. UNCHANGED <<req, flush, locks, bcast>>
    BY <1>1 DEF Discover
  <2>3. LiqHolds(l)' /\ Broadcasts(l)'
    BY <2>1, <2>2, HoldsNothing, Apart DEF LiqHolds, Broadcasts
  <2> QED BY <2>1, <2>2, <2>3, LiqKeeps
<1>2. CASE LockNext(l)
  <2> DEFINE m == NextMarket(l)
             k == LKey(l, m)
  <2>1. /\ Types' /\ liq[l].pc = "lock" /\ \A q \in Liquidations \ {l} : liq'[q] = liq[q]
        /\ k = <<liq[l].who, m>> /\ k \in Keys /\ locks' = [locks EXCEPT ![k] = l]
        /\ m \in liq[l].todo /\ \A n \in liq[l].todo : m <= n
        /\ liq'[l].pc \in {"lock", "read"} /\ liq'[l].who = liq[l].who
        /\ liq'[l].pc = "lock" => liq'[l].todo = liq[l].todo \ {m}
    BY <1>2, LockNextTypes
  <2>2. UNCHANGED <<req, flush, bcast>>
    BY <1>2 DEF LockNext
  <2>3. liq[l].todo \subseteq Nat
    BY <2>1, LockingByPc, ConstantsAssumption DEF Types, LiqTypes, Locking
  <2> HIDE DEF m, k
  <2>4. \A x \in Keys : locks'[x] = IF x = k THEN l ELSE locks[x]
    BY <2>1 DEF Types, Wires
  <2>5. \A n \in liq[l].todo \ {m} : m < n
    BY <2>1, <2>3
  <2>6. k[1] = liq[l].who /\ k[2] = m
    BY <2>1
  <2>7. ASSUME NEW x \in Keys, locks'[x] = l
        PROVE  x[1] = liq'[l].who /\ (liq'[l].pc = "lock" => \A n \in liq'[l].todo : x[2] < n)
    <3>1. CASE x = k
      BY <2>1, <2>5, <2>6, <3>1
    <3>2. CASE x # k
      <4>1. locks[x] = l
        BY <2>4, <2>7, <3>2
      <4>2. x[1] = liq[l].who /\ \A n \in liq[l].todo : x[2] < n
        BY <2>1, <4>1 DEF LocksRight, LiqHolds
      <4> QED BY <2>1, <4>2
    <3> QED BY <3>1, <3>2
  <2>8. LiqHolds(l)' /\ Broadcasts(l)'
    BY <2>1, <2>2, <2>7, HoldsNothing, Apart DEF LiqHolds, Broadcasts
  <2> QED BY <2>1, <2>2, <2>4, <2>8, LiqKeeps
<1>3. CASE ReadNext(l)
  <2>1. /\ Types' /\ (\A q \in Liquidations \ {l} : liq'[q] = liq[q]) /\ liq[l].pc = "read"
        /\ liq'[l].pc \in {"read", "size"} /\ liq'[l].who = liq[l].who
    BY <1>3, ReadNextTypes
  <2>2. UNCHANGED <<req, flush, locks, bcast>>
    BY <1>3 DEF ReadNext
  <2>3. LiqHolds(l)' /\ Broadcasts(l)'
    BY <2>1, <2>2, HoldsNothing, Apart DEF LiqHolds, Broadcasts, LocksRight
  <2> QED BY <2>1, <2>2, <2>3, LiqKeeps
<1>4. CASE Size(l)
  <2>1. /\ Types' /\ (\A q \in Liquidations \ {l} : liq'[q] = liq[q]) /\ liq[l].pc = "size"
        /\ \/ liq'[l].pc = "done" /\ locks' = Release(l)
           \/ liq'[l].pc = "send" /\ liq'[l].who = liq[l].who /\ UNCHANGED locks
    BY <1>4, SizeTypes
  <2>2. UNCHANGED <<req, flush, bcast>>
    BY <1>4 DEF Size
  <2>3. Broadcasts(l)'
    BY <2>1, <2>2, HoldsNothing, Apart DEF Broadcasts
  <2>4. \A k \in Keys : locks'[k] \in {locks[k], l, Free}
    BY <2>1, Releases DEF Types, Wires
  <2>5. CASE liq'[l].pc = "done" /\ locks' = Release(l)
    <3>1. \A k \in Keys : locks'[k] # l
      BY <2>5, Releases, Apart DEF Types, Wires
    <3>2. LiqHolds(l)'
      BY <3>1 DEF LiqHolds
    <3> QED BY <2>1, <2>2, <2>3, <2>4, <3>2, LiqKeeps
  <2>6. CASE liq'[l].pc = "send" /\ liq'[l].who = liq[l].who /\ UNCHANGED locks
    <3>1. LiqHolds(l)'
      BY <2>6 DEF LiqHolds, LocksRight
    <3> QED BY <2>1, <2>2, <2>3, <2>4, <3>1, LiqKeeps
  <2> QED BY <2>1, <2>5, <2>6
<1>5. CASE SendLiquidation(l)
  <2>1. /\ Types' /\ (\A q \in Liquidations \ {l} : liq'[q] = liq[q]) /\ liq[l].pc = "send"
        /\ liq'[l].who = liq[l].who
        /\ (liq'[l].pc = "sent" /\ bcast' = l) \/ (liq'[l].pc = "send" /\ bcast' = bcast)
    BY <1>5, SendLiquidationTypes
  <2>2. UNCHANGED <<req, flush, locks>>
    BY <1>5 DEF SendLiquidation
  <2>3. LiqHolds(l)' /\ Broadcasts(l)'
    BY <2>1, <2>2, HoldsNothing, Apart DEF LiqHolds, Broadcasts, LocksRight
  <2> QED BY <2>1, <2>2, <2>3, LiqKeeps
<1>6. CASE ConfirmLiquidation(l)
  <2>1. /\ Types' /\ (\A q \in Liquidations \ {l} : liq'[q] = liq[q]) /\ liq[l].pc = "sent"
        /\ liq'[l].who = liq[l].who /\ liq'[l].pc = "send" /\ bcast' = Free
    BY <1>6, ConfirmLiquidationTypes
  <2>2. UNCHANGED <<req, flush, locks>>
    BY <1>6 DEF ConfirmLiquidation
  <2>3. LiqHolds(l)' /\ Broadcasts(l)'
    BY <2>1, <2>2, HoldsNothing, Apart DEF LiqHolds, Broadcasts, LocksRight
  <2> QED BY <2>1, <2>2, <2>3, LiqKeeps
<1>7. CASE FinishLiquidation(l)
  <2>1. /\ Types' /\ (\A q \in Liquidations \ {l} : liq'[q] = liq[q]) /\ liq[l].pc = "send" /\ locks' = Release(l)
    BY <1>7, FinishLiquidationTypes
  <2>2. UNCHANGED <<req, flush, bcast>>
    BY <1>7 DEF FinishLiquidation
  <2>3. (\A k \in Keys : locks'[k] # l) /\ \A k \in Keys : locks'[k] \in {locks[k], l, Free}
    BY <2>1, Releases, Apart DEF Types, Wires
  <2>4. LiqHolds(l)' /\ Broadcasts(l)'
    BY <2>1, <2>2, <2>3, HoldsNothing, Apart DEF LiqHolds, Broadcasts
  <2> QED BY <2>1, <2>2, <2>3, <2>4, LiqKeeps
<1>8. CASE DropLiquidation(l)
  <2>1. /\ Types' /\ (\A q \in Liquidations \ {l} : liq'[q] = liq[q]) /\ locks' = Release(l)
        /\ bcast' = IF bcast = l THEN Free ELSE bcast
    BY <1>8, DropLiquidationTypes
  <2>2. UNCHANGED <<req, flush>>
    BY <1>8 DEF DropLiquidation
  <2>3. (\A k \in Keys : locks'[k] # l) /\ \A k \in Keys : locks'[k] \in {locks[k], l, Free}
    BY <2>1, Releases, Apart DEF Types, Wires
  <2>4. LiqHolds(l)' /\ Broadcasts(l)'
    BY <2>1, <2>2, <2>3, Apart DEF LiqHolds, Broadcasts
  <2> QED BY <2>1, <2>2, <2>3, <2>4, LiqKeeps
<1> QED BY <1>1, <1>2, <1>3, <1>4, <1>5, <1>6, <1>7, <1>8 DEF Liquidate

LEMMA LockStep == LockInv /\ [Next]_vars => LockInv'
<1> SUFFICES ASSUME LockInv, [Next]_vars PROVE LockInv'
  OBVIOUS
<1> USE DEF LockInv
<1>1. CASE \E r \in Orders : Order(r) \/ DropOrder(r)
  BY <1>1, OrderLocks
<1>2. CASE \E l \in Liquidations : Liquidate(l) \/ DropLiquidation(l)
  BY <1>2, LiqLocks
\* The flush loop holds no position, and the broadcast lock only when it has sent.
<1>3. ASSUME Types', UNCHANGED <<req, liq, locks>>, bcast' \in {bcast, Flusher, Free}, Broadcasts(Flusher)'
      PROVE  LockInv'
  <2>1. ASSUME NEW p \in Procs PROVE Broadcasts(p)'
    <3>1. p # Flusher /\ bcast' = p => bcast = p
      BY <1>3, Apart DEF Procs
    <3> QED BY <1>3, <3>1, Apart DEF LocksRight, Broadcasts
  <2> QED BY <1>3, <2>1 DEF LocksRight, OrderHolds, LiqHolds, KeyOf
<1>4. CASE Drain
  <2>1. Types' /\ UNCHANGED <<req, liq, locks, bcast>> /\ flush.pc = "idle"
    BY <1>4, DrainTypes DEF Drain, Idle
  <2>2. Broadcasts(Flusher)'
    BY <2>1, HoldsNothing DEF Broadcasts
  <2> QED BY <1>3, <2>1, <2>2
<1>5. CASE SendBatch
  <2>1. /\ Types' /\ UNCHANGED <<req, liq, locks>> /\ flush.pc = "send"
        /\ (flush'.pc = "sent" /\ bcast' = Flusher) \/ bcast' = bcast
    BY <1>5, SendBatchTypes DEF SendBatch
  <2>2. Broadcasts(Flusher)'
    BY <2>1, HoldsNothing, Apart DEF Broadcasts
  <2> QED BY <1>3, <2>1, <2>2
<1>6. CASE ConfirmBatch
  <2>1. Types' /\ UNCHANGED <<req, liq, locks>> /\ bcast' = Free
    BY <1>6, ConfirmBatchTypes DEF ConfirmBatch
  <2>2. Broadcasts(Flusher)'
    BY <2>1, Apart DEF Broadcasts
  <2> QED BY <1>3, <2>1, <2>2
<1>7. CASE Mine
  BY <1>7, MineTypes DEF LocksRight, OrderHolds, LiqHolds, Broadcasts, KeyOf
<1>8. CASE Crash
  <2>1. Types' /\ (\A k \in Keys : locks'[k] = Free) /\ bcast' = Free
    BY <1>8, CrashTypes
  <2>2. (\A k \in Keys : \A p \in Procs : locks'[k] # p) /\ \A p \in Procs : bcast' # p
    BY <2>1, Apart DEF Procs
  <2> QED BY <2>1, <2>2, Apart DEF LocksRight, OrderHolds, LiqHolds, Broadcasts
<1>9. CASE UNCHANGED vars
  <2>1. /\ UNCHANGED <<cache, locks, sealed, bcast, queue, req, liq, flush>>
        /\ UNCHANGED <<pending, account, volume, faults, stamp, realized, forgiven>>
    BY <1>9 DEF vars, code, history
  <2> QED BY <2>1 DEF Types, OrderTypes, LiqTypes, Store, Money, Wires, LocksRight, OrderHolds, LiqHolds,
                     Broadcasts, KeyOf
<1> QED BY <1>1, <1>2, <1>4, <1>5, <1>6, <1>7, <1>8, <1>9 DEF Next, Flush

\* In a group where everybody waited on somebody of the group, no order would be
\* waited on and neither would the broadcast lock, so liquidations would wait on
\* liquidations, each on one that is after a greater market.
LEMMA LocksAcyclic ==
  ASSUME LockInv
  PROVE  NoWaitCycle
<1> USE DEF LockInv
<1> SUFFICES ASSUME NEW group \in SUBSET Procs, group # {},
                    \A p \in group : \E q \in group : Waits(p, q)
             PROVE  FALSE
  BY DEF NoWaitCycle
<1>1. ASSUME NEW p \in group
      PROVE  /\ p \in Orders => req[p].pc \in {"lock", "queued"}
             /\ p \in Liquidations => liq[p].pc \in {"lock", "send"}
             /\ p = Flusher => flush.pc = "send"
  <2>1. PICK q \in group : Waits(p, q)
    OBVIOUS
  <2> QED BY <2>1, Apart DEF Waits
<1>2. ASSUME NEW p \in group PROVE bcast # p /\ \A k \in Keys : locks[k] = p => p \in Liquidations
  BY <1>1, HoldsNothing DEF Procs, LocksRight
<1>3. ASSUME NEW p \in group, NEW q \in group, Waits(p, q), p \in Orders
      PROVE  q \in Liquidations
  <2>1. req[p].pc = "lock" /\ locks[KeyOf(req[p])] = q
    BY <1>2, <1>3, Apart DEF Waits
  <2>2. KeyOf(req[p]) \in Keys
    BY <1>3, <2>1, FillingByPc, KeyOfFilling DEF Types, OrderTypes
  <2> QED BY <1>2, <2>1, <2>2
<1>4. ASSUME NEW p \in group, NEW q \in group, Waits(p, q), p \in Liquidations
      PROVE  /\ q \in Liquidations /\ NextMarket(p) \in Markets /\ NextMarket(q) \in Markets
             /\ NextMarket(p) < NextMarket(q)
  <2>1. liq[p].pc = "lock" /\ locks[LKey(p, NextMarket(p))] = q
    BY <1>2, <1>4, Apart DEF Waits
  <2>2. ASSUME NEW l \in Liquidations, liq[l].pc = "lock"
        PROVE  /\ NextMarket(l) \in liq[l].todo /\ NextMarket(l) \in Markets
               /\ LKey(l, NextMarket(l)) \in Keys /\ LKey(l, NextMarket(l))[2] = NextMarket(l)
    <3>1. Locking(liq[l])
      BY <2>2, LockingByPc DEF Types, LiqTypes
    <3>2. /\ liq[l].todo \subseteq Nat /\ liq[l].todo # {} /\ liq[l].todo \subseteq Markets
          /\ liq[l].who \in Traders
      BY <2>2, <3>1, ConstantsAssumption DEF Locking
    <3>3. NextMarket(l) \in liq[l].todo
      BY <3>2, FirstLeast DEF NextMarket
    <3> QED BY <3>2, <3>3 DEF LKey, Keys
  <2>3. q \in Liquidations
    BY <1>2, <1>4, <2>1, <2>2
  \* q waits too, and not for the broadcast lock
  <2>4. liq[q].pc = "lock"
    <3>1. PICK x \in group : Waits(q, x)
      OBVIOUS
    <3> QED BY <1>2, <2>3, <3>1, Apart DEF Waits
  <2> DEFINE k == LKey(p, NextMarket(p))
  <2>5. k \in Keys /\ k[2] = NextMarket(p) /\ NextMarket(p) \in Markets
    BY <1>4, <2>1, <2>2
  <2>6. NextMarket(q) \in liq[q].todo /\ NextMarket(q) \in Markets
    BY <2>2, <2>3, <2>4
  <2>7. \A n \in liq[q].todo : k[2] < n
    BY <2>1, <2>3, <2>4, <2>5 DEF LocksRight, LiqHolds
  <2> QED BY <2>3, <2>5, <2>6, <2>7
<1>5. ASSUME NEW p \in group PROVE p # Flusher
  <2>1. PICK q \in group : Waits(p, q)
    OBVIOUS
  <2> QED BY <1>2, <2>1, Apart DEF Waits
<1>6. PICK l \in group : l \in Liquidations
  <2>1. PICK p \in group : TRUE
    OBVIOUS
  <2>2. PICK q \in group : Waits(p, q)
    OBVIOUS
  <2> QED BY <1>3, <1>5, <2>2 DEF Procs
<1> DEFINE S == {n \in Markets : \E p \in group : p \in Liquidations /\ n = NextMarket(p)}
<1>7. S \subseteq Nat /\ IsFiniteSet(S)
  <2>1. IsFiniteSet(Markets) /\ Markets \subseteq Nat /\ S \subseteq Markets
    BY ConstantsAssumption
  <2>2. IsFiniteSet(S)
    BY <2>1, FS_Subset
  <2> QED BY <2>1, <2>2
<1>8. S # {}
  <2>1. PICK q \in group : Waits(l, q)
    OBVIOUS
  <2>2. NextMarket(l) \in Markets
    BY <1>4, <1>6, <2>1
  <2> QED BY <1>6, <2>2
<1>9. PICK n \in S : \A x \in S : x <= n
  <2> HIDE DEF S
  <2> QED BY <1>7, <1>8, GreatestOf
<1>10. PICK p \in group : p \in Liquidations /\ n = NextMarket(p)
  BY <1>9
<1>11. PICK q \in group : Waits(p, q)
  OBVIOUS
<1>12. q \in Liquidations /\ NextMarket(q) \in Markets /\ NextMarket(p) < NextMarket(q)
  BY <1>4, <1>10, <1>11
<1>13. NextMarket(q) \in S
  BY <1>12
<1> QED BY <1>7, <1>9, <1>10, <1>12, <1>13

\* Fills and liquidations, whatever positions they share, never deadlock on the
\* position locks and the broadcast lock (lock_position, post_liquidate's sorted
\* locks, BROADCAST_LOCK): some handler of every group can go on.
THEOREM HandlersNeverDeadlock == Spec => []NoWaitCycle
<1>1. Init => LockInv
  BY TypesStart, LocksStart DEF LockInv
<1>2. LockInv /\ [Next]_vars => LockInv'
  BY LockStep
<1>3. LockInv => NoWaitCycle
  BY LocksAcyclic
<1> QED BY <1>1, <1>2, <1>3, PTL DEF Spec

-----------------------------------------------------------------------------
(* Realized PnL, once *)

\* Only the flush loop moves PnL.
OthersMoveNone == \A i \in DOMAIN queue : queue[i].owner # Flusher => queue[i].batch = NoBatch
\* At most one batch is on the wire, the one the flush loop waits for.
OneBatch ==
  /\ \A i, j \in DOMAIN queue : queue[i].owner = Flusher /\ queue[j].owner = Flusher => i = j
  /\ \A i \in DOMAIN queue : queue[i].owner = Flusher => flush.pc = "sent" /\ queue[i].batch = flush.batch
\* What the flush loop has drained and no balance has yet.
OnTheWay == IF flush = Idle \/ (flush.pc = "sent" /\ ~InQueue(Flusher)) THEN NoBatch ELSE flush.batch
Balanced ==
  \A t \in Traders : account[t] + pending[t] + OnTheWay[t] = Deposit[t] + realized[t] + forgiven[t]

PnlInv == Types /\ OthersMoveNone /\ (faults = 0 => OneBatch /\ Balanced)

LEMMA NothingSent ==
  ASSUME Types, OneBatch, flush.pc # "sent"
  PROVE  ~InQueue(Flusher)
BY DEF OneBatch, InQueue

LEMMA MoneyInt ==
  ASSUME Money, NEW t \in Traders
  PROVE  account[t] \in Int /\ pending[t] \in Int /\ realized[t] \in Int /\ forgiven[t] \in Int
BY DEF Money, Batches

LEMMA OnTheWayInt ==
  ASSUME Types, NEW t \in Traders
  PROVE  OnTheWay[t] \in Int
<1>1. CASE flush = Idle
  BY <1>1 DEF OnTheWay, NoBatch
<1>2. CASE flush # Idle
  <2>1. flush.batch \in Batches
    BY <1>2 DEF Types, FlushOK
  <2> QED BY <2>1 DEF OnTheWay, NoBatch, Batches
<1> QED BY <1>1, <1>2

\* A step that moves no money, and adds at most a transaction that moves none.
LEMMA MovesNone ==
  ASSUME PnlInv, Types', NEW p \in Procs \ {Flusher}, UNCHANGED <<flush, pending, account, realized, forgiven>>,
         \/ UNCHANGED queue
         \/ \E tx \in Txs : tx.owner = p /\ tx.batch = NoBatch /\ queue' = Append(queue, tx),
         faults' = 0 => faults = 0
  PROVE  PnlInv'
<1> USE DEF PnlInv
<1>1. CASE UNCHANGED queue
  BY <1>1 DEF OthersMoveNone, OneBatch, Balanced, OnTheWay, InQueue
<1>2. ASSUME NEW tx \in Txs, tx.owner = p, tx.batch = NoBatch, queue' = Append(queue, tx)
      PROVE  PnlInv'
  <2>1. /\ DOMAIN queue = 1..Len(queue) /\ Len(queue) \in Nat
        /\ DOMAIN queue' = 1..Len(queue) + 1
        /\ queue'[Len(queue) + 1] = tx /\ \A i \in DOMAIN queue : i \in DOMAIN queue' /\ queue'[i] = queue[i]
    BY <1>2 DEF Types, Wires
  <2>2. \A i \in DOMAIN queue' : i \in DOMAIN queue \/ i = Len(queue) + 1
    BY <2>1
  <2>3. OthersMoveNone'
    BY <1>2, <2>1, <2>2 DEF OthersMoveNone
  <2>4. \A i \in DOMAIN queue' : queue'[i].owner = Flusher => i \in DOMAIN queue /\ queue'[i] = queue[i]
    BY <1>2, <2>1, <2>2
  <2>5. OneBatch => OneBatch'
    BY <2>4 DEF OneBatch
  <2>6. InQueue(Flusher)' <=> InQueue(Flusher)
    BY <2>1, <2>4 DEF InQueue
  <2>7. Balanced => Balanced'
    BY <2>6 DEF Balanced, OnTheWay
  <2> QED BY <2>3, <2>5, <2>7
<1> QED BY <1>1, <1>2

LEMMA PnlStart == Init => OthersMoveNone /\ OneBatch /\ Balanced
<1> SUFFICES ASSUME Init PROVE OthersMoveNone /\ OneBatch /\ Balanced
  OBVIOUS
<1>1. queue = <<>> /\ DOMAIN queue = {} /\ flush = Idle
  BY DEF Init
<1>2. \A t \in Traders : account[t] = Deposit[t] /\ pending[t] = 0 /\ realized[t] = 0 /\ forgiven[t] = 0
                         /\ OnTheWay[t] = 0 /\ Deposit[t] \in Int
  BY <1>1, ConstantsAssumption DEF Init, NoBatch, OnTheWay
<1>3. Balanced
  BY <1>2 DEF Balanced
<1> QED BY <1>1, <1>3 DEF OthersMoveNone, OneBatch

\* A fold queues what it realizes.
LEMMA FoldPnl ==
  ASSUME PnlInv, NEW r \in Orders, Fold(r)
  PROVE  PnlInv'
<1> USE DEF PnlInv
<1> DEFINE k == KeyOf(req[r])
<1>1. Types' /\ k \in Keys
  BY FoldTypes
<1>2. PICK usd \in Int : /\ pending' = [pending EXCEPT ![k[1]] = @ + usd]
                         /\ realized' = [realized EXCEPT ![k[1]] = @ + usd]
  BY FoldTypes
<1>3. UNCHANGED <<queue, flush, account, forgiven, faults>>
  BY DEF Fold
<1>4. k[1] \in Traders
  BY <1>1 DEF Keys
<1> HIDE DEF k
<1>5. ASSUME Balanced PROVE Balanced'
  <2>1. ASSUME NEW t \in Traders
        PROVE  account'[t] + pending'[t] + OnTheWay'[t] = Deposit[t] + realized'[t] + forgiven'[t]
    <3>1. OnTheWay' = OnTheWay
      BY <1>3 DEF OnTheWay, InQueue
    <3>2. \E d \in Int : pending'[t] = pending[t] + d /\ realized'[t] = realized[t] + d
      <4>1. CASE t = k[1]
        BY <1>2, <1>4, <4>1 DEF Types, Money, Batches
      <4>2. CASE t # k[1]
        <5>1. pending'[t] = pending[t] + 0 /\ realized'[t] = realized[t] + 0
          BY <1>2, <1>4, <4>2, MoneyInt DEF Types, Money, Batches
        <5> QED BY <5>1
      <4> QED BY <4>1, <4>2
    <3>3. account[t] + pending[t] + OnTheWay[t] = Deposit[t] + realized[t] + forgiven[t]
      BY <1>5 DEF Balanced
    <3>4. Deposit[t] \in Int
      BY ConstantsAssumption
    <3>5. account'[t] = account[t] /\ forgiven'[t] = forgiven[t]
      BY <1>3
    <3> QED BY <3>1, <3>2, <3>3, <3>4, <3>5, MoneyInt, OnTheWayInt DEF Types
  <2> QED BY <2>1 DEF Balanced
<1>6. OthersMoveNone' /\ (OneBatch => OneBatch')
  BY <1>3 DEF OthersMoveNone, OneBatch
<1> QED BY <1>1, <1>3, <1>5, <1>6

\* A drain takes over what was pending.
LEMMA DrainPnl ==
  ASSUME PnlInv, Drain
  PROVE  PnlInv'
<1> USE DEF PnlInv
<1>1. Types' /\ flush = Idle /\ flush' = [pc |-> "send", batch |-> pending] /\ pending' = NoBatch
  BY DrainTypes
<1>2. UNCHANGED <<queue, account, realized, forgiven, faults>>
  BY DEF Drain, history
<1>3. OthersMoveNone'
  BY <1>2 DEF OthersMoveNone
<1>4. ASSUME OneBatch PROVE OneBatch' /\ (Balanced => Balanced')
  <2>1. ~InQueue(Flusher)
    BY <1>1, <1>4, NothingSent DEF Idle
  <2>2. OneBatch'
    BY <1>2, <1>4, <2>1 DEF OneBatch, InQueue
  <2>3. OnTheWay = NoBatch
    BY <1>1 DEF OnTheWay
  <2>4. flush'.pc = "send" /\ flush'.batch = pending /\ flush' # Idle
    <3>1. DOMAIN flush' = {"pc", "batch"} /\ flush'.pc = "send" /\ flush'.batch = pending
      BY <1>1
    <3>2. flush' = Idle => flush'.pc = "idle"
      BY DEF Idle
    <3> QED BY <3>1, <3>2
  <2>5. OnTheWay' = pending
    BY <2>4 DEF OnTheWay
  <2>6. ASSUME Balanced, NEW t \in Traders
        PROVE  account'[t] + pending'[t] + OnTheWay'[t] = Deposit[t] + realized'[t] + forgiven'[t]
    <3>1. account[t] + pending[t] + 0 = Deposit[t] + realized[t] + forgiven[t]
      BY <2>3, <2>6 DEF Balanced, NoBatch
    <3>2. pending'[t] = 0 /\ OnTheWay'[t] = pending[t]
      BY <1>1, <2>5 DEF NoBatch
    <3> QED BY <1>2, <3>1, <3>2, MoneyInt DEF Types
  <2>7. Balanced => Balanced'
    BY <2>6 DEF Balanced
  <2> QED BY <2>2, <2>7
<1> QED BY <1>1, <1>2, <1>3, <1>4

\* The batch goes on the wire whole; without a fault it is never refused.
LEMMA SendBatchPnl ==
  ASSUME PnlInv, SendBatch
  PROVE  PnlInv'
<1> USE DEF PnlInv
<1>1. Types' /\ flush.pc = "send" /\ BatchTx \in Txs /\ BatchTx.owner = Flusher /\ BatchTx.batch = flush.batch
  BY SendBatchTypes
<1>2. UNCHANGED <<pending, account, realized, forgiven>>
  BY DEF SendBatch, history
<1>3. CASE Refused(Flusher, BatchTx)
  <2>1. ~Reverts(BatchTx)
    BY DEF Reverts, BatchTx
  <2>2. faults' # 0 /\ UNCHANGED queue
    BY <1>3, <2>1 DEF Refused, Types, Wires
  <2> QED BY <1>1, <2>2 DEF OthersMoveNone
<1>4. CASE Sent(Flusher, BatchTx) /\ flush' = [flush EXCEPT !.pc = "sent"]
  <2>1. queue' = Append(queue, BatchTx) /\ UNCHANGED faults
    BY <1>4 DEF Sent
  <2>2. flush'.pc = "sent" /\ flush'.batch = flush.batch /\ flush # Idle /\ flush' # Idle
    <3>1. DOMAIN flush = {"pc", "batch"}
      BY <1>1, FlushByPc DEF Types
    <3>2. flush'.pc = "sent" /\ flush'.batch = flush.batch
      BY <1>4, <3>1
    <3>3. (flush = Idle => flush.pc = "idle") /\ (flush' = Idle => flush'.pc = "idle")
      BY DEF Idle
    <3> QED BY <1>1, <3>2, <3>3
  <2> HIDE DEF BatchTx
  <2>3. /\ DOMAIN queue = 1..Len(queue) /\ Len(queue) \in Nat
        /\ DOMAIN queue' = 1..Len(queue) + 1
        /\ queue'[Len(queue) + 1] = BatchTx /\ \A i \in DOMAIN queue : i \in DOMAIN queue' /\ queue'[i] = queue[i]
    BY <1>1, <2>1 DEF Types, Wires
  <2>4. \A i \in DOMAIN queue' : i \in DOMAIN queue \/ i = Len(queue) + 1
    BY <2>3
  <2>5. OthersMoveNone'
    BY <1>1, <2>3, <2>4 DEF OthersMoveNone
  <2>6. ASSUME OneBatch PROVE OneBatch' /\ (Balanced => Balanced')
    <3>1. ~InQueue(Flusher)
      BY <1>1, <2>6, NothingSent
    <3>2. \A i \in DOMAIN queue' : queue'[i].owner = Flusher => i = Len(queue) + 1
      BY <2>3, <2>4, <3>1 DEF InQueue
    <3>3. \A i \in DOMAIN queue' : queue'[i].owner = Flusher => flush'.pc = "sent" /\ queue'[i].batch = flush'.batch
      BY <1>1, <2>2, <2>3, <3>2
    <3>4. OneBatch'
      BY <3>2, <3>3 DEF OneBatch
    <3>5. InQueue(Flusher)'
      <4>1. Len(queue) + 1 \in DOMAIN queue'
        BY <2>3
      <4> QED BY <1>1, <2>3, <4>1 DEF InQueue
    <3>6. OnTheWay' = OnTheWay
      BY <1>1, <2>2, <3>5 DEF OnTheWay
    <3> QED BY <1>2, <3>4, <3>6 DEF Balanced
  <2> QED BY <1>1, <2>1, <2>5, <2>6
<1> QED BY <1>3, <1>4 DEF SendBatch

\* The loop starts again once its batch is mined; a lost receipt is a fault.
LEMMA ConfirmBatchPnl ==
  ASSUME PnlInv, ConfirmBatch
  PROVE  PnlInv'
<1> USE DEF PnlInv
<1>1. Types' /\ flush.pc = "sent" /\ flush' = Idle
  BY ConfirmBatchTypes
<1>2. UNCHANGED <<queue, pending, account, realized, forgiven>>
  BY DEF ConfirmBatch, history
<1>3. OthersMoveNone'
  BY <1>2 DEF OthersMoveNone
<1>4. CASE ReceiptLost(Flusher)
  <2>1. faults' # 0
    BY <1>4 DEF ReceiptLost, Types, Wires
  <2> QED BY <1>1, <1>3, <2>1
<1>5. CASE Receipt(Flusher)
  <2>1. ~InQueue(Flusher) /\ UNCHANGED faults
    BY <1>5 DEF Receipt
  <2>2. OneBatch => OneBatch'
    BY <1>2, <2>1 DEF OneBatch, InQueue
  <2>3. OnTheWay = NoBatch /\ OnTheWay' = NoBatch
    BY <1>1, <2>1 DEF OnTheWay
  <2>4. Balanced => Balanced'
    BY <1>2, <2>3 DEF Balanced
  <2> QED BY <1>1, <1>3, <2>1, <2>2, <2>4
<1> QED BY <1>4, <1>5 DEF ConfirmBatch

\* A batch is mined into the balances, whatever else is on the wire.
LEMMA MinePnl ==
  ASSUME PnlInv, Mine
  PROVE  PnlInv'
<1> USE DEF PnlInv
<1> DEFINE tx == Head(queue)
<1>1. /\ Types' /\ queue # <<>> /\ queue' = Tail(queue)
      /\ UNCHANGED <<flush, pending, faults, realized>>
      /\ \A t \in Traders : account'[t] - forgiven'[t] = account[t] - forgiven[t] + tx.batch[t]
  BY MineTypes
<1>2. /\ tx = queue[1] /\ 1 \in DOMAIN queue /\ tx.batch \in Batches
      /\ \A i \in DOMAIN queue' : i + 1 \in DOMAIN queue /\ queue'[i] = queue[i + 1]
  BY <1>1, HeadOfQueue DEF Types
<1>3. /\ DOMAIN queue = 1..Len(queue) /\ Len(queue) \in Nat
      /\ DOMAIN queue' = 1..Len(queue) - 1
  BY <1>1 DEF Types, Wires
<1> HIDE DEF tx
<1>4. OthersMoveNone'
  BY <1>2 DEF OthersMoveNone
<1>5. ASSUME OneBatch PROVE OneBatch'
  <2>1. \A i, j \in DOMAIN queue' : queue'[i].owner = Flusher /\ queue'[j].owner = Flusher => i + 1 = j + 1
    BY <1>2, <1>5 DEF OneBatch
  <2>2. \A i, j \in DOMAIN queue' : i + 1 = j + 1 => i = j
    BY <1>3
  <2>3. \A i \in DOMAIN queue' : queue'[i].owner = Flusher => flush'.pc = "sent" /\ queue'[i].batch = flush'.batch
    BY <1>1, <1>2, <1>5 DEF OneBatch
  <2> QED BY <2>1, <2>2, <2>3 DEF OneBatch
<1>6. ASSUME OneBatch, NEW t \in Traders 
      PROVE  /\ OnTheWay[t] = OnTheWay'[t] + tx.batch[t]
             /\ tx.batch[t] \in Int /\ OnTheWay[t] \in Int /\ OnTheWay'[t] \in Int
  <2>0. tx.batch[t] \in Int /\ OnTheWay[t] \in Int /\ OnTheWay'[t] \in Int
    <3>1. OnTheWay[t] \in Int
      BY OnTheWayInt
    <3>2. OnTheWay'[t] = OnTheWay[t] \/ OnTheWay'[t] = 0 \/ OnTheWay'[t] = flush.batch[t]
      BY <1>1 DEF OnTheWay, NoBatch
    <3>3. flush = Idle \/ flush.batch[t] \in Int
      BY DEF Types, FlushOK, Batches
    <3>4. flush = Idle => OnTheWay'[t] = OnTheWay[t]
      BY <1>1 DEF OnTheWay
    <3> QED BY <1>2, <3>1, <3>2, <3>3, <3>4 DEF Batches
  <2>1. CASE tx.owner = Flusher
    <3>1. flush.pc = "sent" /\ tx.batch = flush.batch /\ InQueue(Flusher)
      BY <1>2, <1>6, <2>1 DEF OneBatch, InQueue
    <3>2. ~InQueue(Flusher)'
      <4>1. ASSUME NEW i \in DOMAIN queue', queue'[i].owner = Flusher PROVE FALSE
        <5>1. i + 1 \in DOMAIN queue /\ queue[i + 1].owner = Flusher
          BY <1>2, <4>1
        <5>2. i + 1 = 1
          BY <1>2, <1>6, <2>1, <5>1 DEF OneBatch
        <5> QED BY <1>3, <4>1, <5>2
      <4> QED BY <4>1 DEF InQueue
    <3>3. flush # Idle
      BY <3>1 DEF Idle
    <3>4. OnTheWay = tx.batch /\ OnTheWay' = NoBatch
      BY <1>1, <3>1, <3>2, <3>3 DEF OnTheWay
    <3> QED BY <2>0, <3>4 DEF NoBatch
  <2>2. CASE tx.owner # Flusher
    <3>1. tx.batch = NoBatch
      BY <1>2, <2>2 DEF OthersMoveNone
    <3>2. InQueue(Flusher)' <=> InQueue(Flusher)
      <4>1. ASSUME NEW i \in DOMAIN queue, queue[i].owner = Flusher PROVE \E j \in DOMAIN queue' : queue'[j].owner = Flusher
        <5>1. i # 1
          BY <1>2, <2>2, <4>1
        <5>2. i - 1 \in DOMAIN queue' /\ (i - 1) + 1 = i
          BY <1>3, <4>1, <5>1
        <5> QED BY <1>2, <4>1, <5>2
      <4> QED BY <1>2, <4>1 DEF InQueue
    <3>3. OnTheWay' = OnTheWay
      BY <1>1, <3>2 DEF OnTheWay
    <3> QED BY <2>0, <3>1, <3>3 DEF NoBatch
  <2> QED BY <2>0, <2>1, <2>2
<1>7. ASSUME OneBatch, Balanced PROVE Balanced'
  <2>1. ASSUME NEW t \in Traders
        PROVE  account'[t] + pending'[t] + OnTheWay'[t] = Deposit[t] + realized'[t] + forgiven'[t]
    <3>1. account[t] + pending[t] + OnTheWay[t] = Deposit[t] + realized[t] + forgiven[t]
      BY <1>7 DEF Balanced
    <3>2. /\ OnTheWay[t] = OnTheWay'[t] + tx.batch[t]
          /\ tx.batch[t] \in Int /\ OnTheWay[t] \in Int /\ OnTheWay'[t] \in Int
      BY <1>6, <1>7
    <3>3. account'[t] \in Int /\ forgiven'[t] \in Int
      BY <1>1 DEF Types, Money, Batches
    <3>4. Deposit[t] \in Int
      BY ConstantsAssumption
    <3>5. account[t] \in Int /\ pending[t] \in Int /\ realized[t] \in Int /\ forgiven[t] \in Int
      BY MoneyInt DEF Types
    <3>6. pending'[t] = pending[t] /\ realized'[t] = realized[t]
          /\ account'[t] - forgiven'[t] = account[t] - forgiven[t] + tx.batch[t]
      BY <1>1
    <3> HIDE DEF PnlInv
    <3> QED BY <3>1, <3>2, <3>3, <3>4, <3>5, <3>6
  <2> QED BY <2>1 DEF Balanced
<1> QED BY <1>1, <1>4, <1>5, <1>7

LEMMA OrderPnl ==
  ASSUME PnlInv, NEW r \in Orders, Order(r) \/ DropOrder(r)
  PROVE  PnlInv'
<1> USE DEF PnlInv
<1>1. r \in Procs \ {Flusher}
  BY Apart
<1>2. CASE Fold(r)
  BY <1>2, FoldPnl
<1>3. CASE SendSweep(r)
  <2>1. Types' /\ (UNCHANGED queue \/ (queue' = Append(queue, SweepTx(r)) /\ SweepTx(r) \in Txs
                                       /\ SweepTx(r).owner = r /\ SweepTx(r).batch = NoBatch))
    BY <1>3, SendSweepTypes
  <2>2. UNCHANGED <<flush, pending, account, realized, forgiven>> /\ (faults' = 0 => faults = 0)
    BY <1>3 DEF SendSweep, Sent, Refused, history, Types, Wires
  <2> HIDE DEF SweepTx
  <2> QED BY <1>1, <2>1, <2>2, MovesNone
<1>4. ASSUME Types', UNCHANGED <<queue, flush, pending, account, realized, forgiven>>, faults' = 0 => faults = 0
      PROVE  PnlInv'
  BY <1>1, <1>4, MovesNone
<1>5. CASE Check(r)
  <2>1. UNCHANGED <<queue, flush, pending, account, realized, forgiven, faults>>
    BY <1>5 DEF Check, history
  <2> QED BY <1>4, <1>5, <2>1, CheckTypes
<1>6. CASE Match(r)
  <2>1. UNCHANGED <<queue, flush, pending, account, realized, forgiven, faults>>
    BY <1>6 DEF Match, history
  <2> QED BY <1>4, <1>6, <2>1, MatchTypes
<1>7. CASE Lock(r)
  <2>1. UNCHANGED <<queue, flush, pending, account, realized, forgiven, faults>>
    BY <1>7 DEF Lock, history
  <2>2. Types'
    BY <1>7, LockTypes
  <2> QED BY <1>4, <2>1, <2>2
<1>8. CASE ReadChain(r)
  <2>1. UNCHANGED <<queue, flush, pending, account, realized, forgiven>> /\ (faults' = 0 => faults = 0)
    BY <1>8 DEF ReadChain, Types, Wires
  <2> QED BY <1>4, <1>8, <2>1, ReadTypes
<1>9. CASE Leg(r)
  <2>1. UNCHANGED <<queue, flush, pending, account, realized, forgiven, faults>>
    BY <1>9 DEF Leg, history
  <2> QED BY <1>4, <1>9, <2>1, LegTypes
<1>10. CASE Spawn(r)
  <2>1. UNCHANGED <<queue, flush, pending, account, realized, forgiven, faults>>
    BY <1>10 DEF Spawn, history
  <2> QED BY <1>4, <1>10, <2>1, SpawnTypes
<1>11. CASE ConfirmSweep(r)
  <2>1. UNCHANGED <<queue, flush, pending, account, realized, forgiven>> /\ (faults' = 0 => faults = 0)
    BY <1>11 DEF ConfirmSweep, Receipt, ReceiptLost, history, Types, Wires
  <2> QED BY <1>4, <1>11, <2>1, ConfirmSweepTypes
<1>12. CASE InvalidateSweep(r)
  <2>1. UNCHANGED <<queue, flush, pending, account, realized, forgiven, faults>>
    BY <1>12 DEF InvalidateSweep
  <2> QED BY <1>4, <1>12, <2>1, InvalidateTypes
<1>13. CASE DropOrder(r)
  <2>1. UNCHANGED <<queue, flush, pending, account, realized, forgiven>> /\ (faults' = 0 => faults = 0)
    BY <1>13 DEF DropOrder, Dropped, Types, Wires
  <2> QED BY <1>4, <1>13, <2>1, DropOrderTypes
<1> QED BY <1>2, <1>3, <1>5, <1>6, <1>7, <1>8, <1>9, <1>10, <1>11, <1>12, <1>13 DEF Order

LEMMA LiqPnl ==
  ASSUME PnlInv, NEW l \in Liquidations, Liquidate(l) \/ DropLiquidation(l)
  PROVE  PnlInv'
<1> USE DEF PnlInv
<1>1. l \in Procs \ {Flusher}
  BY Apart
<1>2. CASE SendLiquidation(l)
  <2>1. Types' /\ (UNCHANGED queue \/ \E tx \in Txs : tx.owner = l /\ tx.batch = NoBatch /\ queue' = Append(queue, tx))
    BY <1>2, SendLiquidationTypes
  <2>2. UNCHANGED <<flush, pending, account, realized, forgiven>> /\ (faults' = 0 => faults = 0)
    BY <1>2 DEF SendLiquidation, Sent, Refused, history, Types, Wires
  <2> QED BY <1>1, <2>1, <2>2, MovesNone
<1>3. ASSUME Types', UNCHANGED <<queue, flush, pending, account, realized, forgiven>>, faults' = 0 => faults = 0
      PROVE  PnlInv'
  BY <1>1, <1>3, MovesNone
<1>4. CASE Discover(l)
  <2>1. UNCHANGED <<queue, flush, pending, account, realized, forgiven, faults>>
    BY <1>4 DEF Discover, history
  <2> QED BY <1>3, <1>4, <2>1, DiscoverTypes
<1>5. CASE LockNext(l)
  <2>1. UNCHANGED <<queue, flush, pending, account, realized, forgiven, faults>>
    BY <1>5 DEF LockNext, history
  <2>2. Types'
    BY <1>5, LockNextTypes
  <2> QED BY <1>3, <2>1, <2>2
<1>6. CASE ReadNext(l)
  <2>1. UNCHANGED <<queue, flush, pending, account, realized, forgiven>> /\ (faults' = 0 => faults = 0)
    BY <1>6 DEF ReadNext, Types, Wires
  <2> QED BY <1>3, <1>6, <2>1, ReadNextTypes
<1>7. CASE Size(l)
  <2>1. UNCHANGED <<queue, flush, pending, account, realized, forgiven, faults>>
    BY <1>7 DEF Size
  <2> QED BY <1>3, <1>7, <2>1, SizeTypes
<1>8. CASE ConfirmLiquidation(l)
  <2>1. UNCHANGED <<queue, flush, pending, account, realized, forgiven>> /\ (faults' = 0 => faults = 0)
    BY <1>8 DEF ConfirmLiquidation, Receipt, ReceiptLost, history, Types, Wires
  <2> QED BY <1>3, <1>8, <2>1, ConfirmLiquidationTypes
<1>9. CASE FinishLiquidation(l)
  <2>1. UNCHANGED <<queue, flush, pending, account, realized, forgiven, faults>>
    BY <1>9 DEF FinishLiquidation
  <2> QED BY <1>3, <1>9, <2>1, FinishLiquidationTypes
<1>10. CASE DropLiquidation(l)
  <2>1. UNCHANGED <<queue, flush, pending, account, realized, forgiven>> /\ (faults' = 0 => faults = 0)
    BY <1>10 DEF DropLiquidation, Dropped, Types, Wires
  <2> QED BY <1>3, <1>10, <2>1, DropLiquidationTypes
<1> QED BY <1>2, <1>4, <1>5, <1>6, <1>7, <1>8, <1>9, <1>10 DEF Liquidate

LEMMA PnlStep == PnlInv /\ [Next]_vars => PnlInv'
<1> SUFFICES ASSUME PnlInv, [Next]_vars PROVE PnlInv'
  OBVIOUS
<1>1. CASE \E r \in Orders : Order(r) \/ DropOrder(r)
  BY <1>1, OrderPnl
<1>2. CASE \E l \in Liquidations : Liquidate(l) \/ DropLiquidation(l)
  BY <1>2, LiqPnl
<1>3. CASE Flush
  BY <1>3, DrainPnl, SendBatchPnl, ConfirmBatchPnl DEF Flush
<1>4. CASE Mine
  BY <1>4, MinePnl
\* A crash loses what was pending: it is a fault.
<1>5. CASE Crash
  <2>1. Types' /\ faults' # 0 /\ UNCHANGED queue
    BY <1>5, CrashTypes DEF PnlInv, Types, Wires
  <2> QED BY <2>1 DEF PnlInv, OthersMoveNone
<1>6. CASE UNCHANGED vars
  <2>1. /\ UNCHANGED <<cache, locks, sealed, bcast, queue, req, liq, flush>>
        /\ UNCHANGED <<pending, account, volume, faults, stamp, realized, forgiven>>
    BY <1>6 DEF vars, code, history
  <2>2. Types'
    BY <2>1 DEF PnlInv, Types, OrderTypes, LiqTypes, Store, Money, Wires
  <2> QED BY <2>1, <2>2 DEF PnlInv, OthersMoveNone, OneBatch, Balanced, OnTheWay, InQueue
<1> QED BY <1>1, <1>2, <1>3, <1>4, <1>5, <1>6 DEF Next

\* Realized PnL reaches Account.sol once (queue_realized_pnl, the flush loop and
\* settleRealizedPnlBatch): through any number of folds, drains and batches, as
\* long as nothing fails.
THEOREM RealizedPnlSettledOnce == Spec => []PnlOnce
<1>1. Init => PnlInv
  BY TypesStart, PnlStart DEF PnlInv
<1>2. PnlInv /\ [Next]_vars => PnlInv'
  BY PnlStep
<1>3. PnlInv => PnlOnce
  BY DEF PnlInv, Balanced, OnTheWay, PnlOnce, NoBatch
<1> QED BY <1>1, <1>2, <1>3, PTL DEF Spec

-----------------------------------------------------------------------------
(* The mirror: one key *)

\* What the handlers owe on one key, O, what landed on it, L, and the number S
\* of its folds; c is its cached position and rec its record on chain.
OwedRecords == [coll : Int, size : Int, stamp : Nat, leg : Nat, params : Params]
Owings == [Procs -> OwedRecords]
Landings == [size : Int, stamp : Nat]
OwedAt(k) == [p \in Procs |-> owed[p][k]]

SizeIn(params) == IF params = Empty THEN 0 ELSE params.size
Total(O) == SumFunctionOnSet([p \in Procs |-> O[p].size], Procs)
TotalColl(O) == SumFunctionOnSet([p \in Procs |-> O[p].coll], Procs)
\* The part of it folded first by the fold n.
SizeBy(w, n) == IF w.stamp <= n THEN w.size ELSE 0
OwedBy(O, n) == SumFunctionOnSet([p \in Procs |-> SizeBy(O[p], n)], Procs)

\* Whoever folded by n has built its leg by n, too.
Cut(O, S, n) ==
  n = S \/ \A q \in Procs : O[q] = Nothing \/ O[q].stamp > n \/ (O[q].leg # 0 /\ O[q].leg <= n)
\* Params x published after the fold n are the sum of the folds up to n.
View(O, L, S, n, x) == L.stamp <= n /\ Cut(O, S, n) => SizeIn(x) = L.size + OwedBy(O, n)
Latest(S, c, n, x) == n = S /\ c # None => x = ParamsOf(c)
Pends(w) == w # Nothing /\ w.leg = 0

Stamps(O, L, S) ==
  /\ O \in Owings /\ L \in Landings /\ S \in Nat
  /\ L.stamp <= S
  /\ \A p \in Procs : /\ O[p].stamp <= S /\ O[p].leg <= S
                      /\ O[p].leg # 0 => O[p].stamp <= O[p].leg
                      /\ O[p].stamp = 0 => O[p] = Nothing
Published0(O, L, S, c, rec) ==
  View(O, L, S, L.stamp, rec.params) /\ Latest(S, c, L.stamp, rec.params)
Built(O, L, S, c) ==
  \A p \in Procs : O[p].leg # 0 => /\ View(O, L, S, O[p].leg, O[p].params)
                                   /\ Latest(S, c, O[p].leg, O[p].params)
Cached(O, L, S, c, rec) ==
  /\ c.coll = rec.coll + TotalColl(O) /\ c.size = L.size + Total(O)
  /\ L.stamp = S \/ \E p \in Procs : O[p] # Nothing /\ O[p].leg \in {0, S}
KeyInv(O, L, S, c, rec, late) ==
  /\ late \/ Published0(O, L, S, c, rec)
  /\ Built(O, L, S, c)
  /\ c # None => Cached(O, L, S, c, rec)
  /\ c = None /\ (\E p \in Procs : Pends(O[p])) => L.size + Total(O) = 0
\* A handler's copy g of the position is the one to fold into.
Knows(O, L, rec, g) ==
  IF g = None THEN L.size = 0 /\ \A p \in Procs : O[p] = Nothing
  ELSE g.coll = rec.coll + TotalColl(O) /\ g.size = L.size + Total(O)

LEMMA ProcsFinite == IsFiniteSet(Procs)
<1>1. IsFiniteSet(Orders) /\ IsFiniteSet(Liquidations) /\ IsFiniteSet({Flusher})
  BY ConstantsAssumption, FS_Singleton
<1>2. IsFiniteSet(Orders \cup Liquidations)
  BY <1>1, FS_Union
<1> QED BY <1>1, <1>2, FS_Union DEF Procs

LEMMA OwedFields ==
  ASSUME NEW w \in OwedRecords
  PROVE  w.coll \in Int /\ w.size \in Int /\ w.stamp \in Nat /\ w.leg \in Nat /\ w.params \in Params
BY DEF OwedRecords

LEMMA NothingOwed ==
  /\ Nothing \in OwedRecords /\ Nothing.coll = 0 /\ Nothing.size = 0 /\ Nothing.stamp = 0 /\ Nothing.leg = 0
  /\ \A n : SizeBy(Nothing, n) = 0
BY DEF Nothing, OwedRecords, Params, SizeBy

LEMMA OwedMade ==
  ASSUME NEW coll \in Int, NEW size \in Int, NEW n \in Nat, NEW leg \in Nat, NEW params \in Params,
         NEW w, w = [coll |-> coll, size |-> size, stamp |-> n, leg |-> leg, params |-> params]
  PROVE  /\ w \in OwedRecords
         /\ w.coll = coll /\ w.size = size /\ w.stamp = n /\ w.leg = leg /\ w.params = params
BY DEF OwedRecords

LEMMA TotalsInt ==
  ASSUME NEW O \in Owings
  PROVE  /\ Total(O) \in Int /\ TotalColl(O) \in Int
         /\ \A n \in Nat : OwedBy(O, n) \in Int
<1>1. \A p \in Procs : O[p].size \in Int /\ O[p].coll \in Int /\ \A n \in Nat : SizeBy(O[p], n) \in Int
  BY OwedFields DEF Owings, SizeBy
<1>2. Total(O) \in Int
  <2> DEFINE f == [p \in Procs |-> O[p].size]
  <2>1. \A p \in Procs : f[p] \in Int
    BY <1>1
  <2> HIDE DEF f
  <2>2. SumFunctionOnSet(f, Procs) \in Int
    BY <2>1, ProcsFinite, SumInt
  <2> QED BY <2>2 DEF Total, f
<1>3. TotalColl(O) \in Int
  <2> DEFINE f == [p \in Procs |-> O[p].coll]
  <2>1. \A p \in Procs : f[p] \in Int
    BY <1>1
  <2> HIDE DEF f
  <2>2. SumFunctionOnSet(f, Procs) \in Int
    BY <2>1, ProcsFinite, SumInt
  <2> QED BY <2>2 DEF TotalColl, f
<1>4. ASSUME NEW n \in Nat PROVE OwedBy(O, n) \in Int
  <2> DEFINE f == [p \in Procs |-> SizeBy(O[p], n)]
  <2>1. \A p \in Procs : f[p] \in Int
    BY <1>1
  <2> HIDE DEF f
  <2>2. SumFunctionOnSet(f, Procs) \in Int
    BY <2>1, ProcsFinite, SumInt
  <2> QED BY <2>2 DEF OwedBy, f
<1> QED BY <1>2, <1>3, <1>4

\* One handler owes something else.
LEMMA TotalsChange ==
  ASSUME NEW O \in Owings, NEW Q \in Owings, NEW p \in Procs, \A q \in Procs \ {p} : Q[q] = O[q]
  PROVE  /\ Total(Q) = Total(O) + Q[p].size - O[p].size
         /\ TotalColl(Q) = TotalColl(O) + Q[p].coll - O[p].coll
         /\ \A n \in Nat : OwedBy(Q, n) = OwedBy(O, n) + SizeBy(Q[p], n) - SizeBy(O[p], n)
<1>1. \A q \in Procs : /\ O[q].size \in Int /\ O[q].coll \in Int /\ Q[q].size \in Int /\ Q[q].coll \in Int
                       /\ \A n \in Nat : SizeBy(O[q], n) \in Int /\ SizeBy(Q[q], n) \in Int
  BY OwedFields DEF Owings, SizeBy
<1>2. Total(Q) = Total(O) + Q[p].size - O[p].size
  <2> DEFINE f == [q \in Procs |-> O[q].size]
             h == [q \in Procs |-> Q[q].size]
  <2>1. /\ \A q \in Procs : f[q] \in Int
        /\ \A q \in Procs \ {p} : h[q] = f[q]
        /\ h[p] = Q[p].size /\ f[p] = O[p].size /\ h[p] \in Int
    BY <1>1
  <2> HIDE DEF f, h
  <2>2. SumFunctionOnSet(h, Procs) = SumFunctionOnSet(f, Procs) + h[p] - f[p]
    BY <2>1, ProcsFinite, SumChange
  <2> QED BY <2>1, <2>2 DEF Total, f, h
<1>3. TotalColl(Q) = TotalColl(O) + Q[p].coll - O[p].coll
  <2> DEFINE f == [q \in Procs |-> O[q].coll]
             h == [q \in Procs |-> Q[q].coll]
  <2>1. /\ \A q \in Procs : f[q] \in Int
        /\ \A q \in Procs \ {p} : h[q] = f[q]
        /\ h[p] = Q[p].coll /\ f[p] = O[p].coll /\ h[p] \in Int
    BY <1>1
  <2> HIDE DEF f, h
  <2>2. SumFunctionOnSet(h, Procs) = SumFunctionOnSet(f, Procs) + h[p] - f[p]
    BY <2>1, ProcsFinite, SumChange
  <2> QED BY <2>1, <2>2 DEF TotalColl, f, h
<1>4. ASSUME NEW n \in Nat
      PROVE  OwedBy(Q, n) = OwedBy(O, n) + SizeBy(Q[p], n) - SizeBy(O[p], n)
  <2> DEFINE f == [q \in Procs |-> SizeBy(O[q], n)]
             h == [q \in Procs |-> SizeBy(Q[q], n)]
  <2>1. /\ \A q \in Procs : f[q] \in Int
        /\ \A q \in Procs \ {p} : h[q] = f[q]
        /\ h[p] = SizeBy(Q[p], n) /\ f[p] = SizeBy(O[p], n) /\ h[p] \in Int
    BY <1>1
  <2> HIDE DEF f, h
  <2>2. SumFunctionOnSet(h, Procs) = SumFunctionOnSet(f, Procs) + h[p] - f[p]
    BY <2>1, ProcsFinite, SumChange
  <2> QED BY <2>1, <2>2 DEF OwedBy, f, h
<1> QED BY <1>2, <1>3, <1>4

LEMMA NobodyOwes ==
  ASSUME NEW O \in Owings, \A p \in Procs : O[p] = Nothing
  PROVE  Total(O) = 0 /\ TotalColl(O) = 0 /\ \A n \in Nat : OwedBy(O, n) = 0
<1>1. \A p \in Procs : O[p].size = 0 /\ O[p].coll = 0 /\ \A n \in Nat : SizeBy(O[p], n) = 0
  BY NothingOwed
<1>2. Total(O) = 0
  <2> DEFINE f == [p \in Procs |-> O[p].size]
  <2>1. \A p \in Procs : f[p] = 0
    BY <1>1
  <2> HIDE DEF f
  <2>2. SumFunctionOnSet(f, Procs) = 0
    BY <2>1, ProcsFinite, SumZero
  <2> QED BY <2>2 DEF Total, f
<1>3. TotalColl(O) = 0
  <2> DEFINE f == [p \in Procs |-> O[p].coll]
  <2>1. \A p \in Procs : f[p] = 0
    BY <1>1
  <2> HIDE DEF f
  <2>2. SumFunctionOnSet(f, Procs) = 0
    BY <2>1, ProcsFinite, SumZero
  <2> QED BY <2>2 DEF TotalColl, f
<1>4. ASSUME NEW n \in Nat PROVE OwedBy(O, n) = 0
  <2> DEFINE f == [p \in Procs |-> SizeBy(O[p], n)]
  <2>1. \A p \in Procs : f[p] = 0
    BY <1>1
  <2> HIDE DEF f
  <2>2. SumFunctionOnSet(f, Procs) = 0
    BY <2>1, ProcsFinite, SumZero
  <2> QED BY <2>2 DEF OwedBy, f
<1> QED BY <1>2, <1>3, <1>4

\* Two owings that count the same by n.
LEMMA OwedBySame ==
  ASSUME NEW O \in Owings, NEW Q, NEW n \in Nat, \A p \in Procs : SizeBy(Q[p], n) = SizeBy(O[p], n)
  PROVE  OwedBy(Q, n) = OwedBy(O, n)
<1> DEFINE f == [p \in Procs |-> SizeBy(O[p], n)]
           h == [p \in Procs |-> SizeBy(Q[p], n)]
<1>1. \A p \in Procs : f[p] \in Int /\ h[p] = f[p]
  BY OwedFields DEF Owings, SizeBy
<1> HIDE DEF f, h
<1>2. SumFunctionOnSet(h, Procs) = SumFunctionOnSet(f, Procs)
  BY <1>1, ProcsFinite, SumSame
<1> QED BY <1>2 DEF OwedBy, f, h

\* By the last fold, everything.
LEMMA OwedByAll ==
  ASSUME NEW O \in Owings, NEW n \in Nat, \A p \in Procs : O[p].stamp <= n
  PROVE  OwedBy(O, n) = Total(O)
<1> DEFINE f == [p \in Procs |-> O[p].size]
           h == [p \in Procs |-> SizeBy(O[p], n)]
<1>1. \A p \in Procs : f[p] \in Int /\ h[p] = f[p]
  BY OwedFields DEF Owings, SizeBy
<1> HIDE DEF f, h
<1>2. SumFunctionOnSet(h, Procs) = SumFunctionOnSet(f, Procs)
  BY <1>1, ProcsFinite, SumSame
<1> QED BY <1>2 DEF OwedBy, Total, f, h

LEMMA StampsFields ==
  ASSUME NEW O, NEW L, NEW S, Stamps(O, L, S)
  PROVE  /\ O \in Owings /\ S \in Nat /\ L.stamp \in Nat /\ L.size \in Int /\ L.stamp <= S
         /\ \A p \in Procs : /\ O[p].coll \in Int /\ O[p].size \in Int /\ O[p].stamp \in Nat /\ O[p].leg \in Nat
                             /\ O[p].stamp <= S /\ O[p].leg <= S
                             /\ O[p].leg # 0 => O[p].stamp <= O[p].leg
                             /\ O[p].stamp = 0 => O[p] = Nothing
<1>1. O \in Owings /\ L \in Landings
  BY DEF Stamps
<1>2. \A p \in Procs : O[p] \in OwedRecords
  BY <1>1 DEF Owings
<1>3. \A p \in Procs : O[p].coll \in Int /\ O[p].size \in Int /\ O[p].stamp \in Nat /\ O[p].leg \in Nat
  BY <1>2, OwedFields
<1>4. L.stamp \in Nat /\ L.size \in Int
  BY <1>1 DEF Landings
<1> QED BY <1>1, <1>3, <1>4 DEF Stamps

\* A fold: whoever folds has no leg on the new state yet.
LEMMA KeyFold ==
  ASSUME NEW O, NEW L, NEW S, Stamps(O, L, S),
         NEW Q \in Owings, NEW p \in Procs, \A q \in Procs \ {p} : Q[q] = O[q],
         NEW dc \in Int, NEW dq \in Int,
         Q[p].coll = O[p].coll + dc, Q[p].size = O[p].size + dq, Q[p].leg = 0,
         Q[p].stamp = (IF O[p] = Nothing THEN S + 1 ELSE O[p].stamp),
         NEW c, NEW rec, rec.coll \in Int, NEW late, KeyInv(O, L, S, c, rec, late),
         NEW new, new # None, new.coll = rec.coll + TotalColl(O) + dc, new.size = L.size + Total(O) + dq,
         NEW d, d = (IF new.size = 0 THEN None ELSE new)
  PROVE  Stamps(Q, L, S + 1) /\ KeyInv(Q, L, S + 1, d, rec, late)
<1>1. /\ O \in Owings /\ S \in Nat /\ L.stamp \in Nat /\ L.size \in Int /\ L.stamp <= S
      /\ \A q \in Procs : /\ O[q].coll \in Int /\ O[q].size \in Int /\ O[q].stamp \in Nat /\ O[q].leg \in Nat
                          /\ O[q].stamp <= S /\ O[q].leg <= S
                          /\ O[q].leg # 0 => O[q].stamp <= O[q].leg
                          /\ O[q].stamp = 0 => O[q] = Nothing
  BY StampsFields
<1>2. /\ Total(Q) = Total(O) + dq /\ TotalColl(Q) = TotalColl(O) + dc
      /\ Total(O) \in Int /\ TotalColl(O) \in Int
  <2>1. /\ Total(Q) = Total(O) + Q[p].size - O[p].size
        /\ TotalColl(Q) = TotalColl(O) + Q[p].coll - O[p].coll
        /\ Total(O) \in Int /\ TotalColl(O) \in Int
    BY <1>1, TotalsChange, TotalsInt
  <2> QED BY <1>1, <2>1
<1>3. Q[p].stamp \in Nat /\ Q[p].stamp # 0 /\ Q[p] # Nothing /\ Q[p].stamp <= S + 1
  BY <1>1, NothingOwed
<1>4. Stamps(Q, L, S + 1)
  BY <1>1, <1>3 DEF Stamps
<1>5. ASSUME NEW n \in Nat, n <= S, NEW x, View(O, L, S, n, x)
      PROVE  View(Q, L, S + 1, n, x)
  <2> SUFFICES ASSUME L.stamp <= n, Cut(Q, S + 1, n) PROVE SizeIn(x) = L.size + OwedBy(Q, n)
    BY DEF View
  <2>1. n # S + 1
    BY <1>1, <1>5
  <2>2. \A q \in Procs : Q[q] = Nothing \/ Q[q].stamp > n \/ (Q[q].leg # 0 /\ Q[q].leg <= n)
    BY <2>1 DEF Cut
  <2>3. Q[p].stamp > n
    BY <1>3, <2>2
  <2>4. O[p] = Nothing \/ O[p].stamp > n
    BY <2>3
  <2>5. Cut(O, S, n)
    <3> SUFFICES ASSUME NEW q \in Procs
                 PROVE  O[q] = Nothing \/ O[q].stamp > n \/ (O[q].leg # 0 /\ O[q].leg <= n)
      BY DEF Cut
    <3> QED BY <2>2, <2>4
  <2>6. SizeBy(Q[p], n) = 0 /\ SizeBy(O[p], n) = 0
    <3>1. ~(Q[p].stamp <= n)
      BY <1>3, <2>3
    <3>2. O[p] # Nothing => ~(O[p].stamp <= n)
      BY <1>1, <2>4
    <3> QED BY <3>1, <3>2, NothingOwed DEF SizeBy
  <2>7. OwedBy(Q, n) = OwedBy(O, n)
    <3>1. OwedBy(Q, n) = OwedBy(O, n) + SizeBy(Q[p], n) - SizeBy(O[p], n) /\ OwedBy(O, n) \in Int
      BY <1>1, TotalsChange, TotalsInt
    <3> QED BY <2>6, <3>1
  <2> QED BY <1>5, <2>5, <2>7 DEF View
<1>6. late \/ Published0(Q, L, S + 1, d, rec)
  <2>1. L.stamp # S + 1
    BY <1>1
  <2> QED BY <1>1, <1>5, <2>1 DEF KeyInv, Published0, Latest
<1>7. Built(Q, L, S + 1, d)
  <2> SUFFICES ASSUME NEW q \in Procs, Q[q].leg # 0
               PROVE  View(Q, L, S + 1, Q[q].leg, Q[q].params) /\ Latest(S + 1, d, Q[q].leg, Q[q].params)
    BY DEF Built
  <2>1. q # p /\ Q[q] = O[q]
    OBVIOUS
  <2>2. O[q].leg \in Nat /\ O[q].leg <= S /\ O[q].leg # S + 1
    BY <1>1
  <2>3. View(O, L, S, O[q].leg, O[q].params)
    BY <2>1 DEF KeyInv, Built
  <2> QED BY <1>5, <2>1, <2>2, <2>3 DEF Latest
<1>8. d # None => Cached(Q, L, S + 1, d, rec)
  <2> SUFFICES ASSUME d # None PROVE Cached(Q, L, S + 1, d, rec)
    OBVIOUS
  <2>1. d = new
    OBVIOUS
  <2>2. d.coll = rec.coll + TotalColl(Q) /\ d.size = L.size + Total(Q)
    BY <1>1, <1>2, <2>1
  <2> QED BY <1>3, <2>2 DEF Cached
<1>9. d = None => L.size + Total(Q) = 0
  <2> SUFFICES ASSUME d = None PROVE L.size + Total(Q) = 0
    OBVIOUS
  <2>1. new.size = 0
    OBVIOUS
  <2> QED BY <1>1, <1>2, <2>1
<1> QED BY <1>4, <1>6, <1>7, <1>8, <1>9 DEF KeyInv

\* A leg: the params are those of all folds so far.
LEMMA KeyLeg ==
  ASSUME NEW O, NEW L, NEW S, Stamps(O, L, S), NEW p \in Procs, Pends(O[p]),
         NEW Q \in Owings, \A q \in Procs \ {p} : Q[q] = O[q],
         Q[p].coll = O[p].coll, Q[p].size = O[p].size, Q[p].stamp = O[p].stamp, Q[p].leg = S,
         NEW c, NEW rec, NEW late, KeyInv(O, L, S, c, rec, late),
         Q[p].params = (IF c = None THEN Empty ELSE ParamsOf(c))
  PROVE  /\ Stamps(Q, L, S) /\ KeyInv(Q, L, S, c, rec, late)
         /\ Total(Q) = Total(O) /\ TotalColl(Q) = TotalColl(O) /\ Q[p] # Nothing /\ Q[p].leg # 0
<1>1. /\ O \in Owings /\ S \in Nat /\ L.stamp \in Nat /\ L.size \in Int /\ L.stamp <= S
      /\ \A q \in Procs : /\ O[q].coll \in Int /\ O[q].size \in Int /\ O[q].stamp \in Nat /\ O[q].leg \in Nat
                          /\ O[q].stamp <= S /\ O[q].leg <= S
                          /\ O[q].leg # 0 => O[q].stamp <= O[q].leg
                          /\ O[q].stamp = 0 => O[q] = Nothing
  BY StampsFields
<1>2. O[p] # Nothing /\ O[p].leg = 0 /\ O[p].stamp # 0 /\ S # 0 /\ Q[p] # Nothing
  <2>1. O[p] # Nothing /\ O[p].leg = 0
    BY DEF Pends
  <2> QED BY <1>1, <2>1, NothingOwed
<1>3. /\ Total(Q) = Total(O) /\ TotalColl(Q) = TotalColl(O)
      /\ \A n \in Nat : OwedBy(Q, n) = OwedBy(O, n)
      /\ Total(O) \in Int
  <2>1. /\ Total(Q) = Total(O) + Q[p].size - O[p].size
        /\ TotalColl(Q) = TotalColl(O) + Q[p].coll - O[p].coll
        /\ \A n \in Nat : OwedBy(Q, n) = OwedBy(O, n) + SizeBy(Q[p], n) - SizeBy(O[p], n)
        /\ Total(O) \in Int /\ TotalColl(O) \in Int /\ \A n \in Nat : OwedBy(O, n) \in Int
    BY <1>1, TotalsChange, TotalsInt
  <2>2. \A n \in Nat : SizeBy(Q[p], n) = SizeBy(O[p], n) /\ SizeBy(O[p], n) \in Int
    BY <1>1 DEF SizeBy
  <2> QED BY <1>1, <2>1, <2>2
<1>4. Stamps(Q, L, S)
  <2>1. L \in Landings
    BY DEF Stamps
  <2> QED BY <1>1, <1>2, <2>1 DEF Stamps
<1>5. ASSUME NEW n \in Nat, n <= S, NEW x, View(O, L, S, n, x)
      PROVE  View(Q, L, S, n, x)
  <2> SUFFICES ASSUME L.stamp <= n, Cut(Q, S, n) PROVE SizeIn(x) = L.size + OwedBy(Q, n)
    BY DEF View
  <2>1. Cut(O, S, n)
    <3>1. CASE n = S
      BY <3>1 DEF Cut
    <3>2. CASE n # S
      <4> SUFFICES ASSUME NEW q \in Procs
                   PROVE  O[q] = Nothing \/ O[q].stamp > n \/ (O[q].leg # 0 /\ O[q].leg <= n)
        BY DEF Cut
      <4>1. Q[q] = Nothing \/ Q[q].stamp > n \/ (Q[q].leg # 0 /\ Q[q].leg <= n)
        BY <3>2 DEF Cut
      <4>2. q = p => Q[q].stamp > n
        BY <1>1, <1>2, <1>5, <3>2, <4>1
      <4> QED BY <4>1, <4>2
    <3> QED BY <3>1, <3>2
  <2> QED BY <1>3, <1>5, <2>1 DEF View
<1>6. late \/ Published0(Q, L, S, c, rec)
  BY <1>1, <1>5 DEF KeyInv, Published0
<1>7. Built(Q, L, S, c)
  <2> SUFFICES ASSUME NEW q \in Procs, Q[q].leg # 0
               PROVE  View(Q, L, S, Q[q].leg, Q[q].params) /\ Latest(S, c, Q[q].leg, Q[q].params)
    BY DEF Built
  <2>1. CASE q # p
    <3>1. O[q].leg \in Nat /\ O[q].leg <= S /\ Q[q] = O[q]
      BY <1>1, <2>1
    <3>2. View(O, L, S, O[q].leg, O[q].params) /\ Latest(S, c, O[q].leg, O[q].params)
      BY <3>1 DEF KeyInv, Built
    <3> QED BY <1>5, <3>1, <3>2
  <2>2. CASE q = p
    <3>1. OwedBy(Q, S) = Total(O)
      BY <1>1, <1>3, OwedByAll
    <3>2. SizeIn(Q[p].params) = L.size + Total(O)
      <4>1. CASE c = None
        <5>1. Q[p].params = Empty
          BY <4>1
        <5>2. L.size + Total(O) = 0
          BY <4>1 DEF KeyInv
        <5> QED BY <5>1, <5>2 DEF SizeIn
      <4>2. CASE c # None
        <5>1. Q[p].params = ParamsOf(c) /\ c.size = L.size + Total(O)
          BY <4>2 DEF KeyInv, Cached
        <5> QED BY <5>1 DEF SizeIn, ParamsOf, Empty
      <4> QED BY <4>1, <4>2
    <3>3. View(Q, L, S, S, Q[p].params)
      BY <3>1, <3>2 DEF View
    <3> QED BY <2>2, <3>3 DEF Latest
  <2> QED BY <2>1, <2>2
<1>8. c # None => Cached(Q, L, S, c, rec)
  BY <1>2, <1>3 DEF KeyInv, Cached
<1>9. c = None => L.size + Total(Q) = 0
  BY <1>3 DEF KeyInv
<1> QED BY <1>2, <1>3, <1>4, <1>6, <1>7, <1>8, <1>9 DEF KeyInv

\* A liquidation folds and builds its leg at once.
LEMMA KeySize ==
  ASSUME NEW O, NEW L, NEW S, Stamps(O, L, S), NEW p \in Procs, O[p] = Nothing,
         NEW Q \in Owings, \A q \in Procs \ {p} : Q[q] = O[q],
         Q[p].stamp = S + 1, Q[p].leg = S + 1,
         NEW c, NEW rec, rec.coll \in Int, NEW late, KeyInv(O, L, S, c, rec, late),
         NEW new, new # None, new.coll = rec.coll + TotalColl(O) + Q[p].coll, new.size = L.size + Total(O) + Q[p].size,
         NEW d, d = (IF new.size = 0 THEN None ELSE new),
         Q[p].params = (IF new.size = 0 THEN Empty ELSE ParamsOf(new))
  PROVE  Stamps(Q, L, S + 1) /\ KeyInv(Q, L, S + 1, d, rec, late)
<1>1. /\ O \in Owings /\ S \in Nat /\ L.stamp \in Nat /\ L.size \in Int /\ L.stamp <= S
      /\ \A q \in Procs : /\ O[q].coll \in Int /\ O[q].size \in Int /\ O[q].stamp \in Nat /\ O[q].leg \in Nat
                          /\ O[q].stamp <= S /\ O[q].leg <= S
                          /\ O[q].leg # 0 => O[q].stamp <= O[q].leg
                          /\ O[q].stamp = 0 => O[q] = Nothing
  BY StampsFields
<1>2. Q[p] # Nothing /\ Q[p].size \in Int /\ Q[p].coll \in Int
  <2>1. Q[p] \in OwedRecords
    BY DEF Owings
  <2> QED BY <1>1, <2>1, NothingOwed, OwedFields
<1>3. /\ Total(Q) = Total(O) + Q[p].size /\ TotalColl(Q) = TotalColl(O) + Q[p].coll
      /\ \A n \in Nat : n <= S => OwedBy(Q, n) = OwedBy(O, n)
      /\ Total(O) \in Int /\ TotalColl(O) \in Int
  <2>1. /\ Total(Q) = Total(O) + Q[p].size - O[p].size
        /\ TotalColl(Q) = TotalColl(O) + Q[p].coll - O[p].coll
        /\ \A n \in Nat : OwedBy(Q, n) = OwedBy(O, n) + SizeBy(Q[p], n) - SizeBy(O[p], n)
        /\ Total(O) \in Int /\ TotalColl(O) \in Int /\ \A n \in Nat : OwedBy(O, n) \in Int
    BY <1>1, TotalsChange, TotalsInt
  <2>2. \A n \in Nat : n <= S => SizeBy(Q[p], n) = 0 /\ SizeBy(O[p], n) = 0
    BY <1>1, NothingOwed DEF SizeBy
  <2>3. O[p].size = 0 /\ O[p].coll = 0
    BY NothingOwed
  <2>4. Total(Q) = Total(O) + Q[p].size /\ TotalColl(Q) = TotalColl(O) + Q[p].coll
    BY <1>2, <2>1, <2>3
  <2>5. \A n \in Nat : n <= S => OwedBy(Q, n) = OwedBy(O, n)
    BY <2>1, <2>2
  <2> QED BY <2>1, <2>4, <2>5
<1>4. Stamps(Q, L, S + 1)
  <2>1. L \in Landings
    BY DEF Stamps
  <2> QED BY <1>1, <1>2, <2>1 DEF Stamps
<1>5. ASSUME NEW n \in Nat, n <= S, NEW x, View(O, L, S, n, x)
      PROVE  View(Q, L, S + 1, n, x)
  <2> SUFFICES ASSUME L.stamp <= n, Cut(Q, S + 1, n) PROVE SizeIn(x) = L.size + OwedBy(Q, n)
    BY DEF View
  <2>1. n # S + 1
    BY <1>1, <1>5
  <2>2. Cut(O, S, n)
    <3> SUFFICES ASSUME NEW q \in Procs
                 PROVE  O[q] = Nothing \/ O[q].stamp > n \/ (O[q].leg # 0 /\ O[q].leg <= n)
      BY DEF Cut
    <3> QED BY <2>1 DEF Cut
  <2> QED BY <1>3, <1>5, <2>2 DEF View
<1>6. late \/ Published0(Q, L, S + 1, d, rec)
  <2>1. L.stamp # S + 1
    BY <1>1
  <2> QED BY <1>1, <1>5, <2>1 DEF KeyInv, Published0, Latest
<1>7. Built(Q, L, S + 1, d)
  <2> SUFFICES ASSUME NEW q \in Procs, Q[q].leg # 0
               PROVE  View(Q, L, S + 1, Q[q].leg, Q[q].params) /\ Latest(S + 1, d, Q[q].leg, Q[q].params)
    BY DEF Built
  <2>1. CASE q # p
    <3>1. O[q].leg \in Nat /\ O[q].leg <= S /\ O[q].leg # S + 1 /\ Q[q] = O[q]
      BY <1>1, <2>1
    <3>2. View(O, L, S, O[q].leg, O[q].params)
      BY <3>1 DEF KeyInv, Built
    <3> QED BY <1>5, <3>1, <3>2 DEF Latest
  <2>2. CASE q = p
    <3>1. OwedBy(Q, S + 1) = Total(Q)
      <4>1. \A x \in Procs : Q[x].stamp <= S + 1
        BY <1>1
      <4>2. S + 1 \in Nat
        BY <1>1
      <4> QED BY <4>1, <4>2, OwedByAll
    <3>2. SizeIn(Q[p].params) = new.size
      BY DEF SizeIn, ParamsOf, Empty
    <3>3. new.size = L.size + Total(Q)
      BY <1>1, <1>2, <1>3
    <3>4. View(Q, L, S + 1, S + 1, Q[p].params)
      BY <3>1, <3>2, <3>3 DEF View
    <3>5. Latest(S + 1, d, S + 1, Q[p].params)
      BY DEF Latest
    <3> QED BY <2>2, <3>4, <3>5
  <2> QED BY <2>1, <2>2
<1>8. d # None => Cached(Q, L, S + 1, d, rec)
  <2> SUFFICES ASSUME d # None PROVE Cached(Q, L, S + 1, d, rec)
    OBVIOUS
  <2>1. d = new
    OBVIOUS
  <2>2. d.coll = rec.coll + TotalColl(Q) /\ d.size = L.size + Total(Q)
    BY <1>1, <1>2, <1>3, <2>1
  <2> QED BY <1>2, <2>2 DEF Cached
<1>9. d = None => L.size + Total(Q) = 0
  <2> SUFFICES ASSUME d = None PROVE L.size + Total(Q) = 0
    OBVIOUS
  <2>1. new.size = 0
    OBVIOUS
  <2> QED BY <1>1, <1>2, <1>3, <2>1
<1> QED BY <1>4, <1>6, <1>7, <1>8, <1>9 DEF KeyInv

LEMMA Between ==
  ASSUME NEW m \in Nat, NEW s \in Nat, NEW x, m <= s, x <= m, x = s
  PROVE  m = s
OBVIOUS

\* A mined leg: what its sender owed becomes what landed.
LEMMA KeyMine ==
  ASSUME NEW O, NEW L, NEW S, Stamps(O, L, S), NEW p \in Procs, O[p] # Nothing, O[p].leg # 0,
         NEW Q \in Owings, \A q \in Procs \ {p} : Q[q] = O[q], Q[p] = Nothing,
         NEW M \in Landings, M.size = L.size + O[p].size,
         M.stamp = (IF O[p].leg < L.stamp THEN L.stamp ELSE O[p].leg),
         NEW c, NEW rec, rec.coll \in Int, NEW late, KeyInv(O, L, S, c, rec, late),
         NEW new, new.coll = rec.coll + O[p].coll, new.params = O[p].params,
         NEW after, after = (O[p].leg < L.stamp)
  PROVE  /\ Stamps(Q, M, S) /\ KeyInv(Q, M, S, c, new, after)
         /\ \A g : Knows(O, L, rec, g) => Knows(Q, M, new, g)
<1>1. /\ O \in Owings /\ S \in Nat /\ L.stamp \in Nat /\ L.size \in Int /\ L.stamp <= S
      /\ \A q \in Procs : /\ O[q].coll \in Int /\ O[q].size \in Int /\ O[q].stamp \in Nat /\ O[q].leg \in Nat
                          /\ O[q].stamp <= S /\ O[q].leg <= S
                          /\ O[q].leg # 0 => O[q].stamp <= O[q].leg
                          /\ O[q].stamp = 0 => O[q] = Nothing
  BY StampsFields
<1>2. M.stamp \in Nat /\ M.stamp <= S /\ L.stamp <= M.stamp /\ O[p].leg <= M.stamp
  BY <1>1
<1>3. /\ Total(Q) = Total(O) - O[p].size /\ TotalColl(Q) = TotalColl(O) - O[p].coll
      /\ \A n \in Nat : OwedBy(Q, n) = OwedBy(O, n) - SizeBy(O[p], n) /\ OwedBy(O, n) \in Int
      /\ Total(O) \in Int /\ TotalColl(O) \in Int
  <2>1. /\ Total(Q) = Total(O) + Q[p].size - O[p].size
        /\ TotalColl(Q) = TotalColl(O) + Q[p].coll - O[p].coll
        /\ \A n \in Nat : OwedBy(Q, n) = OwedBy(O, n) + SizeBy(Q[p], n) - SizeBy(O[p], n)
        /\ Total(O) \in Int /\ TotalColl(O) \in Int /\ \A n \in Nat : OwedBy(O, n) \in Int
    BY <1>1, TotalsChange, TotalsInt
  <2>2. Q[p].size = 0 /\ Q[p].coll = 0 /\ \A n \in Nat : SizeBy(Q[p], n) = 0 /\ SizeBy(O[p], n) \in Int
    BY <1>1, NothingOwed DEF SizeBy
  <2>3. Total(Q) = Total(O) - O[p].size /\ TotalColl(Q) = TotalColl(O) - O[p].coll
    BY <1>1, <2>1, <2>2
  <2>4. ASSUME NEW n \in Nat PROVE OwedBy(Q, n) = OwedBy(O, n) - SizeBy(O[p], n)
    BY <2>1, <2>2
  <2> QED BY <2>1, <2>3, <2>4
<1>4. Stamps(Q, M, S)
  BY <1>1, <1>2, NothingOwed DEF Stamps
<1>5. ASSUME NEW n \in Nat, n <= S, NEW x, View(O, L, S, n, x)
      PROVE  View(Q, M, S, n, x)
  <2> SUFFICES ASSUME M.stamp <= n, Cut(Q, S, n) PROVE SizeIn(x) = M.size + OwedBy(Q, n)
    BY DEF View
  <2>1. L.stamp <= n /\ O[p].leg <= n /\ O[p].stamp <= n
    BY <1>1, <1>2
  <2>2. Cut(O, S, n)
    BY <2>1 DEF Cut
  <2>3. SizeBy(O[p], n) = O[p].size
    BY <2>1 DEF SizeBy
  <2>4. SizeIn(x) = L.size + OwedBy(O, n)
    BY <1>5, <2>1, <2>2 DEF View
  <2> QED BY <1>1, <1>3, <2>3, <2>4
<1>6. after \/ Published0(Q, M, S, c, new)
  <2> SUFFICES ASSUME ~after PROVE Published0(Q, M, S, c, new)
    OBVIOUS
  <2>1. M.stamp = O[p].leg
    BY <1>1
  <2>2. View(O, L, S, O[p].leg, O[p].params) /\ Latest(S, c, O[p].leg, O[p].params)
    BY DEF KeyInv, Built
  <2> QED BY <1>1, <1>5, <2>1, <2>2 DEF Published0
<1>7. Built(Q, M, S, c)
  <2> SUFFICES ASSUME NEW q \in Procs, Q[q].leg # 0
               PROVE  View(Q, M, S, Q[q].leg, Q[q].params) /\ Latest(S, c, Q[q].leg, Q[q].params)
    BY DEF Built
  <2>1. q # p /\ Q[q] = O[q]
    BY NothingOwed
  <2>2. View(O, L, S, O[q].leg, O[q].params) /\ Latest(S, c, O[q].leg, O[q].params)
    BY <2>1 DEF KeyInv, Built
  <2> QED BY <1>1, <1>5, <2>1, <2>2
<1>8. c # None => Cached(Q, M, S, c, new)
  <2> SUFFICES ASSUME c # None PROVE Cached(Q, M, S, c, new)
    OBVIOUS
  <2>1. Cached(O, L, S, c, rec)
    BY DEF KeyInv
  <2>2. c.coll = new.coll + TotalColl(Q) /\ c.size = M.size + Total(Q)
    BY <1>1, <1>3, <2>1 DEF Cached
  <2>3. M.stamp = S \/ \E q \in Procs : Q[q] # Nothing /\ Q[q].leg \in {0, S}
    <3>1. L.stamp = S \/ O[p].leg = S => M.stamp = S
      <4>1. M.stamp \in Nat /\ S \in Nat /\ M.stamp <= S /\ L.stamp <= M.stamp /\ O[p].leg <= M.stamp
        BY <1>1, <1>2
      <4> QED BY <4>1, Between
    <3>2. L.stamp = S \/ \E q \in Procs : O[q] # Nothing /\ O[q].leg \in {0, S}
      BY <2>1 DEF Cached
    <3>3. ASSUME NEW q \in Procs, O[q] # Nothing, O[q].leg \in {0, S}, q # p
          PROVE  Q[q] # Nothing /\ Q[q].leg \in {0, S}
      BY <3>3
    <3> QED BY <3>1, <3>2, <3>3
  <2> QED BY <2>2, <2>3 DEF Cached
<1>9. c = None /\ (\E q \in Procs : Pends(Q[q])) => M.size + Total(Q) = 0
  <2> SUFFICES ASSUME c = None, NEW q \in Procs, Pends(Q[q]) PROVE M.size + Total(Q) = 0
    OBVIOUS
  <2>1. Pends(O[q])
    BY DEF Pends
  <2>2. L.size + Total(O) = 0
    BY <2>1 DEF KeyInv
  <2> QED BY <1>1, <1>3, <2>2
<1>10. ASSUME NEW g, Knows(O, L, rec, g) PROVE Knows(Q, M, new, g)
  <2>1. g # None
    BY <1>10 DEF Knows
  <2>2. g.coll = rec.coll + TotalColl(O) /\ g.size = L.size + Total(O)
    BY <1>10, <2>1 DEF Knows
  <2> QED BY <1>1, <1>3, <2>1, <2>2 DEF Knows
<1> QED BY <1>4, <1>6, <1>7, <1>8, <1>9, <1>10 DEF KeyInv

\* The cached position goes, and with it folds later than any that landed or
\* has a leg left.
LEMMA KeyLose ==
  ASSUME NEW O, NEW L, NEW S, Stamps(O, L, S), NEW Q,
         \A p \in Procs : Q[p] = O[p] \/ Q[p] = Nothing, Q \in Owings,
         \A p \in Procs : Q[p] # O[p] => O[p].stamp > L.stamp,
         \A p, q \in Procs : Q[p] # O[p] /\ Q[q].leg # 0 => O[p].stamp > Q[q].leg,
         \A p \in Procs : ~Pends(Q[p]),
         NEW c, NEW rec, NEW late, KeyInv(O, L, S, c, rec, late)
  PROVE  Stamps(Q, L, S) /\ KeyInv(Q, L, S, None, rec, late)
<1>1. /\ O \in Owings /\ S \in Nat /\ L.stamp \in Nat /\ L.size \in Int /\ L.stamp <= S
      /\ \A q \in Procs : /\ O[q].coll \in Int /\ O[q].size \in Int /\ O[q].stamp \in Nat /\ O[q].leg \in Nat
                          /\ O[q].stamp <= S /\ O[q].leg <= S
                          /\ O[q].leg # 0 => O[q].stamp <= O[q].leg
                          /\ O[q].stamp = 0 => O[q] = Nothing
  BY StampsFields
<1>2. Stamps(Q, L, S)
  <2>1. L \in Landings
    BY DEF Stamps
  <2> QED BY <1>1, <2>1, NothingOwed DEF Stamps
<1>3. ASSUME NEW n \in Nat, n <= S, NEW x, View(O, L, S, n, x), \A p \in Procs : Q[p] # O[p] => O[p].stamp > n
      PROVE  View(Q, L, S, n, x)
  <2> SUFFICES ASSUME L.stamp <= n, Cut(Q, S, n) PROVE SizeIn(x) = L.size + OwedBy(Q, n)
    BY DEF View
  <2>1. Cut(O, S, n)
    BY <1>3 DEF Cut
  <2>2. \A p \in Procs : SizeBy(Q[p], n) = SizeBy(O[p], n)
    <3> SUFFICES ASSUME NEW p \in Procs, Q[p] # O[p] PROVE SizeBy(Q[p], n) = SizeBy(O[p], n)
      OBVIOUS
    <3>1. ~(O[p].stamp <= n) /\ Q[p] = Nothing
      BY <1>1, <1>3
    <3> QED BY <3>1, NothingOwed DEF SizeBy
  <2>3. OwedBy(Q, n) = OwedBy(O, n)
    BY <1>1, <2>2, OwedBySame
  <2> QED BY <1>3, <2>1, <2>3 DEF View
<1>4. late \/ Published0(Q, L, S, None, rec)
  <2> SUFFICES ASSUME ~late PROVE Published0(Q, L, S, None, rec)
    OBVIOUS
  <2>1. View(O, L, S, L.stamp, rec.params)
    BY DEF KeyInv, Published0
  <2> QED BY <1>1, <1>3, <2>1 DEF Published0, Latest
<1>5. Built(Q, L, S, None)
  <2> SUFFICES ASSUME NEW q \in Procs, Q[q].leg # 0
               PROVE  View(Q, L, S, Q[q].leg, Q[q].params) /\ Latest(S, None, Q[q].leg, Q[q].params)
    BY DEF Built
  <2>1. Q[q] = O[q]
    BY NothingOwed
  <2>2. View(O, L, S, O[q].leg, O[q].params) /\ O[q].leg \in Nat /\ O[q].leg <= S
    BY <1>1, <2>1 DEF KeyInv, Built
  <2> QED BY <1>3, <2>1, <2>2 DEF Latest
<1> QED BY <1>2, <1>4, <1>5 DEF KeyInv

\* With nothing in flight, the chain is the position.
LEMMA KeyRead ==
  ASSUME NEW O, NEW L, NEW S, Stamps(O, L, S), NEW c, NEW rec \in SealedRecords,
         NEW late, ~late, KeyInv(O, L, S, c, rec, late), \A p \in Procs : O[p] = Nothing
  PROVE  /\ L.size = SizeIn(rec.params)
         /\ Knows(O, L, rec, loadSealed(rec))
         /\ c \in Positions => c = loadSealed(rec)
<1>1. O \in Owings /\ L.stamp \in Nat /\ L.size \in Int /\ S \in Nat /\ L.stamp <= S
  BY StampsFields
<1>2. Total(O) = 0 /\ TotalColl(O) = 0 /\ OwedBy(O, L.stamp) = 0
  BY <1>1, NobodyOwes
<1>3. SizeIn(rec.params) = L.size + OwedBy(O, L.stamp) /\ Latest(S, c, L.stamp, rec.params)
  BY <1>1 DEF KeyInv, Published0, View, Cut
<1>4. L.size = SizeIn(rec.params)
  BY <1>1, <1>2, <1>3
<1>5. rec.coll \in Int
  BY DEF SealedRecords
<1>6. Knows(O, L, rec, loadSealed(rec))
  BY <1>1, <1>2, <1>4, <1>5 DEF Knows, loadSealed, SizeIn, None
<1>7. ASSUME c \in Positions PROVE c = loadSealed(rec)
  <2>1. c # None
    BY <1>7, PositionFields
  <2>2. Cached(O, L, S, c, rec)
    BY <2>1 DEF KeyInv
  <2>3. L.stamp = S
    BY <2>2 DEF Cached
  <2>4. rec.params = ParamsOf(c)
    BY <1>3, <2>1, <2>3 DEF Latest
  <2>5. c.coll = rec.coll
    BY <1>2, <1>5, <2>2 DEF Cached
  <2>6. PICK s \in Int, e \in Nat, f \in Int, w \in Int, l \in Int :
          c = [size |-> s, entry |-> e, fund |-> f, coll |-> w, lev |-> l]
    BY <1>7 DEF Positions
  <2> QED BY <2>4, <2>5, <2>6 DEF loadSealed, ParamsOf, Empty
<1> QED BY <1>4, <1>6, <1>7

\* The cache is the position, for who finds one there.
LEMMA KeyCached ==
  ASSUME NEW O, NEW L, NEW S, NEW c, c # None, NEW rec, NEW late, KeyInv(O, L, S, c, rec, late)
  PROVE  Knows(O, L, rec, c)
BY DEF KeyInv, Cached, Knows

-----------------------------------------------------------------------------
(* The mirror: the legs of a transaction *)

OnKey(legs, k) == [i \in 1..Len(legs) |-> IF legs[i].key = k THEN legs[i].delta ELSE 0]
DeltaOn(legs, k) == SumFunctionOnSet(OnKey(legs, k), 1..Len(legs))
KeysOf(legs) == {legs[i].key : i \in DOMAIN legs}
\* i is the last of the legs on k.
Newest(legs, k, i) ==
  i \in 1..Len(legs) /\ legs[i].key = k /\ \A j \in 1..Len(legs) : legs[j].key = k => j <= i
\* The legs carry to k what w owes.
Carries(w, legs, k) ==
  /\ w # Nothing /\ w.coll = DeltaOn(legs, k) /\ w.leg # 0
  /\ \E i \in 1..Len(legs) : Newest(legs, k, i) /\ w.leg = legs[i].stamp /\ w.params = legs[i].params

LEMMA LegFields ==
  ASSUME NEW g \in Legs
  PROVE  g.key \in Keys /\ g.delta \in Int /\ g.params \in Params /\ g.stamp \in Nat
BY DEF Legs

LEMMA KeysOfIn ==
  ASSUME NEW legs \in Seq(Legs), NEW k
  PROVE  k \in KeysOf(legs) <=> \E i \in 1..Len(legs) : legs[i].key = k
BY DEF KeysOf

LEMMA OnKeyInt ==
  ASSUME NEW legs \in Seq(Legs), NEW k
  PROVE  /\ \A i \in 1..Len(legs) : OnKey(legs, k)[i] \in Int
         /\ DeltaOn(legs, k) \in Int
<1>1. \A i \in 1..Len(legs) : legs[i].delta \in Int
  BY LegFields
<1>2. \A i \in 1..Len(legs) : OnKey(legs, k)[i] \in Int
  BY <1>1 DEF OnKey
<1>3. IsFiniteSet(1..Len(legs))
  <2>1. Len(legs) \in Nat
    OBVIOUS
  <2> QED BY <2>1, FS_Interval
<1>4. DeltaOn(legs, k) \in Int
  BY <1>2, <1>3, SumInt DEF DeltaOn
<1> QED BY <1>2, <1>4

LEMMA DeltaNone ==
  ASSUME NEW legs \in Seq(Legs), NEW k, k \notin KeysOf(legs)
  PROVE  DeltaOn(legs, k) = 0
<1>1. \A i \in 1..Len(legs) : OnKey(legs, k)[i] = 0
  BY KeysOfIn DEF OnKey
<1>2. IsFiniteSet(1..Len(legs))
  <2>1. Len(legs) \in Nat
    OBVIOUS
  <2> QED BY <2>1, FS_Interval
<1> QED BY <1>1, <1>2, SumZero DEF DeltaOn

LEMMA DeltaAppend ==
  ASSUME NEW legs \in Seq(Legs), NEW g \in Legs, NEW k
  PROVE  /\ DeltaOn(Append(legs, g), k) = DeltaOn(legs, k) + (IF g.key = k THEN g.delta ELSE 0)
         /\ DeltaOn(legs, k) \in Int
<1> DEFINE n == Len(legs)
           f == OnKey(legs, k)
           h == OnKey(Append(legs, g), k)
<1>1. n \in Nat /\ Len(Append(legs, g)) = n + 1 /\ Append(legs, g)[n + 1] = g
      /\ \A i \in 1..n : Append(legs, g)[i] = legs[i]
  OBVIOUS
<1>2. \A i \in 1..n : f[i] \in Int
  BY OnKeyInt
<1>3. (\A i \in 1..n : h[i] = f[i]) /\ h[n + 1] = (IF g.key = k THEN g.delta ELSE 0) /\ h[n + 1] \in Int
  <2>1. \A i \in 1..n : i \in 1..n + 1
    BY <1>1
  <2>2. n + 1 \in 1..n + 1
    BY <1>1
  <2>3. g.delta \in Int
    BY LegFields
  <2> QED BY <1>1, <2>1, <2>2, <2>3 DEF OnKey
<1>4. DeltaOn(Append(legs, g), k) = SumFunctionOnSet(h, 1..n + 1)
  BY <1>1 DEF DeltaOn
<1> HIDE DEF h, f, n
<1>5. /\ SumFunctionOnSet(h, 1..n + 1) = SumFunctionOnSet(f, 1..n) + h[n + 1]
      /\ SumFunctionOnSet(f, 1..n) \in Int
  BY <1>1, <1>2, <1>3, SumNext
<1> QED BY <1>3, <1>4, <1>5 DEF DeltaOn, f, n

LEMMA DeltaPrepend ==
  ASSUME NEW legs \in Seq(Legs), NEW g \in Legs, NEW k
  PROVE  DeltaOn(<<g>> \o legs, k) = DeltaOn(legs, k) + (IF g.key = k THEN g.delta ELSE 0)
<1> DEFINE n == Len(legs)
           f == OnKey(legs, k)
           h == OnKey(<<g>> \o legs, k)
           next == [i \in 1..n |-> i + 1]
           T == 2..n + 1
<1>1. n \in Nat /\ Len(<<g>> \o legs) = n + 1 /\ (<<g>> \o legs)[1] = g
      /\ \A i \in 1..n : (<<g>> \o legs)[i + 1] = legs[i]
  OBVIOUS
<1>2. \A i \in 1..n : f[i] \in Int
  BY OnKeyInt
<1>3. (\A i \in 1..n : f[i] = h[i + 1]) /\ h[1] = (IF g.key = k THEN g.delta ELSE 0) /\ h[1] \in Int
  <2>1. \A i \in 1..n : i + 1 \in 1..n + 1
    BY <1>1
  <2>2. 1 \in 1..n + 1
    BY <1>1
  <2>3. g.delta \in Int
    BY LegFields
  <2> QED BY <1>1, <2>1, <2>2, <2>3 DEF OnKey
<1>4. DeltaOn(<<g>> \o legs, k) = SumFunctionOnSet(h, 1..n + 1)
  BY <1>1 DEF DeltaOn
<1> HIDE DEF h, f, n
<1>5. SumFunctionOnSet(f, 1..n) = SumFunctionOnSet(h, T)
  <2>1. IsFiniteSet(1..n)
    BY <1>1, FS_Interval
  <2>2. \A x \in 1..n : next[x] \in T
    BY <1>1
  <2>3. \A x, y \in 1..n : next[x] = next[y] => x = y
    BY <1>1
  <2>4. \A z \in T : \E x \in 1..n : next[x] = z
    <3> TAKE z \in T
    <3>1. z - 1 \in 1..n /\ next[z - 1] = z
      BY <1>1
    <3> QED BY <3>1
  <2>5. \A z \in T : h[z] \in Int
    <3> TAKE z \in T
    <3>1. z - 1 \in 1..n /\ (z - 1) + 1 = z
      BY <1>1
    <3> QED BY <1>2, <1>3, <3>1
  <2>6. \A x \in 1..n : f[x] = h[next[x]]
    BY <1>3
  <2> DEFINE D == 1..n
  <2>7. /\ IsFiniteSet(D) /\ \A x \in D : next[x] \in T
        /\ \A x, y \in D : next[x] = next[y] => x = y
        /\ \A z \in T : \E x \in D : next[x] = z
        /\ \A x \in D : f[x] = h[next[x]]
    BY <2>1, <2>2, <2>3, <2>4, <2>6
  <2> HIDE DEF next, T, D
  <2>8. SumFunctionOnSet(f, D) = SumFunctionOnSet(h, T) /\ IsFiniteSet(T) /\ Cardinality(T) = Cardinality(D)
    BY <2>5, <2>7, SumRenamed
  <2> QED BY <2>8 DEF D
<1>6. SumFunctionOnSet(h, 1..n + 1) = h[1] + SumFunctionOnSet(h, T)
  <2>1. 1..n + 1 = T \cup {1} /\ (1..n + 1) \ {1} = T /\ 1 \in 1..n + 1
    BY <1>1
  <2>2. \A x \in 1..n + 1 : h[x] \in Int
    <3> TAKE x \in 1..n + 1
    <3>1. x # 1 => x - 1 \in 1..n /\ (x - 1) + 1 = x
      BY <1>1
    <3> QED BY <1>2, <1>3, <3>1
  <2>3. IsFiniteSet(1..n + 1)
    BY <1>1, FS_Interval
  <2> HIDE DEF T
  <2>4. SumFunctionOnSet(h, 1..n + 1) = h[1] + SumFunctionOnSet(h, (1..n + 1) \ {1})
    BY <2>1, <2>2, <2>3, SumRemove
  <2> QED BY <2>1, <2>4
<1>7. SumFunctionOnSet(f, 1..n) \in Int
  <2>1. IsFiniteSet(1..n)
    BY <1>1, FS_Interval
  <2> QED BY <1>2, <2>1, SumInt
<1> HIDE DEF T
<1> QED BY <1>3, <1>4, <1>5, <1>6, <1>7 DEF DeltaOn, f, n

LEMMA DeltaOne ==
  ASSUME NEW g \in Legs
  PROVE  DeltaOn(<<g>>, g.key) = g.delta /\ Newest(<<g>>, g.key, 1) /\ KeysOf(<<g>>) = {g.key}
<1> DEFINE legs == <<g>>
<1>1. legs \in Seq(Legs) /\ Len(legs) = 1 /\ legs[1] = g /\ DOMAIN legs = {1} /\ 1..Len(legs) = {1}
  OBVIOUS
<1> HIDE DEF legs
<1>2. Newest(legs, g.key, 1) /\ KeysOf(legs) = {g.key}
  BY <1>1 DEF Newest, KeysOf
<1>3. DeltaOn(legs, g.key) = g.delta
  <2> DEFINE none == SubSeq(legs, 1, 0)
  <2>1. none \in Seq(Legs) /\ Append(none, g) = legs /\ 1..Len(none) = {}
    BY <1>1
  <2> HIDE DEF none
  <2>2. g.key \notin KeysOf(none)
    BY <2>1, KeysOfIn
  <2>3. DeltaOn(none, g.key) = 0
    BY <2>1, <2>2, DeltaNone
  <2>4. g.delta \in Int
    BY LegFields
  <2>5. DeltaOn(Append(none, g), g.key) = DeltaOn(none, g.key) + (IF g.key = g.key THEN g.delta ELSE 0)
    BY <2>1, DeltaAppend
  <2> QED BY <2>1, <2>3, <2>4, <2>5
<1> QED BY <1>2, <1>3 DEF legs

\* The last leg on a key, as Mine names it.
LEMMA NewestIsLast ==
  ASSUME NEW legs \in Seq(Legs), NEW k, NEW i, Newest(legs, k, i)
  PROVE  LastOn(legs, k) = i
<1> DEFINE S == {x \in DOMAIN legs : legs[x].key = k}
<1>1. i \in S /\ \A y \in S : y <= i /\ y \in Int
  BY DEF Newest
<1> HIDE DEF S
<1>2. \A x \in S : (\A y \in S : y <= x) => x = i
  BY <1>1
<1>3. Max(S) = CHOOSE x \in S : \A y \in S : y <= x
  BY Zenon DEF Max
<1>4. Max(S) = i
  BY <1>1, <1>2, <1>3
<1> QED BY <1>4 DEF LastOn, S

LEMMA NewestUnique ==
  ASSUME NEW legs \in Seq(Legs), NEW k, NEW i, NEW j, Newest(legs, k, i), Newest(legs, k, j)
  PROVE  i = j
BY DEF Newest

\* What a settled transaction did to every key: its deltas, the params of its
\* last leg, and never a negative collateral.
Applied(chain, legs, after) ==
  \A k \in Keys :
    /\ after[k].coll = chain[k].coll + DeltaOn(legs, k)
    /\ chain[k].coll >= 0 => after[k].coll >= 0
    /\ k \notin KeysOf(legs) => after[k] = chain[k]
    /\ \A i \in 1..Len(legs) : Newest(legs, k, i) => after[k].params = legs[i].params

LEMMA LegsApplied ==
  ASSUME NEW chain \in SealedMaps, NEW legs \in Seq(Legs), ApplyLegs(chain, legs) # Reverted
  PROVE  Applied(chain, legs, ApplyLegs(chain, legs))
<1>1. PICK run : LegsRun(chain, legs, run) /\ ApplyLegs(chain, legs) = run[Len(legs)]
  BY LegsRunExists
<1> DEFINE N == Len(legs)
           On(n, k) == SumFunctionOnSet(OnKey(legs, k), 1..n)
           At(n, k) == /\ run[n][k].coll = chain[k].coll + On(n, k)
                       /\ chain[k].coll >= 0 => run[n][k].coll >= 0
                       /\ (\A i \in 1..n : legs[i].key # k) => run[n][k] = chain[k]
                       /\ \A i \in 1..n : legs[i].key = k /\ (\A j \in 1..n : legs[j].key = k => j <= i)
                                            => run[n][k].params = legs[i].params
           Good(n) == n <= N => run[n] = Reverted \/ (run[n] \in SealedMaps /\ \A k \in Keys : At(n, k))
           G == {n \in Nat : Good(n)}
<1>2. N \in Nat
  OBVIOUS
<1>3. \A k \in Keys : chain[k].coll \in Int
  BY SealedFields DEF SealedMaps
<1>4. 0 \in G
  <2>1. 1..0 = {} /\ run[0] = chain
    BY <1>1 DEF LegsRun
  <2>2. \A k \in Keys : On(0, k) = 0
    BY <2>1, SumEmpty
  <2>3. \A k \in Keys : At(0, k)
    BY <1>3, <2>1, <2>2
  <2> HIDE DEF At, N
  <2> QED BY <2>1, <2>3
<1>5. \A n \in Nat : n \in G => n + 1 \in G
  <2> SUFFICES ASSUME NEW n \in Nat, Good(n), n + 1 <= N, run[n + 1] # Reverted
               PROVE  run[n + 1] \in SealedMaps /\ \A k \in Keys : At(n + 1, k)
    <3> HIDE DEF At, N
    <3> QED OBVIOUS
  <2> DEFINE g == legs[n + 1]
  <2>1. n + 1 \in 1..N /\ (n + 1) - 1 = n /\ n <= N
    BY <1>2
  <2>2. g \in Legs
    BY <2>1
  <2>3. run[n + 1] = IF run[n] = Reverted THEN Reverted ELSE _applySealedLeg(run[n], g)
    BY <1>1, <2>1 DEF LegsRun
  <2>4. run[n] # Reverted /\ run[n + 1] = _applySealedLeg(run[n], g)
    BY <2>3
  <2>5. run[n] \in SealedMaps /\ \A k \in Keys : At(n, k)
    <3> HIDE DEF At
    <3> QED BY <2>1, <2>4
  <2>6. /\ run[n + 1] \in SealedMaps
        /\ run[n + 1][g.key].coll = run[n][g.key].coll + g.delta
        /\ run[n + 1][g.key].params = g.params
        /\ \A k \in Keys \ {g.key} : run[n + 1][k] = run[n][k]
    BY <2>2, <2>4, <2>5, OneLeg
  <2>7. run[n + 1][g.key].coll >= 0
    <3>1. g.key \in Keys /\ g.delta \in Int
      BY <2>2, LegFields
    <3>2. run[n][g.key].coll \in Int
      BY <2>5, <3>1, SealedFields DEF SealedMaps
    <3>3. ~(run[n][g.key].coll + g.delta < 0)
      BY <2>4 DEF _applySealedLeg
    <3> QED BY <2>6, <3>1, <3>2, <3>3
  <2>8. ASSUME NEW k \in Keys PROVE At(n + 1, k)
    <3> DEFINE f == OnKey(legs, k)
    <3>1. \A i \in 1..N : f[i] \in Int
      BY OnKeyInt
    <3>2. f[n + 1] = (IF g.key = k THEN g.delta ELSE 0)
      BY <2>1 DEF OnKey
    <3>3. \A i \in 1..n : i \in 1..N /\ i \in 1..n + 1 /\ i <= n /\ i # n + 1
      BY <1>2, <2>1
    <3>4. \A i \in 1..n + 1 : i \in 1..n \/ i = n + 1
      OBVIOUS
    <3> HIDE DEF f
    <3>5. /\ SumFunctionOnSet(f, 1..n + 1) = SumFunctionOnSet(f, 1..n) + f[n + 1]
          /\ SumFunctionOnSet(f, 1..n) \in Int
      <4>1. \A x \in 1..n : f[x] \in Int /\ f[x] = f[x]
        BY <3>1, <3>3
      <4>2. f[n + 1] \in Int
        BY <2>1, <3>1
      <4> HIDE DEF N
      <4> QED BY <4>1, <4>2, SumNext
    <3>6. On(n + 1, k) = On(n, k) + (IF g.key = k THEN g.delta ELSE 0) /\ On(n, k) \in Int
      BY <3>2, <3>5 DEF f
    <3>7. At(n, k)
      <4> HIDE DEF At
      <4> QED BY <2>5
    <3>8. CASE k = g.key
      <4>1. run[n + 1][k].coll = chain[k].coll + On(n + 1, k)
        <5>1. g.delta \in Int
          BY <2>2, LegFields
        <5> HIDE DEF On
        <5> QED BY <1>3, <2>6, <3>6, <3>7, <3>8, <5>1
      <4>2. n + 1 \in 1..n + 1 /\ legs[n + 1].key = k
        BY <2>1, <3>8
      <4>3. ASSUME NEW i \in 1..n + 1, legs[i].key = k, \A j \in 1..n + 1 : legs[j].key = k => j <= i
            PROVE  run[n + 1][k].params = legs[i].params
        <5>1. n + 1 <= i
          BY <4>2, <4>3
        <5>2. i = n + 1
          BY <3>4, <5>1
        <5> QED BY <2>6, <3>8, <5>2
      <4> HIDE DEF On, g
      <4> QED BY <2>7, <3>8, <4>1, <4>2, <4>3
    <3>9. CASE k # g.key
      <4>1. run[n + 1][k] = run[n][k]
        BY <2>6, <3>9
      <4>2. legs[n + 1].key # k
        BY <3>9
      <4>3. On(n + 1, k) = On(n, k)
        <5> HIDE DEF On
        <5> QED BY <3>6, <3>9
      <4>4. ASSUME NEW i \in 1..n + 1, legs[i].key = k, \A j \in 1..n + 1 : legs[j].key = k => j <= i
            PROVE  run[n + 1][k].params = legs[i].params
        <5>1. i \in 1..n
          BY <3>4, <4>2, <4>4
        <5>2. \A j \in 1..n : legs[j].key = k => j <= i
          BY <3>3, <4>4
        <5> QED BY <3>7, <4>1, <4>4, <5>1, <5>2
      <4> HIDE DEF On, g
      <4> QED BY <3>3, <3>7, <4>1, <4>3, <4>4
    <3> QED BY <3>8, <3>9
  <2> QED BY <2>6, <2>8
<1> HIDE DEF G
<1>6. Nat \subseteq G
  BY <1>4, <1>5, Induction
<1> USE DEF G
<1>7. run[N] \in SealedMaps /\ \A k \in Keys : At(N, k)
  <2>1. Good(N)
    <3> HIDE DEF Good, N
    <3> QED BY <1>2, <1>6
  <2> HIDE DEF At
  <2> QED BY <1>1, <1>2, <2>1
<1>8. ASSUME NEW k \in Keys
      PROVE  /\ run[N][k].coll = chain[k].coll + DeltaOn(legs, k)
             /\ chain[k].coll >= 0 => run[N][k].coll >= 0
             /\ k \notin KeysOf(legs) => run[N][k] = chain[k]
             /\ \A i \in 1..Len(legs) : Newest(legs, k, i) => run[N][k].params = legs[i].params
  <2>1. At(N, k)
    <3> HIDE DEF At
    <3> QED BY <1>7
  <2>2. On(N, k) = DeltaOn(legs, k)
    BY DEF DeltaOn
  <2>3. k \notin KeysOf(legs) => \A i \in 1..N : legs[i].key # k
    BY KeysOfIn
  <2>4. \A i \in 1..N : Newest(legs, k, i) => legs[i].key = k /\ (\A j \in 1..N : legs[j].key = k => j <= i)
    BY DEF Newest
  <2> HIDE DEF On
  <2> QED BY <2>1, <2>2, <2>3, <2>4
<1> HIDE DEF At, On
<1> QED BY <1>1, <1>8 DEF Applied

LEMMA KeysAppend ==
  ASSUME NEW legs \in Seq(Legs), NEW g \in Legs
  PROVE  KeysOf(Append(legs, g)) = KeysOf(legs) \cup {g.key} /\ KeysOf(<<g>> \o legs) = KeysOf(legs) \cup {g.key}
<1> DEFINE n == Len(legs)
<1>1. /\ n \in Nat /\ DOMAIN legs = 1..n
      /\ DOMAIN Append(legs, g) = 1..n + 1 /\ Append(legs, g)[n + 1] = g
      /\ \A i \in 1..n : Append(legs, g)[i] = legs[i]
      /\ DOMAIN (<<g>> \o legs) = 1..n + 1 /\ (<<g>> \o legs)[1] = g
      /\ \A i \in 1..n : (<<g>> \o legs)[i + 1] = legs[i]
  OBVIOUS
<1> HIDE DEF n
<1>2. \A i \in 1..n + 1 : (i \in 1..n \/ i = n + 1) /\ (i = 1 \/ (i - 1 \in 1..n /\ (i - 1) + 1 = i))
  BY <1>1
<1>3. (\A i \in 1..n : i \in 1..n + 1 /\ i + 1 \in 1..n + 1) /\ 1 \in 1..n + 1 /\ n + 1 \in 1..n + 1
  BY <1>1
<1>4. KeysOf(Append(legs, g)) = KeysOf(legs) \cup {g.key}
  BY <1>1, <1>2, <1>3 DEF KeysOf
<1>5. KeysOf(<<g>> \o legs) = KeysOf(legs) \cup {g.key}
  <2> DEFINE all == <<g>> \o legs
  <2>1. DOMAIN all = 1..n + 1 /\ all[1] = g /\ \A i \in 1..n : all[i + 1] = legs[i]
    BY <1>1
  <2> HIDE DEF all
  <2>2. ASSUME NEW k \in KeysOf(all) PROVE k \in KeysOf(legs) \cup {g.key}
    <3>1. PICK i \in 1..n + 1 : k = all[i].key
      BY <2>1 DEF KeysOf
    <3>2. i = 1 \/ (i - 1 \in 1..n /\ all[i] = legs[i - 1])
      BY <1>2, <2>1
    <3> QED BY <1>1, <2>1, <3>1, <3>2 DEF KeysOf
  <2>3. ASSUME NEW i \in 1..n PROVE legs[i].key \in KeysOf(all)
    BY <1>3, <2>1 DEF KeysOf
  <2>4. g.key \in KeysOf(all)
    BY <1>3, <2>1 DEF KeysOf
  <2>5. KeysOf(legs) = {legs[i].key : i \in 1..n}
    BY <1>1 DEF KeysOf
  <2>6. KeysOf(all) = KeysOf(legs) \cup {g.key}
    BY <2>2, <2>3, <2>4, <2>5
  <2> QED BY <2>6 DEF all
<1> QED BY <1>4, <1>5

\* A leg more: the one the key was waiting for, or one on another key.
LEMMA CarriesAppend ==
  ASSUME NEW legs \in Seq(Legs), NEW g \in Legs, NEW w, NEW k
  PROVE  /\ g.key = k /\ w # Nothing /\ w.coll = DeltaOn(legs, k) + g.delta /\ w.leg = g.stamp /\ w.leg # 0
            /\ w.params = g.params => Carries(w, Append(legs, g), k)
         /\ g.key # k /\ Carries(w, legs, k) => Carries(w, Append(legs, g), k)
<1> DEFINE n == Len(legs)
           all == Append(legs, g)
<1>1. n \in Nat /\ Len(all) = n + 1 /\ all[n + 1] = g /\ \A i \in 1..n : all[i] = legs[i]
  OBVIOUS
<1>2. DeltaOn(all, k) = DeltaOn(legs, k) + (IF g.key = k THEN g.delta ELSE 0) /\ DeltaOn(legs, k) \in Int
  BY DeltaAppend
<1> HIDE DEF n, all
<1>3. ASSUME g.key = k, w # Nothing, w.coll = DeltaOn(legs, k) + g.delta, w.leg = g.stamp, w.leg # 0,
             w.params = g.params
      PROVE  Carries(w, all, k)
  <2>1. n + 1 \in 1..Len(all) /\ \A j \in 1..Len(all) : j <= n + 1
    BY <1>1
  <2>2. Newest(all, k, n + 1)
    BY <1>1, <1>3, <2>1 DEF Newest
  <2> QED BY <1>1, <1>2, <1>3, <2>1, <2>2 DEF Carries
<1>4. ASSUME g.key # k, Carries(w, legs, k)
      PROVE  Carries(w, all, k)
  <2>1. PICK i \in 1..Len(legs) : Newest(legs, k, i) /\ w.leg = legs[i].stamp /\ w.params = legs[i].params
    BY <1>4 DEF Carries
  <2>2. i \in 1..n /\ i \in 1..Len(all) /\ all[i] = legs[i]
    BY <1>1, <2>1 DEF n
  <2>3. \A j \in 1..Len(all) : j \in 1..n \/ all[j] = g
    BY <1>1
  <2>4. Newest(all, k, i)
    BY <1>1, <1>4, <2>1, <2>2, <2>3 DEF Newest, n
  <2> QED BY <1>2, <1>4, <2>1, <2>2, <2>4 DEF Carries
<1> QED BY <1>3, <1>4 DEF all

LEMMA CarriesPrepend ==
  ASSUME NEW legs \in Seq(Legs), NEW g \in Legs, NEW w, NEW k
  PROVE  /\ g.key = k /\ k \notin KeysOf(legs) /\ w # Nothing /\ w.coll = g.delta /\ w.leg = g.stamp /\ w.leg # 0
            /\ w.params = g.params => Carries(w, <<g>> \o legs, k)
         /\ g.key # k /\ Carries(w, legs, k) => Carries(w, <<g>> \o legs, k)
<1> DEFINE n == Len(legs)
           all == <<g>> \o legs
<1>1. n \in Nat /\ Len(all) = n + 1 /\ all[1] = g /\ \A i \in 1..n : all[i + 1] = legs[i]
  OBVIOUS
<1>2. DeltaOn(all, k) = DeltaOn(legs, k) + (IF g.key = k THEN g.delta ELSE 0) /\ DeltaOn(legs, k) \in Int
  BY DeltaPrepend, OnKeyInt
<1> HIDE DEF n, all
<1>0. \A j \in 1..Len(all) : j = 1 \/ (j - 1 \in 1..n /\ all[j] = legs[j - 1])
  <2> TAKE j \in 1..Len(all)
  <2>1. j = 1 \/ (j - 1 \in 1..n /\ (j - 1) + 1 = j)
    BY <1>1
  <2> QED BY <1>1, <2>1
<1>3. ASSUME g.key = k, k \notin KeysOf(legs), w # Nothing, w.coll = g.delta, w.leg = g.stamp, w.leg # 0,
             w.params = g.params
      PROVE  Carries(w, all, k)
  <2>1. 1 \in 1..Len(all)
    BY <1>1
  <2>2. \A j \in 1..n : legs[j].key # k
    BY <1>3, KeysOfIn DEF n
  <2>3. Newest(all, k, 1)
    BY <1>0, <1>1, <1>3, <2>1, <2>2 DEF Newest
  <2>4. DeltaOn(legs, k) = 0
    BY <1>3, DeltaNone
  <2>5. g.delta \in Int
    BY LegFields
  <2> QED BY <1>1, <1>2, <1>3, <2>1, <2>3, <2>4, <2>5 DEF Carries
<1>4. ASSUME g.key # k, Carries(w, legs, k)
      PROVE  Carries(w, all, k)
  <2>1. PICK i \in 1..Len(legs) : Newest(legs, k, i) /\ w.leg = legs[i].stamp /\ w.params = legs[i].params
    BY <1>4 DEF Carries
  <2>2. i \in 1..n /\ i + 1 \in 1..Len(all) /\ all[i + 1] = legs[i]
    BY <1>1, <2>1 DEF n
  <2>3. ASSUME NEW j \in 1..Len(all), all[j].key = k PROVE j <= i + 1
    <3>1. j - 1 \in 1..n /\ legs[j - 1].key = k
      BY <1>0, <1>1, <1>4, <2>3
    <3>2. j - 1 <= i
      BY <2>1, <3>1 DEF Newest, n
    <3> QED BY <2>2, <3>1, <3>2
  <2>4. Newest(all, k, i + 1)
    BY <2>1, <2>2, <2>3 DEF Newest
  <2> QED BY <1>2, <1>4, <2>1, <2>2, <2>4 DEF Carries
<1> QED BY <1>3, <1>4 DEF all

LEMMA CarriesOne ==
  ASSUME NEW g \in Legs, NEW w, w # Nothing, w.coll = g.delta, w.leg = g.stamp, w.leg # 0, w.params = g.params
  PROVE  Carries(w, <<g>>, g.key)
<1> DEFINE legs == <<g>>
<1>1. Len(legs) = 1 /\ legs[1] = g /\ 1 \in 1..Len(legs)
  OBVIOUS
<1>2. DeltaOn(legs, g.key) = g.delta /\ Newest(legs, g.key, 1)
  BY DeltaOne
<1> HIDE DEF legs
<1>3. Carries(w, legs, g.key)
  BY <1>1, <1>2 DEF Carries
<1> QED BY <1>3 DEF legs

-----------------------------------------------------------------------------
(* The mirror: the whole state *)

OwedTypes == owed \in [Procs -> [Keys -> OwedRecords]] /\ landed \in [Keys -> Landings]

KeyRight(k) ==
  /\ Stamps(OwedAt(k), landed[k], stamp[k])
  /\ k \in suspect \/ KeyInv(OwedAt(k), landed[k], stamp[k], cache[k], sealed[k], k \in overtaken)

\* A copy g of the position of k that a handler may fold into.
Fresh(k, g) == k \in suspect \/ Knows(OwedAt(k), landed[k], sealed[k], g)
OrderKnows(r) == req[r].pc = "fold" => Fresh(KeyOf(req[r]), req[r].got)
LiqKnows(l) ==
  liq[l].pc \in {"read", "size"} => \A m \in DOMAIN liq[l].got : Fresh(LKey(l, m), liq[l].got[m])

\* Who reads or folds a position has its lock.
OrderLocked(r) == req[r].pc \in {"read", "fold"} => locks[KeyOf(req[r])] = r
LiqLocked(l) ==
  /\ liq[l].pc = "lock" => \A m \in liq[l].markets \ liq[l].todo : locks[LKey(l, m)] = l
  /\ liq[l].pc \in {"read", "size", "send", "sent"} => \A m \in liq[l].markets : locks[LKey(l, m)] = l

\* What an order in the making owes: its taker's leg is still to come, its
\* makers' legs carry what it folded, but for the one that it is at.
TakerKey(o) == <<o.taker, o.market>>
AtLeg(o, k) == o.pc = "leg" /\ k = KeyOf(o)
BuildingOn(o, w, k) ==
  IF k = TakerKey(o) THEN w.coll = o.delta /\ w.leg = 0 /\ k \notin KeysOf(o.legs)
  ELSE IF AtLeg(o, k) THEN w.coll = DeltaOn(o.legs, k) + o.locked /\ Pends(w)
  ELSE IF k \in KeysOf(o.legs) THEN Carries(w, o.legs, k)
  ELSE w = Nothing
Building(o, W) == \A k \in Keys : BuildingOn(o, W[k], k)
OtherMakers(o) == \A i \in DOMAIN o.fills : o.fills[i].maker # o.taker
OrderFits(o, W, sent) ==
  /\ o.pc \in {"idle", "match"} => W = NoOwed
  /\ o.pc \in {"idle", "match", "lock", "read", "fold", "leg", "spawn", "queued"} => ~sent
  /\ o.pc \in {"lock", "read", "fold", "leg", "spawn"} => Building(o, W) /\ OtherMakers(o)
  /\ o.pc = "leg" => o.role = "maker"
  /\ o.pc = "spawn" => W[TakerKey(o)] # Nothing
  /\ o.pc = "queued" => \A k \in KeysOf(o.legs) : Carries(W[k], o.legs, k)
OrderRight(r) == OrderFits(req[r], owed[r], InQueue(r))

LegReady(l, m) ==
  LET k == LKey(l, m) IN
  liq[l].legs[m].key = k /\ Carries(owed[l][k], <<liq[l].legs[m]>>, k) /\ k \notin QueuedKeys(l)
LiqRight(l) ==
  /\ liq[l].pc \in {"idle", "lock", "read", "size"} => owed[l] = NoOwed /\ ~InQueue(l)
  /\ liq[l].pc = "lock" => DOMAIN liq[l].got = {}
  /\ liq[l].pc \in {"send", "sent"} => \A m \in liq[l].left : LegReady(l, m)

\* A transaction carries what its owner owes, and two of one owner share no key.
TxRight(tx) ==
  /\ tx.kind = "pnl" => tx.legs = <<>>
  /\ \A k \in KeysOf(tx.legs) : Carries(owed[tx.owner][k], tx.legs, k)
QueueRight ==
  /\ \A i \in DOMAIN queue : TxRight(queue[i])
  /\ \A i, j \in DOMAIN queue : i # j /\ queue[i].owner = queue[j].owner =>
       \A k \in KeysOf(queue[i].legs) : k \notin KeysOf(queue[j].legs)

Kept == \A k \in Keys : (cache[k] = None \/ cache[k].size # 0) /\ sealed[k].coll >= 0

OrdersFine == \A r \in Orders : OrderKnows(r) /\ OrderLocked(r) /\ OrderRight(r)
LiqsFine == \A l \in Liquidations : LiqKnows(l) /\ LiqLocked(l) /\ LiqRight(l)
MirrorInv ==
  /\ LockInv /\ OwedTypes /\ faults <= MaxFaults
  /\ \A k \in Keys : KeyRight(k)
  /\ OrdersFine /\ LiqsFine /\ QueueRight /\ Kept

-----------------------------------------------------------------------------
(* The mirror: what a step leaves alone *)

\* A step that does nothing to k, but for marking it.
Still(k) ==
  /\ cache'[k] = cache[k] /\ sealed'[k] = sealed[k] /\ landed'[k] = landed[k] /\ stamp'[k] = stamp[k]
  /\ \A p \in Procs : owed'[p][k] = owed[p][k]
  /\ (k \in overtaken) = (k \in overtaken')
  /\ k \in suspect => k \in suspect'
FreshStays(k) == \A g : Fresh(k, g) => Fresh(k, g)'

LEMMA KeyStill ==
  ASSUME NEW k \in Keys, KeyRight(k), Still(k)
  PROVE  KeyRight(k)' /\ FreshStays(k)
<1>1. OwedAt(k)' = OwedAt(k)
  BY DEF Still, OwedAt
<1>2. /\ cache'[k] = cache[k] /\ sealed'[k] = sealed[k] /\ landed'[k] = landed[k] /\ stamp'[k] = stamp[k]
      /\ (k \in overtaken) = (k \in overtaken') /\ (k \in suspect => k \in suspect')
  BY DEF Still
<1>3. KeyRight(k)'
  BY <1>1, <1>2 DEF KeyRight
<1>4. ASSUME NEW g, Fresh(k, g) PROVE Fresh(k, g)'
  BY <1>1, <1>2, <1>4 DEF Fresh
<1> QED BY <1>3, <1>4 DEF FreshStays

\* What a step of p does to the others: nothing to their state, to the locks
\* they hold, to what they owe and have sent; and it spoils no copy under lock.
Others(p) ==
  /\ \A q \in Orders \ {p} : req'[q] = req[q]
  /\ \A q \in Liquidations \ {p} : liq'[q] = liq[q]
  /\ \A k \in Keys : locks[k] \notin {p, Free} => locks'[k] = locks[k] /\ FreshStays(k)
  /\ \A q \in Procs \ {p} : /\ owed'[q] = owed[q]
                            /\ InQueue(q)' => InQueue(q)
                            /\ QueuedKeys(q)' \subseteq QueuedKeys(q)

LEMMA KeyOfAgain ==
  ASSUME NEW r, req'[r] = req[r]
  PROVE  KeyOf(req[r])' = KeyOf(req[r])
BY DEF KeyOf

LEMMA OrderStays ==
  ASSUME LockInv, NEW p, Others(p), NEW r \in Orders, r # p, p \in Procs,
         OrderKnows(r), OrderLocked(r), OrderRight(r)
  PROVE  OrderKnows(r)' /\ OrderLocked(r)' /\ OrderRight(r)'
<1>1. req'[r] = req[r] /\ r \in Procs /\ owed'[r] = owed[r] /\ (InQueue(r)' => InQueue(r))
  BY DEF Others, Procs
<1>2. r # Free
  BY ConstantsAssumption
<1>3. OrderOK(req[r])
  BY DEF LockInv, Types, OrderTypes
<1>a. PICK k, g : k = KeyOf(req[r]) /\ g = req[r].got
  OBVIOUS
<1>b. KeyOf(req[r])' = k /\ (req[r].got)' = g
  BY <1>1, <1>a, KeyOfAgain
<1>4. ASSUME req[r].pc \in {"read", "fold"}
      PROVE  locks[k] = r /\ locks'[k] = r /\ FreshStays(k)
  <2>1. k \in Keys
    BY <1>3, <1>4, <1>a, FillingByPc, KeyOfFilling
  <2>2. locks[k] = r
    BY <1>4, <1>a DEF OrderLocked
  <2> QED BY <1>2, <2>1, <2>2 DEF Others
<1>5. OrderLocked(r)'
  BY <1>1, <1>4, <1>b DEF OrderLocked
<1>6. OrderKnows(r)'
  <2>1. SUFFICES ASSUME req[r].pc = "fold" PROVE Fresh(k, g)'
    BY <1>1, <1>b DEF OrderKnows
  <2>2. Fresh(k, g)
    BY <1>a, <2>1 DEF OrderKnows
  <2>3. FreshStays(k)
    BY <1>4, <2>1
  <2> QED BY <2>2, <2>3 DEF FreshStays
<1>7. OrderRight(r)'
  <2>1. req'[r] = req[r] /\ owed'[r] = owed[r] /\ (InQueue(r)' => InQueue(r))
    BY <1>1
  <2>2. PICK o, W : o = req[r] /\ W = owed[r]
    OBVIOUS
  <2>3. OrderFits(o, W, InQueue(r))
    BY <2>2 DEF OrderRight
  <2>4. OrderFits(o, W, InQueue(r)')
    BY <2>1, <2>3 DEF OrderFits
  <2> QED BY <2>1, <2>2, <2>4 DEF OrderRight
<1> QED BY <1>5, <1>6, <1>7

LEMMA LiqByPc ==
  ASSUME NEW o, LiqOK(o)
  PROVE  /\ o.pc \in {"lock", "read", "size"} => Locking(o)
         /\ o.pc \in {"send", "sent"} => Sending(o)
BY DEF LiqOK, LiqOver, Locking, Sending

LEMMA LiqStays ==
  ASSUME LockInv, NEW p, Others(p), NEW l \in Liquidations, l # p, p \in Procs,
         LiqKnows(l), LiqLocked(l), LiqRight(l)
  PROVE  LiqKnows(l)' /\ LiqLocked(l)' /\ LiqRight(l)'
<1>1. /\ liq'[l] = liq[l] /\ l \in Procs /\ owed'[l] = owed[l] /\ (InQueue(l)' => InQueue(l))
      /\ QueuedKeys(l)' \subseteq QueuedKeys(l)
  BY DEF Others, Procs
<1>2. l # Free
  BY ConstantsAssumption
<1>a. PICK o : o = liq[l]
  OBVIOUS
<1>b. liq'[l] = o
  BY <1>1, <1>a
<1>3. LiqOK(o)
  BY <1>a DEF LockInv, Types, LiqTypes
<1>4. \A m \in Markets : o.who \in Traders => <<o.who, m>> \in Keys
  BY DEF Keys
<1>5. \A m : LKey(l, m) = <<o.who, m>> /\ LKey(l, m)' = <<o.who, m>>
  BY <1>a, <1>b DEF LKey
<1>6. ASSUME NEW k \in Keys, locks[k] = l
      PROVE  locks'[k] = l /\ FreshStays(k)
  BY <1>2, <1>6 DEF Others
<1>7. LiqLocked(l)'
  <2>1. ASSUME o.pc = "lock", NEW m \in o.markets \ o.todo PROVE locks'[<<o.who, m>>] = l
    <3>1. locks[<<o.who, m>>] = l
      BY <1>a, <1>5, <2>1 DEF LiqLocked
    <3>2. m \in Markets /\ o.who \in Traders
      BY <1>3, <2>1, LiqByPc DEF Locking
    <3> QED BY <1>4, <1>6, <3>1, <3>2
  <2>2. ASSUME o.pc \in {"read", "size", "send", "sent"}, NEW m \in o.markets PROVE locks'[<<o.who, m>>] = l
    <3>1. locks[<<o.who, m>>] = l
      BY <1>a, <1>5, <2>2 DEF LiqLocked
    <3>2. m \in Markets /\ o.who \in Traders
      BY <1>3, <2>2, LiqByPc DEF Locking, Sending
    <3> QED BY <1>4, <1>6, <3>1, <3>2
  <2> QED BY <1>5, <1>b, <2>1, <2>2 DEF LiqLocked
<1>8. LiqKnows(l)'
  <2>1. ASSUME o.pc \in {"read", "size"}, NEW m \in DOMAIN o.got PROVE Fresh(<<o.who, m>>, o.got[m])'
    <3>1. PICK k, g : k = <<o.who, m>> /\ g = o.got[m]
      OBVIOUS
    <3>2. m \in Markets /\ m \in o.markets /\ o.who \in Traders
      BY <1>3, <2>1, LiqByPc DEF Locking
    <3>3. k \in Keys /\ locks[k] = l
      BY <1>4, <1>a, <1>5, <2>1, <3>1, <3>2 DEF LiqLocked
    <3>4. Fresh(k, g)
      BY <1>a, <1>5, <2>1, <3>1 DEF LiqKnows
    <3>5. FreshStays(k)
      BY <1>6, <3>3
    <3>6. Fresh(k, g)'
      BY <3>4, <3>5 DEF FreshStays
    <3> QED BY <3>1, <3>6 DEF Fresh
  <2> QED BY <1>5, <1>b, <2>1 DEF LiqKnows
<1>9. LiqRight(l)'
  <2>1. /\ o.pc \in {"idle", "lock", "read", "size"} => owed[l] = NoOwed /\ ~InQueue(l)
        /\ o.pc = "lock" => DOMAIN o.got = {}
    BY <1>a DEF LiqRight
  <2>2. ASSUME o.pc \in {"send", "sent"}, NEW m \in o.left PROVE LegReady(l, m)'
    <3>1. PICK k : k = <<o.who, m>>
      OBVIOUS
    <3>2. o.legs[m].key = k /\ Carries(owed[l][k], <<o.legs[m]>>, k) /\ k \notin QueuedKeys(l)
      BY <1>a, <2>2, <3>1 DEF LiqRight, LegReady, LKey
    <3> QED BY <1>1, <1>b, <3>1, <3>2 DEF LegReady, LKey
  <2> QED BY <1>1, <1>b, <2>1, <2>2 DEF LiqRight
<1> QED BY <1>7, <1>8, <1>9

\* Nothing is sent or mined, and nobody owes anything else on what was sent.
LEMMA QueueStays ==
  ASSUME LockInv, QueueRight, queue' = queue,
         \A i \in DOMAIN queue : \A k \in KeysOf(queue[i].legs) : owed'[queue[i].owner][k] = owed[queue[i].owner][k]
  PROVE  QueueRight'
<1>1. ASSUME NEW i \in DOMAIN queue PROVE TxRight(queue[i])'
  <2>1. PICK tx : tx = queue[i]
    OBVIOUS
  <2>2. TxRight(tx) /\ \A k \in KeysOf(tx.legs) : owed'[tx.owner][k] = owed[tx.owner][k]
    BY <1>1, <2>1 DEF QueueRight
  <2>3. (queue[i])' = tx
    BY <2>1
  <2> QED BY <2>2, <2>3 DEF TxRight
<1> QED BY <1>1 DEF QueueRight

LEMMA QueuedIs ==
  ASSUME NEW p, NEW k
  PROVE  /\ k \in QueuedKeys(p) <=> \E i \in DOMAIN queue : queue[i].owner = p /\ k \in KeysOf(queue[i].legs)
         /\ InQueue(p) <=> \E i \in DOMAIN queue : queue[i].owner = p
BY DEF QueuedKeys, KeysIn, KeysOf, InQueue

\* The same, told by process.
LEMMA SentStays ==
  ASSUME LockInv, QueueRight, queue' = queue, NEW p, \A q \in Procs \ {p} : owed'[q] = owed[q],
         \A k \in QueuedKeys(p) : owed'[p][k] = owed[p][k]
  PROVE  QueueRight'
<1>1. ASSUME NEW i \in DOMAIN queue, NEW k \in KeysOf(queue[i].legs)
      PROVE  owed'[queue[i].owner][k] = owed[queue[i].owner][k]
  <2>1. queue[i] \in Txs
    BY DEF LockInv, Types, Wires
  <2>2. queue[i].owner \in Procs
    BY <2>1 DEF Txs
  <2>3. k \in QueuedKeys(queue[i].owner)
    BY QueuedIs
  <2> QED BY <2>2, <2>3
<1> QED BY <1>1, QueueStays

LEMMA SameQueue ==
  ASSUME queue' = queue, NEW p
  PROVE  InQueue(p)' = InQueue(p) /\ QueuedKeys(p)' = QueuedKeys(p)
BY DEF InQueue, QueuedKeys

\* The invariant of a step, from the actor and from the others.
LEMMA OrderMirror ==
  ASSUME MirrorInv, LockInv', NEW r \in Orders, Others(r), OwedTypes', faults' <= MaxFaults,
         \A k \in Keys : KeyRight(k)', OrderKnows(r)', OrderLocked(r)', OrderRight(r)', QueueRight', Kept'
  PROVE  MirrorInv'
<1>1. r \in Procs
  BY DEF Procs
<1>2. \A q \in Orders \ {r} : OrderKnows(q)' /\ OrderLocked(q)' /\ OrderRight(q)'
  BY <1>1, OrderStays DEF MirrorInv, OrdersFine
<1>3. \A l \in Liquidations : LiqKnows(l)' /\ LiqLocked(l)' /\ LiqRight(l)'
  <2>1. \A l \in Liquidations : l # r
    BY ConstantsAssumption
  <2> QED BY <1>1, <2>1, LiqStays DEF MirrorInv, LiqsFine
<1> QED BY <1>2, <1>3 DEF MirrorInv, OrdersFine, LiqsFine

LEMMA LiqMirror ==
  ASSUME MirrorInv, LockInv', NEW l \in Liquidations, Others(l), OwedTypes', faults' <= MaxFaults,
         \A k \in Keys : KeyRight(k)', LiqKnows(l)', LiqLocked(l)', LiqRight(l)', QueueRight', Kept'
  PROVE  MirrorInv'
<1>1. l \in Procs
  BY DEF Procs
<1>2. \A q \in Liquidations \ {l} : LiqKnows(q)' /\ LiqLocked(q)' /\ LiqRight(q)'
  BY <1>1, LiqStays DEF MirrorInv, LiqsFine
<1>3. \A r \in Orders : OrderKnows(r)' /\ OrderLocked(r)' /\ OrderRight(r)'
  <2>1. \A r \in Orders : l # r
    BY ConstantsAssumption
  <2> QED BY <1>1, <2>1, OrderStays DEF MirrorInv, OrdersFine
<1> QED BY <1>2, <1>3 DEF MirrorInv, OrdersFine, LiqsFine

LEMMA FlushMirror ==
  ASSUME MirrorInv, LockInv', Others(Flusher), OwedTypes', faults' <= MaxFaults,
         \A k \in Keys : KeyRight(k)', QueueRight', Kept'
  PROVE  MirrorInv'
<1>1. Flusher \in Procs /\ \A q \in Orders \cup Liquidations : q # Flusher
  BY ConstantsAssumption DEF Procs
<1>2. \A r \in Orders : OrderKnows(r)' /\ OrderLocked(r)' /\ OrderRight(r)'
  BY <1>1, OrderStays DEF MirrorInv, OrdersFine
<1>3. \A l \in Liquidations : LiqKnows(l)' /\ LiqLocked(l)' /\ LiqRight(l)'
  BY <1>1, LiqStays DEF MirrorInv, LiqsFine
<1> QED BY <1>2, <1>3 DEF MirrorInv, OrdersFine, LiqsFine

\* A step that does nothing to any position.
Quiet ==
  /\ cache' = cache /\ sealed' = sealed /\ landed' = landed /\ stamp' = stamp /\ owed' = owed
  /\ overtaken' = overtaken /\ suspect \subseteq suspect'

LEMMA QuietStep ==
  ASSUME MirrorInv, Quiet
  PROVE  /\ OwedTypes' /\ Kept' /\ \A k \in Keys : KeyRight(k)' /\ FreshStays(k)
<1>1. \A k \in Keys : Still(k)
  BY DEF Quiet, Still
<1>2. \A k \in Keys : KeyRight(k)' /\ FreshStays(k)
  BY <1>1, KeyStill DEF MirrorInv
<1>3. OwedTypes' /\ Kept'
  BY DEF MirrorInv, OwedTypes, Kept, Quiet
<1> QED BY <1>2, <1>3

\* And neither sends nor mines.
LEMMA QuietOthers ==
  ASSUME MirrorInv, Quiet, queue' = queue, NEW p,
         \A q \in Orders \ {p} : req'[q] = req[q], \A q \in Liquidations \ {p} : liq'[q] = liq[q],
         \A k \in Keys : locks[k] \notin {p, Free} => locks'[k] = locks[k]
  PROVE  Others(p) /\ QueueRight'
<1>1. \A k \in Keys : FreshStays(k)
  BY QuietStep
<1>2. \A q \in Procs : owed'[q] = owed[q]
  BY DEF Quiet
<1>3. \A q \in Procs : (InQueue(q)' => InQueue(q)) /\ QueuedKeys(q)' \subseteq QueuedKeys(q)
  BY SameQueue
<1>4. QueueRight'
  BY <1>2, SentStays DEF MirrorInv, Quiet
<1> QED BY <1>1, <1>2, <1>3, <1>4 DEF Others

-----------------------------------------------------------------------------
(* The mirror: the steps of an order, up to the fold *)

LEMMA OrderRests ==
  ASSUME NEW r,
         req'[r].pc \in {"rejected", "unfilled", "confirmed", "unsettled", "dropped", "sent", "failed"}
  PROVE  OrderKnows(r)' /\ OrderLocked(r)' /\ OrderRight(r)'
BY DEF OrderKnows, OrderLocked, OrderRight, OrderFits

LEMMA BuildingAgain ==
  ASSUME NEW o, NEW u, NEW W, Building(o, W), o.pc # "leg", u.pc # "leg",
         u.taker = o.taker, u.market = o.market, u.legs = o.legs, u.delta = o.delta
  PROVE  Building(u, W)
<1>1. TakerKey(u) = TakerKey(o)
  BY DEF TakerKey
<1>2. \A k : ~AtLeg(o, k) /\ ~AtLeg(u, k)
  BY DEF AtLeg
<1>3. ASSUME NEW k \in Keys, NEW w, BuildingOn(o, w, k) PROVE BuildingOn(u, w, k)
  BY <1>1, <1>2, <1>3 DEF BuildingOn
<1> QED BY <1>3 DEF Building

LEMMA MirrorTypes ==
  ASSUME MirrorInv
  PROVE  /\ LockInv /\ Types /\ faults \in Nat /\ faults <= MaxFaults /\ OwedTypes /\ QueueRight /\ Kept
         /\ \A r \in Orders : OrderOK(req[r]) /\ OrderKnows(r) /\ OrderLocked(r) /\ OrderRight(r) /\ r \in Procs
         /\ \A l \in Liquidations : LiqOK(liq[l]) /\ LiqKnows(l) /\ LiqLocked(l) /\ LiqRight(l) /\ l \in Procs
         /\ \A k \in Keys : KeyRight(k) /\ sealed[k] \in SealedRecords /\ stamp[k] \in Nat
                            /\ cache[k] \in Positions \cup {None} /\ sealed[k].coll \in Int
<1>1. /\ LockInv /\ Types /\ OwedTypes /\ QueueRight /\ Kept /\ faults <= MaxFaults
      /\ \A r \in Orders : OrderKnows(r) /\ OrderLocked(r) /\ OrderRight(r)
      /\ \A l \in Liquidations : LiqKnows(l) /\ LiqLocked(l) /\ LiqRight(l)
      /\ \A k \in Keys : KeyRight(k)
  BY DEF MirrorInv, LockInv, OrdersFine, LiqsFine
<1>2. /\ faults \in Nat /\ \A r \in Orders : OrderOK(req[r]) /\ r \in Procs
      /\ \A l \in Liquidations : LiqOK(liq[l]) /\ l \in Procs
  BY <1>1 DEF Types, Wires, OrderTypes, LiqTypes, Procs
<1>3. \A k \in Keys : sealed[k] \in SealedRecords /\ stamp[k] \in Nat /\ cache[k] \in Positions \cup {None}
  BY <1>1 DEF Types, Store, SealedMaps
<1>4. \A k \in Keys : sealed[k].coll \in Int
  BY <1>3, SealedFields
<1> QED BY <1>1, <1>2, <1>3, <1>4

LEMMA CheckMirror ==
  ASSUME MirrorInv, LockInv', NEW r \in Orders, Check(r)
  PROVE  MirrorInv'
<1>1. /\ req'[r].pc \in {"match", "rejected"} /\ \A q \in Orders \ {r} : req'[q] = req[q]
  BY MirrorTypes, CheckTypes
<1>2. Quiet /\ queue' = queue /\ liq' = liq /\ locks' = locks /\ faults' = faults /\ owed' = owed
  BY DEF Check, Quiet, history
<1>3. Others(r) /\ QueueRight'
  BY <1>1, <1>2, QuietOthers
<1>4. OwedTypes' /\ Kept' /\ \A k \in Keys : KeyRight(k)'
  BY <1>2, QuietStep
<1>5. OrderKnows(r)' /\ OrderLocked(r)'
  BY <1>1 DEF OrderKnows, OrderLocked
<1>6. OrderRight(r)'
  <2>1. req[r].pc = "idle"
    BY DEF Check, Idle
  <2>2. owed[r] = NoOwed /\ ~InQueue(r)
    BY <2>1, MirrorTypes DEF OrderRight, OrderFits
  <2>3. InQueue(r)' = InQueue(r)
    BY <1>2, SameQueue
  <2> QED BY <1>1, <1>2, <2>2, <2>3 DEF OrderRight, OrderFits
<1> QED BY <1>2, <1>3, <1>4, <1>5, <1>6, MirrorTypes, OrderMirror

LEMMA MatchMirror ==
  ASSUME MirrorInv, LockInv', NEW r \in Orders, Match(r)
  PROVE  MirrorInv'
<1>1. /\ req'[r].pc \in {"lock", "unfilled"} /\ \A q \in Orders \ {r} : req'[q] = req[q]
  BY MirrorTypes, MatchTypes
<1>2. Quiet /\ queue' = queue /\ liq' = liq /\ locks' = locks /\ faults' = faults /\ owed' = owed
  BY DEF Match, Quiet, history
<1>3. Others(r) /\ QueueRight'
  BY <1>1, <1>2, QuietOthers
<1>4. OwedTypes' /\ Kept' /\ \A k \in Keys : KeyRight(k)'
  BY <1>2, QuietStep
<1>5. OrderKnows(r)' /\ OrderLocked(r)'
  BY <1>1 DEF OrderKnows, OrderLocked
<1>6. OrderRight(r)'
  <2>1. req[r].pc = "match"
    BY DEF Match
  <2>2. owed'[r] = NoOwed /\ ~InQueue(r)'
    BY <1>2, <2>1, SameQueue, MirrorTypes DEF OrderRight, OrderFits
  <2>3. CASE req'[r].pc = "unfilled"
    BY <2>3, OrderRests
  <2>4. CASE req'[r].pc = "lock"
    <3>1. PICK o : o = req'[r]
      OBVIOUS
    <3>2. PICK s \in Sweeps(req[r]), f \in FundingIndexes :
        req' = [req EXCEPT ![r] = IF s = <<>> THEN [pc |-> "unfilled"] ELSE
          [pc |-> "lock", role |-> "maker", i |-> 1, fills |-> s, legs |-> <<>>, delta |-> 0,
           tier |-> volume[req[r].taker], funding |-> f, locked |-> 0, got |-> None,
           taker |-> req[r].taker, market |-> req[r].market, buy |-> req[r].buy, tick |-> req[r].tick,
           qty |-> req[r].qty, lev |-> req[r].lev]]
      BY DEF Match
    <3>3. req = [q \in Orders |-> req[q]]
      BY MirrorTypes DEF Types, OrderTypes
    <3>4. /\ o.pc = "lock" /\ o.legs = <<>> /\ o.delta = 0 /\ o.fills = s /\ o.taker = req[r].taker
      BY <2>4, <3>1, <3>2, <3>3
    <3>5. OtherMakers(o)
      <4>1. \A i \in DOMAIN s : s[i].maker # req[r].taker
        BY <3>2 DEF Sweeps
      <4> QED BY <3>4, <4>1 DEF OtherMakers
    <3>6. Building(o, NoOwed)
      <4>1. KeysOf(o.legs) = {}
        BY <3>4 DEF KeysOf
      <4>2. \A k \in Keys : NoOwed[k] = Nothing /\ ~AtLeg(o, k)
        BY <3>4 DEF NoOwed, AtLeg
      <4>3. \A k \in Keys : BuildingOn(o, Nothing, k)
        BY <3>4, <4>1, <4>2, NothingOwed DEF BuildingOn
      <4> QED BY <4>2, <4>3 DEF Building
    <3> QED BY <2>2, <3>1, <3>4, <3>5, <3>6 DEF OrderRight, OrderFits
  <2> QED BY <1>1, <2>3, <2>4
<1> QED BY <1>2, <1>3, <1>4, <1>5, <1>6, MirrorTypes, OrderMirror

LEMMA LockMirror ==
  ASSUME MirrorInv, LockInv', NEW r \in Orders, Lock(r)
  PROVE  MirrorInv'
<1>a. PICK k, o, u : k = KeyOf(req[r]) /\ o = req[r] /\ u = req'[r]
  OBVIOUS
<1>1. /\ req'[r].pc \in {"read", "fold"} /\ \A q \in Orders \ {r} : req'[q] = req[q]
      /\ k \in Keys /\ KeyOf(req'[r]) = k /\ locks' = [locks EXCEPT ![k] = r] /\ locks[k] = Free
  BY <1>a, MirrorTypes, LockTypes
<1>2. Quiet /\ queue' = queue /\ liq' = liq /\ faults' = faults /\ owed' = owed
  BY DEF Lock, Quiet, history
<1>3. Others(r) /\ QueueRight'
  <2>1. \A x \in Keys : locks[x] \notin {r, Free} => locks'[x] = locks[x]
    BY <1>1, MirrorTypes DEF Types, Wires
  <2> QED BY <1>1, <1>2, <2>1, QuietOthers
<1>4. OwedTypes' /\ Kept' /\ \A x \in Keys : KeyRight(x)' /\ FreshStays(x)
  BY <1>2, QuietStep
<1>5. /\ u = [o EXCEPT !.pc = IF cache[k] = None THEN "read" ELSE "fold", !.got = cache[k]]
      /\ Filling(o) /\ o.pc = "lock"
  <2>1. req = [q \in Orders |-> req[q]]
    BY MirrorTypes DEF Types, OrderTypes
  <2>2. Filling(o) /\ o.pc = "lock"
    BY <1>a, MirrorTypes, FillingByPc DEF Lock
  <2> QED BY <1>a, <2>1, <2>2 DEF Lock
<1>6. /\ u.taker = o.taker /\ u.market = o.market /\ u.legs = o.legs /\ u.delta = o.delta /\ u.fills = o.fills
      /\ u.got = cache[k] /\ (u.pc = "fold" => cache[k] # None) /\ u.pc \in {"read", "fold"}
  BY <1>5 DEF Filling
<1>7. OrderLocked(r)'
  <2>1. locks'[k] = r
    BY <1>1, MirrorTypes DEF Types, Wires
  <2> QED BY <1>1, <2>1 DEF OrderLocked, KeyOf
<1>8. OrderKnows(r)'
  <2>1. SUFFICES ASSUME u.pc = "fold" PROVE Fresh(k, u.got)'
    BY <1>1, <1>a DEF OrderKnows, KeyOf
  <2>2. PICK g : g = u.got
    OBVIOUS
  <2>3. Fresh(k, g)
    <3>1. KeyRight(k) /\ g = cache[k] /\ cache[k] # None
      BY <1>1, <1>6, <2>1, <2>2, MirrorTypes
    <3> QED BY <3>1, KeyCached DEF KeyRight, Fresh
  <2>4. Fresh(k, g)'
    BY <1>1, <1>4, <2>3 DEF FreshStays
  <2> QED BY <2>2, <2>4
<1>9. OrderRight(r)'
  <2>1. PICK W : W = owed[r]
    OBVIOUS
  <2>2. Building(o, W) /\ OtherMakers(o) /\ ~InQueue(r)
    BY <1>a, <1>5, <2>1, MirrorTypes DEF OrderRight, OrderFits
  <2>3. Building(u, W) /\ OtherMakers(u)
    <3>1. o.pc # "leg" /\ u.pc # "leg"
      BY <1>5, <1>6
    <3>2. Building(u, W)
      BY <1>6, <2>2, <3>1, BuildingAgain
    <3> QED BY <1>6, <2>2, <3>2 DEF OtherMakers
  <2>4. ~InQueue(r)'
    BY <1>2, <2>2, SameQueue
  <2>5. OrderFits(u, W, InQueue(r)')
    BY <1>6, <2>3, <2>4 DEF OrderFits
  <2> QED BY <1>a, <1>2, <2>1, <2>5 DEF OrderRight
<1> QED BY <1>2, <1>3, <1>4, <1>7, <1>8, <1>9, MirrorTypes, OrderMirror

\* The chain answers for a key that nothing is in flight for.
LEMMA ChainIsFresh ==
  ASSUME NEW k, KeyRight(k), k \notin suspect, k \notin overtaken, sealed[k] \in SealedRecords,
         \A p \in Procs : owed[p][k] = Nothing
  PROVE  /\ landed[k].size = SizeIn(sealed[k].params)
         /\ Fresh(k, loadSealed(sealed[k]))
         /\ cache[k] \in Positions => cache[k] = loadSealed(sealed[k])
<1>1. PICK O, late, L, S, c, rec : /\ O = OwedAt(k) /\ late = (k \in overtaken) /\ L = landed[k]
                                   /\ S = stamp[k] /\ c = cache[k] /\ rec = sealed[k]
  OBVIOUS
<1>2. ~late /\ (\A p \in Procs : O[p] = Nothing) /\ rec \in SealedRecords
  BY <1>1 DEF OwedAt
<1>3. Stamps(O, L, S) /\ KeyInv(O, L, S, c, rec, late)
  BY <1>1 DEF KeyRight
<1>4. /\ L.size = SizeIn(rec.params)
      /\ Knows(O, L, rec, loadSealed(rec))
      /\ c \in Positions => c = loadSealed(rec)
  BY <1>2, <1>3, KeyRead
<1> QED BY <1>1, <1>4 DEF Fresh

LEMMA ReadMirror ==
  ASSUME MirrorInv, LockInv', NEW r \in Orders, ReadChain(r)
  PROVE  MirrorInv'
<1>a. PICK k, o, u : k = KeyOf(req[r]) /\ o = req[r] /\ u = req'[r]
  OBVIOUS
<1>1. /\ o.pc = "read" /\ u.pc = "fold" /\ \A q \in Orders \ {r} : req'[q] = req[q]
      /\ KeyOf(u) = k
  BY <1>a, MirrorTypes, ReadTypes DEF KeyOf
<1>2. /\ Filling(o) /\ k \in Keys
  BY <1>a, <1>1, MirrorTypes, FillingByPc, KeyOfFilling
<1>3. /\ Quiet /\ queue' = queue /\ liq' = liq /\ owed' = owed /\ locks' = locks
      /\ faults' <= MaxFaults
  BY MirrorTypes, ConstantsAssumption DEF ReadChain, Quiet
<1>4. Others(r) /\ QueueRight'
  BY <1>1, <1>3, QuietOthers
<1>5. OwedTypes' /\ Kept' /\ \A x \in Keys : KeyRight(x)' /\ FreshStays(x)
  BY <1>3, QuietStep
<1>6. \E g : /\ u = [o EXCEPT !.pc = "fold", !.got = g]
             /\ k \in suspect' \/ (g = loadSealed(sealed[k]) /\ ~Behind(k))
  <2>1. req = [q \in Orders |-> req[q]]
    BY MirrorTypes DEF Types, OrderTypes
  <2>2. CASE /\ req' = [req EXCEPT ![r].pc = "fold", ![r].got = loadSealed(sealed[k])]
             /\ suspect' = IF Behind(k) THEN suspect \cup {k} ELSE suspect
    <3>1. PICK g : g = loadSealed(sealed[k])
      OBVIOUS
    <3>2. req' = [req EXCEPT ![r].pc = "fold", ![r].got = g]
      BY <2>2, <3>1
    <3>3. u = [o EXCEPT !.pc = "fold", !.got = g]
      BY <1>a, <2>1, <3>2
    <3> QED BY <2>2, <3>1, <3>3
  <2>3. CASE req' = [req EXCEPT ![r].pc = "fold", ![r].got = None] /\ suspect' = suspect \cup {k}
    BY <1>a, <2>1, <2>3
  <2> QED BY <1>a, <2>2, <2>3 DEF ReadChain
<1>7. PICK g : /\ u = [o EXCEPT !.pc = "fold", !.got = g]
               /\ k \in suspect' \/ (g = loadSealed(sealed[k]) /\ ~Behind(k))
  BY <1>6
<1>8. /\ u.taker = o.taker /\ u.market = o.market /\ u.legs = o.legs /\ u.delta = o.delta /\ u.fills = o.fills
      /\ u.got = g
  BY <1>2, <1>7 DEF Filling
<1>9. OrderLocked(r)'
  <2>1. locks[k] = r
    BY <1>a, <1>1, MirrorTypes DEF OrderLocked
  <2> QED BY <1>a, <1>1, <1>3, <2>1 DEF OrderLocked, KeyOf
<1>10. OrderKnows(r)'
  <2>1. Fresh(k, g)'
    <3>1. CASE k \in suspect'
      BY <3>1 DEF Fresh
    <3>2. CASE k \notin suspect'
      <4>1. g = loadSealed(sealed[k]) /\ ~Behind(k) /\ k \notin suspect
        BY <1>3, <1>7, <3>2 DEF Quiet
      <4>2. k \notin overtaken /\ \A p \in Procs : owed[p][k] = Nothing
        BY <4>1 DEF Behind
      <4>3. KeyRight(k) /\ sealed[k] \in SealedRecords
        BY <1>2, MirrorTypes
      <4>5. Fresh(k, loadSealed(sealed[k]))
        BY <4>1, <4>2, <4>3, ChainIsFresh
      <4>6. Fresh(k, g)
        BY <4>1, <4>5
      <4> QED BY <1>2, <1>5, <4>6 DEF FreshStays
    <3> QED BY <3>1, <3>2
  <2> QED BY <1>a, <1>1, <1>8, <2>1 DEF OrderKnows, KeyOf
<1>11. OrderRight(r)'
  <2>1. PICK W : W = owed[r]
    OBVIOUS
  <2>2. Building(o, W) /\ OtherMakers(o) /\ ~InQueue(r)
    BY <1>a, <1>1, <2>1, MirrorTypes DEF OrderRight, OrderFits
  <2>3. Building(u, W) /\ OtherMakers(u)
    <3>1. o.pc # "leg" /\ u.pc # "leg"
      BY <1>1
    <3>2. Building(u, W)
      BY <1>8, <2>2, <3>1, BuildingAgain
    <3> QED BY <1>8, <2>2, <3>2 DEF OtherMakers
  <2>4. ~InQueue(r)'
    BY <1>3, <2>2, SameQueue
  <2>5. OrderFits(u, W, InQueue(r)')
    BY <1>1, <2>3, <2>4 DEF OrderFits
  <2> QED BY <1>a, <1>3, <2>1, <2>5 DEF OrderRight
<1> QED BY <1>3, <1>4, <1>5, <1>9, <1>10, <1>11, MirrorTypes, OrderMirror

\* A transaction is sent, with what its owner owes.
LEMMA QueueGrows ==
  ASSUME LockInv, QueueRight, owed' = owed, NEW tx, queue' = Append(queue, tx), TxRight(tx),
         \A k \in KeysOf(tx.legs) : k \notin QueuedKeys(tx.owner)
  PROVE  QueueRight'
<1> DEFINE n == Len(queue)
<1>1. queue \in Seq(Txs)
  BY DEF LockInv, Types, Wires
<1>2. n \in Nat /\ DOMAIN queue = 1..n /\ DOMAIN queue' = 1..n + 1 /\ queue'[n + 1] = tx
      /\ \A i \in 1..n : queue'[i] = queue[i]
  BY <1>1
<1> HIDE DEF n
<1>3. \A i \in 1..n + 1 : i \in 1..n \/ i = n + 1
  BY <1>2
<1>4. ASSUME NEW u, TxRight(u) PROVE TxRight(u)'
  BY <1>4 DEF TxRight
<1>5. ASSUME NEW i \in DOMAIN queue' PROVE TxRight(queue[i])'
  <2>1. PICK u : u = queue'[i]
    OBVIOUS
  <2>2. TxRight(u)
    <3>1. \A j \in 1..n : TxRight(queue[j])
      BY <1>2 DEF QueueRight
    <3>2. CASE i \in 1..n
      <4>1. u = queue[i]
        BY <1>2, <2>1, <3>2
      <4> QED BY <3>1, <3>2, <4>1
    <3>3. CASE i = n + 1
      BY <1>2, <2>1, <3>3
    <3> QED BY <1>2, <1>3, <3>2, <3>3
  <2>3. TxRight(u)'
    BY <1>4, <2>2
  <2> QED BY <2>1, <2>3
<1>6. ASSUME NEW i \in DOMAIN queue', NEW j \in DOMAIN queue', i # j, queue'[i].owner = queue'[j].owner,
             NEW k \in KeysOf(queue'[i].legs)
      PROVE  k \notin KeysOf(queue'[j].legs)
  <2>1. \A x \in 1..n : queue[x].owner = tx.owner => ~(k \in KeysOf(queue[x].legs) /\ k \in KeysOf(tx.legs))
    BY <1>2, QueuedIs
  <2>2. CASE i \in 1..n /\ j \in 1..n
    <3>1. queue'[i] = queue[i] /\ queue'[j] = queue[j] /\ i \in DOMAIN queue /\ j \in DOMAIN queue
      BY <1>2, <2>2
    <3> QED BY <1>6, <3>1 DEF QueueRight
  <2>3. CASE i \in 1..n /\ j = n + 1
    <3>1. queue'[i] = queue[i] /\ queue'[j] = tx
      BY <1>2, <2>3
    <3> QED BY <1>6, <2>1, <2>3, <3>1
  <2>4. CASE i = n + 1 /\ j \in 1..n
    <3>1. queue'[i] = tx /\ queue'[j] = queue[j]
      BY <1>2, <2>4
    <3> QED BY <1>6, <2>1, <2>4, <3>1
  <2> QED BY <1>2, <1>3, <1>6, <2>2, <2>3, <2>4
<1> QED BY <1>5, <1>6 DEF QueueRight

LEMMA OthersQueue ==
  ASSUME queue \in Seq(Txs), NEW tx, queue' = Append(queue, tx), NEW q, tx.owner # q
  PROVE  (InQueue(q)' => InQueue(q)) /\ QueuedKeys(q)' \subseteq QueuedKeys(q)
<1> DEFINE n == Len(queue)
<1>2. n \in Nat /\ DOMAIN queue = 1..n /\ DOMAIN queue' = 1..n + 1 /\ queue'[n + 1] = tx
      /\ \A i \in 1..n : queue'[i] = queue[i]
  OBVIOUS
<1> HIDE DEF n
<1>3. \A i \in DOMAIN queue' : queue'[i].owner = q => i \in DOMAIN queue /\ queue'[i] = queue[i]
  BY <1>2
<1>4. InQueue(q)' => InQueue(q)
  BY <1>3 DEF InQueue
<1>5. QueuedKeys(q)' \subseteq QueuedKeys(q)
  <2> SUFFICES ASSUME NEW k \in QueuedKeys(q)' PROVE k \in QueuedKeys(q)
    OBVIOUS
  <2>1. PICK i \in DOMAIN queue' : queue'[i].owner = q /\ k \in KeysIn(queue[i])'
    BY DEF QueuedKeys
  <2>2. PICK u : u = queue'[i]
    OBVIOUS
  <2>3. k \in KeysIn(u)
    BY <2>1, <2>2 DEF KeysIn
  <2>4. i \in DOMAIN queue /\ u = queue[i] /\ queue[i].owner = q
    BY <1>3, <2>1, <2>2
  <2> QED BY <2>3, <2>4 DEF QueuedKeys
<1> QED BY <1>4, <1>5

\* A quiet step that may send.
LEMMA SendOthers ==
  ASSUME MirrorInv, Quiet, NEW p \in Procs, NEW tx, tx.owner = p,
         \/ queue' = queue
         \/ /\ queue' = Append(queue, tx) /\ TxRight(tx)
            /\ \A k \in KeysOf(tx.legs) : k \notin QueuedKeys(p),
         \A q \in Orders \ {p} : req'[q] = req[q], \A q \in Liquidations \ {p} : liq'[q] = liq[q],
         locks' = locks
  PROVE  Others(p) /\ QueueRight'
<1>1. CASE queue' = queue
  BY <1>1, QuietOthers
<1>2. CASE /\ queue' = Append(queue, tx) /\ TxRight(tx)
           /\ \A k \in KeysOf(tx.legs) : k \notin QueuedKeys(p)
  <2>1. queue \in Seq(Txs)
    BY MirrorTypes DEF Types, Wires
  <2>2. \A q \in Procs \ {p} : (InQueue(q)' => InQueue(q)) /\ QueuedKeys(q)' \subseteq QueuedKeys(q)
    BY <1>2, <2>1, OthersQueue
  <2>3. \A k \in Keys : FreshStays(k)
    BY QuietStep
  <2>4. \A q \in Procs : owed'[q] = owed[q]
    BY DEF Quiet
  <2>5. QueueRight'
    BY <1>2, QueueGrows, MirrorTypes DEF Quiet
  <2> QED BY <2>2, <2>3, <2>4, <2>5 DEF Others
<1> QED BY <1>1, <1>2

LEMMA SendSweepMirror ==
  ASSUME MirrorInv, LockInv', NEW r \in Orders, SendSweep(r)
  PROVE  MirrorInv'
<1>1. /\ req[r].pc = "queued" /\ req'[r].pc \in {"sent", "failed"} /\ \A q \in Orders \ {r} : req'[q] = req[q]
      /\ queue' = Append(queue, SweepTx(r)) \/ queue' = queue
  BY MirrorTypes, SendSweepTypes
<1>2. Quiet /\ liq' = liq /\ locks' = locks /\ faults' <= MaxFaults
  BY MirrorTypes, ConstantsAssumption DEF SendSweep, Quiet, history, Sent, Refused
<1>3. Others(r) /\ QueueRight'
  <2>1. PICK tx : tx = SweepTx(r)
    OBVIOUS
  <2>2. tx.owner = r /\ tx.kind = "sweep" /\ tx.legs = req[r].legs
    BY <2>1 DEF SweepTx
  <2>3. OrderFits(req[r], owed[r], InQueue(r)) /\ r \in Procs
    BY MirrorTypes DEF OrderRight
  <2>4. TxRight(tx)
    BY <1>1, <2>2, <2>3 DEF OrderFits, TxRight
  <2>5. \A k \in KeysOf(tx.legs) : k \notin QueuedKeys(r)
    BY <1>1, <2>3, QueuedIs DEF OrderFits
  <2> QED BY <1>1, <1>2, <2>1, <2>2, <2>3, <2>4, <2>5, SendOthers
<1>4. OwedTypes' /\ Kept' /\ \A k \in Keys : KeyRight(k)'
  BY <1>2, QuietStep
<1>5. OrderKnows(r)' /\ OrderLocked(r)' /\ OrderRight(r)'
  BY <1>1, OrderRests
<1> QED BY <1>2, <1>3, <1>4, <1>5, OrderMirror

LEMMA ConfirmSweepMirror ==
  ASSUME MirrorInv, LockInv', NEW r \in Orders, ConfirmSweep(r)
  PROVE  MirrorInv'
<1>1. /\ req'[r].pc \in {"confirmed", "failed"} /\ \A q \in Orders \ {r} : req'[q] = req[q]
  BY MirrorTypes, ConfirmSweepTypes
<1>2. Quiet /\ liq' = liq /\ locks' = locks /\ queue' = queue /\ faults' <= MaxFaults
  BY MirrorTypes, ConstantsAssumption DEF ConfirmSweep, Quiet, history, Receipt, ReceiptLost
<1>3. Others(r) /\ QueueRight'
  BY <1>1, <1>2, QuietOthers
<1>4. OwedTypes' /\ Kept' /\ \A k \in Keys : KeyRight(k)'
  BY <1>2, QuietStep
<1>5. OrderKnows(r)' /\ OrderLocked(r)' /\ OrderRight(r)'
  BY <1>1, OrderRests
<1> QED BY <1>2, <1>3, <1>4, <1>5, OrderMirror

-----------------------------------------------------------------------------
(* The mirror: what is lost *)

LEMMA StampsLose ==
  ASSUME NEW O, NEW L, NEW S, Stamps(O, L, S), NEW Q \in Owings, \A p \in Procs : Q[p] = O[p] \/ Q[p] = Nothing
  PROVE  Stamps(Q, L, S)
<1>1. /\ S \in Nat
      /\ \A q \in Procs : /\ O[q].stamp <= S /\ O[q].leg <= S
                          /\ O[q].leg # 0 => O[q].stamp <= O[q].leg
                          /\ O[q].stamp = 0 => O[q] = Nothing
  BY StampsFields
<1>2. L \in Landings /\ L.stamp <= S
  BY DEF Stamps
<1> QED BY <1>1, <1>2, NothingOwed DEF Stamps

\* What a transaction of p carries has its leg.
LEMMA QueuedCarries ==
  ASSUME MirrorInv, NEW p, NEW k \in QueuedKeys(p)
  PROVE  /\ owed[p][k] # Nothing /\ owed[p][k].leg # 0 /\ ~Pends(owed[p][k])
         /\ \E i \in DOMAIN queue : \E j \in DOMAIN queue[i].legs :
              queue[i].legs[j].key = k /\ queue[i].legs[j].stamp = owed[p][k].leg
<1>1. PICK i \in DOMAIN queue : queue[i].owner = p /\ k \in KeysOf(queue[i].legs)
  BY QueuedIs
<1>2. Carries(owed[p][k], queue[i].legs, k)
  BY <1>1 DEF MirrorInv, QueueRight, TxRight
<1>3. queue[i].legs \in Seq(Legs)
  <2>1. queue[i] \in Txs
    BY MirrorTypes DEF Types, Wires
  <2> QED BY <2>1 DEF Txs
<1> QED BY <1>2, <1>3 DEF Carries, Newest, Pends

\* One key of a process that loses: it is unchanged, it leaves the cache with
\* what was owed on it, or it is marked.
LEMMA KeyLost ==
  ASSUME MirrorInv, NEW k \in Keys, NEW p \in Procs, OwedTypes',
         \A q \in Procs \ {p} : owed'[q][k] = owed[q][k],
         owed'[p][k] = owed[p][k] \/ owed'[p][k] = Nothing,
         sealed'[k] = sealed[k], landed'[k] = landed[k], stamp'[k] = stamp[k],
         (k \in overtaken) = (k \in overtaken'), k \in suspect => k \in suspect',
         k \notin suspect' =>
           \/ cache'[k] = cache[k] /\ owed'[p][k] = owed[p][k]
           \/ /\ cache'[k] = None /\ \A q \in Procs \ {p} : owed[q][k] = Nothing
              /\ \/ owed'[p][k] = owed[p][k] /\ ~Pends(owed[p][k])
                 \/ owed'[p][k] = Nothing /\ landed[k].stamp < owed[p][k].stamp
  PROVE  /\ KeyRight(k)'
         /\ k \in suspect' \/ owed'[p][k] = owed[p][k] => FreshStays(k)
<1>1. PICK O, Q, L, S, c, rec, late :
        /\ O = OwedAt(k) /\ late = (k \in overtaken) /\ L = landed[k]
        /\ S = stamp[k] /\ c = cache[k] /\ rec = sealed[k] /\ Q = OwedAt(k)'
  OBVIOUS
<1>2. Q \in Owings
  BY <1>1 DEF OwedTypes, OwedAt, Owings
<1>3. /\ \A q \in Procs : O[q] = owed[q][k] /\ Q[q] = owed'[q][k] /\ (Q[q] = O[q] \/ Q[q] = Nothing)
      /\ \A q \in Procs \ {p} : Q[q] = O[q]
  BY <1>1 DEF OwedAt
<1>4. Stamps(O, L, S) /\ (k \in suspect \/ KeyInv(O, L, S, c, rec, late))
  BY <1>1, MirrorTypes DEF KeyRight
<1>5. Stamps(Q, L, S)
  BY <1>2, <1>3, <1>4, StampsLose
<1>6. ASSUME k \notin suspect', cache'[k] # cache[k] \/ owed'[p][k] # owed[p][k]
      PROVE  cache'[k] = None /\ KeyInv(Q, L, S, None, rec, late)
  <2>1. /\ cache'[k] = None /\ \A q \in Procs \ {p} : O[q] = Nothing
        /\ \/ Q[p] = O[p] /\ ~Pends(O[p])
           \/ Q[p] = Nothing /\ L.stamp < O[p].stamp
    BY <1>1, <1>3, <1>6
  <2>2. \A q \in Procs \ {p} : Q[q] = Nothing /\ O[q] = Nothing
    BY <1>3, <2>1
  <2>3. \A q \in Procs : ~Pends(Q[q])
    BY <2>1, <2>2 DEF Pends
  <2>4. \A q \in Procs : Q[q] # O[q] => q = p /\ Q[p] = Nothing /\ L.stamp < O[p].stamp
    BY <1>3, <2>1
  <2>5. \A q, s \in Procs : Q[q] # O[q] /\ Q[s].leg # 0 => FALSE
    BY <2>2, <2>4, NothingOwed
  <2>6. L.stamp \in Nat /\ \A q \in Procs : O[q].stamp \in Nat
    BY <1>4, StampsFields
  <2>7. /\ \A q \in Procs : Q[q] # O[q] => O[q].stamp > L.stamp
        /\ \A q, s \in Procs : Q[q] # O[q] /\ Q[s].leg # 0 => O[q].stamp > Q[s].leg
    BY <2>4, <2>5, <2>6
  <2>8. KeyInv(O, L, S, c, rec, late)
    BY <1>4, <1>6
  <2>9. KeyInv(Q, L, S, None, rec, late)
    BY <1>2, <1>3, <1>4, <2>3, <2>7, <2>8, KeyLose
  <2> QED BY <2>1, <2>9
<1>7. KeyRight(k)'
  <2>1. ASSUME k \notin suspect' PROVE KeyInv(Q, L, S, cache'[k], rec, late)
    <3>1. CASE cache'[k] = cache[k] /\ owed'[p][k] = owed[p][k]
      <4>1. Q = O
        BY <1>1, <1>3, <3>1 DEF OwedAt
      <4> QED BY <1>1, <1>4, <2>1, <3>1, <4>1
    <3> QED BY <1>6, <2>1, <3>1
  <2>2. PICK d : d = cache'[k]
    OBVIOUS
  <2>3. k \notin suspect' => KeyInv(Q, L, S, d, rec, late)
    BY <2>1, <2>2
  <2>4. late = (k \in overtaken')
    BY <1>1
  <2> QED BY <1>1, <1>5, <2>2, <2>3, <2>4 DEF KeyRight
<1>8. CASE k \in suspect'
  BY <1>7, <1>8 DEF FreshStays, Fresh
<1>9. CASE owed'[p][k] = owed[p][k]
  <2>1. OwedAt(k)' = OwedAt(k)
    BY <1>3, <1>9 DEF OwedAt
  <2>2. ASSUME NEW g, Fresh(k, g) PROVE Fresh(k, g)'
    BY <2>1, <2>2 DEF Fresh
  <2> QED BY <1>7, <2>2 DEF FreshStays
<1> QED BY <1>7, <1>8, <1>9

\* Lose, with the eviction that goes with it: what is lost and not marked was
\* evicted, and nobody else has the lock, owes on it, or published since.
Loses(p, keys, built, evicted) ==
  /\ keys \subseteq Keys /\ Lose(p, keys, built, evicted)
  /\ sealed' = sealed /\ landed' = landed /\ stamp' = stamp /\ overtaken' = overtaken /\ queue' = queue
  /\ \A k \in Keys : cache'[k] = cache[k] \/ (k \in keys \cap evicted /\ cache'[k] = None)
  /\ \A k \in keys \ built : /\ ~BuiltOn(p, k) /\ k \in evicted /\ cache'[k] = None
                             /\ locks[k] \in {p, Free}
LosesWell(p) ==
  /\ OwedTypes' /\ QueueRight' /\ Kept' /\ \A k \in Keys : KeyRight(k)'
  /\ \A q \in Procs \ {p} : owed'[q] = owed[q]
  /\ \A k \in Keys : locks[k] \notin {p, Free} => FreshStays(k)

LEMMA LoseStep ==
  ASSUME MirrorInv, NEW p \in Procs, NEW keys, NEW built, NEW evicted, Loses(p, keys, built, evicted)
  PROVE  LosesWell(p)
<1>0. /\ keys \subseteq Keys /\ Lose(p, keys, built, evicted)
      /\ sealed' = sealed /\ landed' = landed /\ stamp' = stamp /\ overtaken' = overtaken /\ queue' = queue
      /\ \A k \in Keys : cache'[k] = cache[k] \/ (k \in keys \cap evicted /\ cache'[k] = None)
      /\ \A k \in keys \ built : /\ ~BuiltOn(p, k) /\ k \in evicted /\ cache'[k] = None
                                 /\ locks[k] \in {p, Free}
  BY DEF Loses
<1> DEFINE lost == (keys \cap Touched(p)) \ QueuedKeys(p)
<1>1. /\ owed' = [owed EXCEPT ![p] = [k \in Keys |-> IF k \in lost THEN Nothing ELSE @[k]]]
      /\ suspect' = suspect \cup (lost \cap built) \cup {k \in evicted : OthersOwe(p, k)}
  BY <1>0 DEF Lose
<1>2. owed \in [Procs -> [Keys -> OwedRecords]] /\ landed \in [Keys -> Landings]
  BY MirrorTypes DEF OwedTypes
<1>3. /\ \A q \in Procs \ {p} : owed'[q] = owed[q]
      /\ \A k \in Keys : owed'[p][k] = IF k \in lost THEN Nothing ELSE owed[p][k]
  <2> HIDE DEF lost
  <2> QED BY <1>1, <1>2
<1>4. OwedTypes'
  <2> HIDE DEF lost
  <2>1. [k \in Keys |-> IF k \in lost THEN Nothing ELSE owed[p][k]] \in [Keys -> OwedRecords]
    BY <1>2, NothingOwed
  <2>2. owed' = [owed EXCEPT ![p] = [k \in Keys |-> IF k \in lost THEN Nothing ELSE owed[p][k]]]
    BY <1>1
  <2>3. owed' \in [Procs -> [Keys -> OwedRecords]]
    BY <1>2, <2>1, <2>2
  <2> QED BY <1>0, <1>2, <2>3 DEF OwedTypes
<1>5. QueueRight'
  <2>1. \A k \in QueuedKeys(p) : k \in Keys
    <3> SUFFICES ASSUME NEW k \in QueuedKeys(p) PROVE k \in Keys
      OBVIOUS
    <3>1. PICK i \in DOMAIN queue : k \in KeysOf(queue[i].legs)
      BY QueuedIs
    <3>2. queue[i] \in Txs
      BY MirrorTypes DEF Types, Wires
    <3>3. queue[i].legs \in Seq(Legs)
      BY <3>2 DEF Txs
    <3>4. PICK j \in 1..Len(queue[i].legs) : queue[i].legs[j].key = k
      BY <3>1, <3>3, KeysOfIn
    <3> QED BY <3>3, <3>4, LegFields
  <2>2. \A k \in QueuedKeys(p) : owed'[p][k] = owed[p][k]
    BY <1>3, <2>1
  <2> QED BY <1>0, <1>3, <2>2, SentStays, MirrorTypes
<1>6. Kept'
  BY <1>0, MirrorTypes DEF Kept
<1>7. ASSUME NEW k \in Keys
      PROVE  KeyRight(k)' /\ (locks[k] \notin {p, Free} => FreshStays(k))
  <2>1. \A q \in Procs \ {p} : owed'[q][k] = owed[q][k]
    BY <1>3
  <2>2. owed'[p][k] = owed[p][k] \/ owed'[p][k] = Nothing
    BY <1>3
  <2>3. k \in suspect => k \in suspect'
    BY <1>1
  <2>4. k \in evicted /\ k \notin suspect' => \A q \in Procs \ {p} : owed[q][k] = Nothing
    <3>1. k \in evicted /\ k \notin suspect' => ~OthersOwe(p, k)
      BY <1>1
    <3> QED BY <3>1 DEF OthersOwe
  <2>5. k \in lost /\ k \notin suspect' => k \in keys \ built
    BY <1>1
  <2>6. k \notin lost /\ k \in keys => ~Pends(owed[p][k])
    <3>1. k \notin Touched(p) => owed[p][k] = Nothing
      BY DEF Touched
    <3> QED BY <3>1, QueuedCarries DEF Pends
  <2>7. k \notin suspect' =>
           \/ cache'[k] = cache[k] /\ owed'[p][k] = owed[p][k]
           \/ /\ cache'[k] = None /\ \A q \in Procs \ {p} : owed[q][k] = Nothing
              /\ \/ owed'[p][k] = owed[p][k] /\ ~Pends(owed[p][k])
                 \/ owed'[p][k] = Nothing /\ landed[k].stamp < owed[p][k].stamp
    <3> SUFFICES ASSUME k \notin suspect'
                 PROVE  \/ cache'[k] = cache[k] /\ owed'[p][k] = owed[p][k]
                        \/ /\ cache'[k] = None /\ \A q \in Procs \ {p} : owed[q][k] = Nothing
                           /\ \/ owed'[p][k] = owed[p][k] /\ ~Pends(owed[p][k])
                              \/ owed'[p][k] = Nothing /\ landed[k].stamp < owed[p][k].stamp
      OBVIOUS
    <3>1. CASE k \in lost
      <4>1. k \in evicted /\ cache'[k] = None /\ ~BuiltOn(p, k)
        BY <1>0, <2>5, <3>1
      <4>2. owed'[p][k] = Nothing
        BY <1>3, <3>1
      <4>3. landed[k].stamp < owed[p][k].stamp
        <5>1. ~(landed[k].stamp >= owed[p][k].stamp)
          BY <4>1 DEF BuiltOn, Published
        <5>2. landed[k] \in Landings /\ owed[p][k] \in OwedRecords
          BY <1>2
        <5>3. landed[k].stamp \in Nat /\ owed[p][k].stamp \in Nat
          BY <5>2 DEF Landings, OwedRecords
        <5> QED BY <5>1, <5>3
      <4> QED BY <2>4, <4>1, <4>2, <4>3
    <3>2. CASE k \notin lost
      <4>1. owed'[p][k] = owed[p][k]
        BY <1>3, <3>2
      <4>2. CASE cache'[k] = cache[k]
        BY <4>1, <4>2
      <4>3. CASE k \in keys \cap evicted /\ cache'[k] = None
        BY <2>4, <2>6, <3>2, <4>1, <4>3
      <4> QED BY <1>0, <4>2, <4>3
    <3> QED BY <3>1, <3>2
  <2>8. KeyRight(k)' /\ (k \in suspect' \/ owed'[p][k] = owed[p][k] => FreshStays(k))
    <3> HIDE DEF lost
    <3> QED BY <1>0, <1>4, <2>1, <2>2, <2>3, <2>7, KeyLost
  <2>9. locks[k] \notin {p, Free} => k \in suspect' \/ owed'[p][k] = owed[p][k]
    BY <1>0, <1>3, <2>5
  <2> QED BY <2>8, <2>9
<1> QED BY <1>3, <1>4, <1>5, <1>6, <1>7 DEF LosesWell

LEMMA DropOrderMirror ==
  ASSUME MirrorInv, LockInv', NEW r \in Orders, DropOrder(r)
  PROVE  MirrorInv'
<1>1. /\ req'[r].pc = "dropped" /\ \A q \in Orders \ {r} : req'[q] = req[q]
      /\ locks' = Release(r)
  BY MirrorTypes, DropOrderTypes
<1>2. /\ cache' = cache /\ sealed' = sealed /\ landed' = landed /\ stamp' = stamp /\ overtaken' = overtaken
      /\ queue' = queue /\ liq' = liq /\ Lose(r, Keys, Keys, {}) /\ faults' = faults + 1 /\ faults < MaxFaults
  BY DEF DropOrder, Dropped
<1>3. faults' <= MaxFaults /\ r \in Procs
  BY <1>2, MirrorTypes, ConstantsAssumption
<1>a. Loses(r, Keys, Keys, {})
  BY <1>2 DEF Loses
<1>4. LosesWell(r)
  BY <1>3, <1>a, LoseStep
<1>5. \A k \in Keys : locks[k] \notin {r, Free} => locks'[k] = locks[k]
  BY <1>1 DEF Release
<1>6. Others(r)
  BY <1>1, <1>2, <1>4, <1>5, SameQueue DEF Others, LosesWell
<1> QED BY <1>1, <1>3, <1>4, <1>6, OrderRests, OrderMirror DEF LosesWell

LEMMA InvalidateMirror ==
  ASSUME MirrorInv, LockInv', NEW r \in Orders, InvalidateSweep(r)
  PROVE  MirrorInv'
<1>1. /\ req[r].pc = "failed" /\ req'[r].pc = "unsettled" /\ \A q \in Orders \ {r} : req'[q] = req[q]
  BY MirrorTypes, InvalidateTypes
<1>2. PICK keys, built, evicted : keys = KeysIn(req[r]) /\ evicted = keys /\ built = {k \in keys : locks[k] # Free \/ BuiltOn(r, k)}
  OBVIOUS
<1>3. /\ sealed' = sealed /\ landed' = landed /\ stamp' = stamp /\ overtaken' = overtaken
      /\ queue' = queue /\ liq' = liq /\ faults' = faults /\ locks' = locks
      /\ cache' = [k \in Keys |-> IF k \in keys THEN None ELSE cache[k]]
      /\ Lose(r, keys, built, evicted)
  BY <1>2 DEF InvalidateSweep
<1>4. faults' <= MaxFaults /\ r \in Procs
  BY <1>3, MirrorTypes
<1>5. keys \subseteq Keys
  <2>1. req[r].legs \in Seq(Legs)
    BY <1>1, MirrorTypes, FillingByPc DEF Filling
  <2>2. keys = KeysOf(req[r].legs)
    BY <1>2 DEF KeysIn, KeysOf
  <2> QED BY <2>1, <2>2, KeysOfIn, LegFields
<1>6. \A k \in Keys : cache'[k] = cache[k] \/ (k \in keys \cap evicted /\ cache'[k] = None)
  BY <1>2, <1>3
<1>7. \A k \in keys \ built : /\ ~BuiltOn(r, k) /\ k \in evicted /\ cache'[k] = None
                              /\ locks[k] \in {r, Free}
  BY <1>2, <1>3, <1>5
<1>8. Loses(r, keys, built, evicted)
  BY <1>3, <1>5, <1>6, <1>7 DEF Loses
<1>10. LosesWell(r)
  BY <1>4, <1>8, LoseStep
<1>9. Others(r)
  BY <1>1, <1>3, <1>10, SameQueue DEF Others, LosesWell
<1> QED BY <1>1, <1>4, <1>9, <1>10, OrderRests, OrderMirror DEF LosesWell

-----------------------------------------------------------------------------
(* The mirror: a fold and its leg *)

\* A fold adds dc and dq to the position it knows, and makes new of it.
FoldMakes(r, o, k, u, dc, dq, new) ==
  /\ Filling(o) /\ k \in Keys /\ dc \in Int /\ dq \in Int /\ new \in Positions
  /\ new.coll = (IF o.got # None THEN o.got.coll ELSE 0) + dc
  /\ new.size = (IF o.got # None THEN o.got.size ELSE 0) + dq
  /\ cache' = [cache EXCEPT ![k] = IF new.size = 0 THEN None ELSE new]
  /\ locks' = [locks EXCEPT ![k] = Free]
  /\ owed' = Owe(r, k, dc, dq)
  /\ stamp' = [stamp EXCEPT ![k] = @ + 1]
  /\ suspect' = IF o.got = None /\ sealed[k].coll # 0 THEN suspect \cup {k} ELSE suspect
  /\ UNCHANGED <<sealed, queue, liq, faults, landed, overtaken>>
  /\ IF o.role = "maker" THEN u.pc = "leg" /\ u.role = "maker" /\ u.i = o.i /\ u.locked = dc /\ u.delta = o.delta
     ELSE u.pc \in {"spawn", "lock"} /\ u.delta = o.delta + dc
  /\ u.taker = o.taker /\ u.market = o.market /\ u.legs = o.legs /\ u.fills = o.fills

LEMMA FoldMade ==
  ASSUME MirrorInv, NEW r \in Orders, Fold(r), NEW oo, oo = req[r], NEW kk, kk = KeyOf(oo), NEW uu, uu = req'[r]
  PROVE  \E dc, dq, new : FoldMakes(r, oo, kk, uu, dc, dq, new)
<1> DEFINE o     == req[r]
           k     == KeyOf(o)
           f     == o.fills[o.i]
           maker == o.role = "maker"
           buy   == IF maker THEN ~o.buy ELSE o.buy
           from  == IF o.got # None THEN o.got ELSE FreshFold(IF maker THEN MakerLeverage ELSE o.lev)
           res   == apply_fill(from, buy, f.price, f.qty, o.funding)
           fee   == IF maker THEN 0 ELSE taker_fee(f.price * f.qty, o.tier)
           new   == [res.st EXCEPT !.coll = res.st.coll + fee]
           dq    == IF buy THEN f.qty ELSE -f.qty
           last  == o.i = Len(o.fills)
           u     == IF maker THEN [o EXCEPT !.pc = "leg", !.locked = res.delta, !.got = None]
                    ELSE [o EXCEPT !.pc = IF last THEN "spawn" ELSE "lock", !.got = None,
                                   !.i = IF last THEN o.i ELSE o.i + 1,
                                   !.role = IF last THEN o.role ELSE "maker",
                                   !.delta = o.delta + res.delta + fee]
<1>1. Filling(o) /\ o.pc = "fold"
  BY FillingByPc, MirrorTypes DEF Fold
<1>2. k \in Keys /\ k[1] \in Traders /\ f \in Fills
  BY <1>1, KeyOfFilling
<1>3. /\ cache' = [cache EXCEPT ![k] = IF new.size = 0 THEN None ELSE new]
      /\ locks' = [locks EXCEPT ![k] = Free]
      /\ req' = [req EXCEPT ![r] = u]
      /\ owed' = Owe(r, k, res.delta + fee, dq)
      /\ stamp' = [stamp EXCEPT ![k] = @ + 1]
      /\ suspect' = IF o.got = None /\ sealed[k].coll # 0 THEN suspect \cup {k} ELSE suspect
      /\ UNCHANGED <<sealed, queue, liq, faults, landed, overtaken>>
  BY DEF Fold
<1>4. f.price \in Nat /\ f.qty \in Nat \ {0} /\ f.price * f.qty \in Int
  BY <1>2, FillNumbers
<1>5. /\ from \in Positions
      /\ from.coll = (IF o.got # None THEN o.got.coll ELSE 0) /\ from.size = (IF o.got # None THEN o.got.size ELSE 0)
  <2>1. o.lev \in Nat /\ MakerLeverage \in Nat
    BY <1>1, ConstantsAssumption DEF Filling
  <2> QED BY <1>1, <2>1 DEF Filling, FreshFold, Positions
<1>6. buy \in BOOLEAN /\ o.funding \in Int
  BY <1>1 DEF Filling
<1>a. dq \in Int
  BY <1>4
<1> HIDE DEF from, buy
<1>7. res.st \in Positions /\ res.delta \in Int /\ res.st.coll = from.coll + res.delta /\ res.st.size = from.size + dq
  <2>1. PICK st, b, pr, q, fd : st = from /\ b = buy /\ pr = f.price /\ q = f.qty /\ fd = o.funding
    OBVIOUS
  <2>2. PICK R : R = apply_fill(st, b, pr, q, fd)
    OBVIOUS
  <2>3. R = res
    BY <2>1, <2>2
  <2>4. st \in Positions /\ b \in BOOLEAN /\ pr \in Nat /\ q \in Nat \ {0} /\ fd \in Int
    BY <1>4, <1>5, <1>6, <2>1
  <2>5. /\ R.st \in Positions /\ R.delta \in Int /\ R.st.coll = st.coll + R.delta
        /\ R.st.size = st.size + (IF b THEN q ELSE -q)
    BY <2>2, <2>4, FillResult
  <2> HIDE DEF res
  <2> QED BY <2>1, <2>3, <2>5
<1> HIDE DEF res, dq
<1>8. fee \in Int
  <2> DEFINE notional == f.price * f.qty
  <2>1. notional \in Int /\ o.tier \in Nat
    BY <1>1, <1>4 DEF Filling
  <2> HIDE DEF notional
  <2>2. taker_fee(notional, o.tier) \in Int
    BY <2>1, FeeInt
  <2> QED BY <2>2 DEF notional
<1>b. maker => fee = 0
  OBVIOUS
<1> HIDE DEF fee
<1>10. new \in Positions /\ new.coll = res.st.coll + fee /\ new.size = res.st.size
  <2> DEFINE sum == res.st.coll + fee
  <2>1. sum \in Int
    BY <1>7, <1>8, PositionFields
  <2>2. new = [res.st EXCEPT !.coll = sum]
    OBVIOUS
  <2> HIDE DEF sum, new
  <2>3. new \in Positions
    BY <1>7, <2>1, <2>2, CollateralChanged
  <2>4. new.coll = sum /\ new.size = res.st.size
    BY <1>7, <2>2 DEF Positions
  <2> QED BY <2>3, <2>4 DEF sum
<1> HIDE DEF new, k, f
<1>11. req'[r] = u
  <2>1. req = [q \in Orders |-> req[q]]
    BY MirrorTypes DEF Types, OrderTypes
  <2> HIDE DEF u, o
  <2> QED BY <1>3, <2>1
<1>12. DOMAIN o = AskFields \cup {"role", "i", "fills", "legs", "delta", "tier", "funding", "locked", "got"}
  BY <1>1 DEF Filling
<1>13. /\ IF maker THEN u.pc = "leg" /\ u.role = "maker" /\ u.i = o.i /\ u.locked = res.delta + fee /\ u.delta = o.delta
          ELSE u.pc \in {"spawn", "lock"} /\ u.delta = o.delta + (res.delta + fee)
       /\ u.taker = o.taker /\ u.market = o.market /\ u.legs = o.legs /\ u.fills = o.fills
  <2>1. CASE maker
    <3> DEFINE v == [o EXCEPT !.pc = "leg", !.locked = res.delta, !.got = None]
    <3>1. u = v /\ res.delta = res.delta + fee
      BY <1>7, <1>b, <2>1
    <3>2. /\ v.pc = "leg" /\ v.locked = res.delta
          /\ \A x \in DOMAIN o \ {"pc", "locked", "got"} : v[x] = o[x]
      BY <1>12 DEF AskFields
    <3> HIDE DEF v, u
    <3> QED BY <1>12, <2>1, <3>1, <3>2 DEF AskFields
  <2>2. CASE ~maker
    <3> DEFINE pc == IF last THEN "spawn" ELSE "lock"
               i == IF last THEN o.i ELSE o.i + 1
               role == IF last THEN o.role ELSE "maker"
               delta == o.delta + res.delta + fee
               v == [o EXCEPT !.pc = pc, !.got = None, !.i = i, !.role = role, !.delta = delta]
    <3>0. o.delta \in Int
      BY <1>1 DEF Filling
    <3>1. pc \in {"spawn", "lock"} /\ delta = o.delta + (res.delta + fee)
      BY <1>7, <1>8, <3>0
    <3>2. u = v
      BY <2>2
    <3> HIDE DEF pc, i, role, delta, u
    <3>3. /\ v.pc = pc /\ v.delta = delta
          /\ \A x \in DOMAIN o \ {"pc", "got", "i", "role", "delta"} : v[x] = o[x]
      BY <1>12 DEF AskFields
    <3> HIDE DEF v
    <3> QED BY <1>12, <2>2, <3>1, <3>2, <3>3 DEF AskFields
  <2> QED BY <2>1, <2>2
<1> HIDE DEF u
<1>14. PICK dc : dc = res.delta + fee
  OBVIOUS
<1>15. dc \in Int /\ new.coll = from.coll + dc /\ new.size = from.size + dq
  <2>1. from.coll \in Int
    BY <1>5, PositionFields
  <2> QED BY <1>7, <1>8, <1>10, <1>14, <2>1
<1>16. oo = o /\ kk = k /\ uu = u
  BY <1>11 DEF k
<1> HIDE DEF o
<1>17. FoldMakes(r, o, k, u, dc, dq, new)
  BY <1>1, <1>2, <1>3, <1>5, <1>a, <1>10, <1>13, <1>14, <1>15 DEF FoldMakes
<1> QED BY <1>16, <1>17

LEMMA StampsFold ==
  ASSUME NEW O, NEW L, NEW S, Stamps(O, L, S),
         NEW Q \in Owings, NEW p \in Procs, \A q \in Procs \ {p} : Q[q] = O[q],
         Q[p].leg = 0, Q[p].stamp = (IF O[p] = Nothing THEN S + 1 ELSE O[p].stamp)
  PROVE  Stamps(Q, L, S + 1) /\ Q[p].stamp # 0 /\ Q[p] # Nothing
<1>1. /\ S \in Nat /\ L.stamp \in Nat /\ L.stamp <= S
      /\ \A q \in Procs : /\ O[q].stamp \in Nat /\ O[q].leg \in Nat
                          /\ O[q].stamp <= S /\ O[q].leg <= S
                          /\ O[q].leg # 0 => O[q].stamp <= O[q].leg
                          /\ O[q].stamp = 0 => O[q] = Nothing
  BY StampsFields
<1>2. L \in Landings
  BY DEF Stamps
<1>3. Q[p].stamp \in Nat /\ Q[p].stamp # 0 /\ Q[p] # Nothing /\ Q[p].stamp <= S + 1
  BY <1>1, NothingOwed
<1>4. \A q \in Procs : Q[q].stamp <= S + 1 /\ Q[q].leg <= S + 1
  BY <1>1, <1>3
<1> QED BY <1>1, <1>2, <1>3, <1>4 DEF Stamps

LEMMA FoldKeys ==
  ASSUME MirrorInv, NEW r \in Orders, NEW o, NEW k, NEW u, NEW dc, NEW dq, NEW new,
         FoldMakes(r, o, k, u, dc, dq, new), Fresh(k, o.got)
  PROVE  /\ OwedTypes' /\ Kept' /\ \A x \in Keys : KeyRight(x)'
         /\ \A x \in Keys \ {k} : FreshStays(x)
         /\ \A q \in Procs \ {r} : owed'[q] = owed[q]
         /\ \A x \in Keys \ {k} : owed'[r][x] = owed[r][x]
         /\ owed'[r][k].coll = owed[r][k].coll + dc /\ Pends(owed'[r][k])
<1>1. /\ k \in Keys /\ dc \in Int /\ dq \in Int /\ new \in Positions
      /\ new.coll = (IF o.got # None THEN o.got.coll ELSE 0) + dc
      /\ new.size = (IF o.got # None THEN o.got.size ELSE 0) + dq
      /\ cache' = [cache EXCEPT ![k] = IF new.size = 0 THEN None ELSE new]
      /\ owed' = Owe(r, k, dc, dq)
      /\ stamp' = [stamp EXCEPT ![k] = @ + 1]
      /\ suspect' = IF o.got = None /\ sealed[k].coll # 0 THEN suspect \cup {k} ELSE suspect
      /\ sealed' = sealed /\ landed' = landed /\ overtaken' = overtaken
  BY DEF FoldMakes
<1>2. /\ owed \in [Procs -> [Keys -> OwedRecords]] /\ landed \in [Keys -> Landings]
      /\ stamp \in [Keys -> Nat] /\ cache \in [Keys -> Positions \cup {None}] /\ r \in Procs
  BY MirrorTypes DEF OwedTypes, Types, Store
<1>3. PICK w : w = owed[r][k]
  OBVIOUS
<1>4. w \in OwedRecords /\ w.coll \in Int /\ w.size \in Int /\ w.stamp \in Nat
  BY <1>1, <1>2, <1>3, OwedFields
<1>5. PICK v : v = [coll |-> w.coll + dc, size |-> w.size + dq,
                    stamp |-> IF w = Nothing THEN stamp[k] + 1 ELSE w.stamp, leg |-> 0, params |-> Empty]
  OBVIOUS
<1>6. owed' = [owed EXCEPT ![r] = [owed[r] EXCEPT ![k] = v]]
  BY <1>1, <1>3, <1>5 DEF Owe
<1>7. /\ v \in OwedRecords /\ v.coll = w.coll + dc /\ v.size = w.size + dq /\ v.leg = 0
      /\ v.stamp = (IF w = Nothing THEN stamp[k] + 1 ELSE w.stamp)
  <2>1. PICK a, b, n : a = w.coll + dc /\ b = w.size + dq /\ n = (IF w = Nothing THEN stamp[k] + 1 ELSE w.stamp)
    OBVIOUS
  <2>2. a \in Int /\ b \in Int /\ n \in Nat
    BY <1>1, <1>2, <1>4, <2>1
  <2>3. v = [coll |-> a, size |-> b, stamp |-> n, leg |-> 0, params |-> Empty] /\ Empty \in Params
    BY <1>5, <2>1 DEF Params
  <2>4. v \in OwedRecords /\ v.coll = a /\ v.size = b /\ v.stamp = n /\ v.leg = 0
    BY <2>2, <2>3, OwedMade
  <2> QED BY <2>1, <2>4
<1>8. /\ \A q \in Procs \ {r} : owed'[q] = owed[q]
      /\ \A x \in Keys \ {k} : owed'[r][x] = owed[r][x]
      /\ owed'[r][k] = v
  BY <1>1, <1>2, <1>6
<1>9. OwedTypes'
  <2>1. owed' \in [Procs -> [Keys -> OwedRecords]]
    BY <1>1, <1>2, <1>6, <1>7
  <2> QED BY <1>1, <1>2, <2>1 DEF OwedTypes
<1>10. Kept'
  <2>1. ASSUME NEW x \in Keys PROVE cache'[x] = None \/ cache'[x].size # 0
    <3>1. CASE x = k
      BY <1>1, <1>2, <3>1
    <3>2. CASE x # k
      BY <1>1, <1>2, <3>2, MirrorTypes DEF Kept
    <3> QED BY <3>1, <3>2
  <2> QED BY <1>1, <2>1, MirrorTypes DEF Kept
<1>11. ASSUME NEW x \in Keys \ {k} PROVE KeyRight(x)' /\ FreshStays(x)
  <2>1. Still(x)
    BY <1>1, <1>2, <1>8 DEF Still
  <2> QED BY <2>1, KeyStill, MirrorTypes
<1>12. KeyRight(k)' /\ Pends(v)
  <2>1. PICK O, Q, L, S, c, rec, late :
          /\ O = OwedAt(k) /\ late = (k \in overtaken) /\ L = landed[k]
          /\ S = stamp[k] /\ c = cache[k] /\ rec = sealed[k] /\ Q = OwedAt(k)'
    OBVIOUS
  <2>2. Q \in Owings
    BY <1>1, <1>9, <2>1 DEF OwedTypes, OwedAt, Owings
  <2>3. /\ \A q \in Procs \ {r} : Q[q] = O[q]
        /\ O[r] = w /\ Q[r] = v
    BY <1>2, <1>3, <1>8, <2>1 DEF OwedAt
  <2>4. Stamps(O, L, S) /\ (k \in suspect \/ KeyInv(O, L, S, c, rec, late)) /\ rec.coll \in Int
    BY <1>1, <2>1, MirrorTypes DEF KeyRight
  <2>5. Stamps(Q, L, S + 1) /\ Q[r] # Nothing
    BY <1>2, <1>7, <2>1, <2>2, <2>3, <2>4, StampsFold
  <2>6. PICK d : d = (IF new.size = 0 THEN None ELSE new)
    OBVIOUS
  <2>7. ASSUME k \notin suspect' PROVE KeyInv(Q, L, S + 1, d, rec, late)
    <3>1. k \notin suspect /\ (o.got = None => rec.coll = 0)
      BY <1>1, <2>1, <2>7
    <3>2. Knows(O, L, rec, o.got)
      BY <2>1, <3>1 DEF Fresh
    <3>3. O \in Owings /\ L.size \in Int
      BY <2>4, StampsFields
    <3>4. Total(O) \in Int /\ TotalColl(O) \in Int
      BY <3>3, TotalsInt
    <3>5. new.coll = rec.coll + TotalColl(O) + dc /\ new.size = L.size + Total(O) + dq
      <4>1. CASE o.got = None
        <5>1. L.size = 0 /\ \A q \in Procs : O[q] = Nothing
          BY <3>2, <4>1 DEF Knows
        <5>2. Total(O) = 0 /\ TotalColl(O) = 0
          BY <3>3, <5>1, NobodyOwes
        <5> QED BY <1>1, <3>1, <4>1, <5>1, <5>2
      <4>2. CASE o.got # None
        BY <1>1, <3>2, <4>2 DEF Knows
      <4> QED BY <4>1, <4>2
    <3>6. new # None
      BY <1>1, PositionFields
    <3>7. Q[r].coll = O[r].coll + dc /\ Q[r].size = O[r].size + dq /\ Q[r].leg = 0
          /\ Q[r].stamp = (IF O[r] = Nothing THEN S + 1 ELSE O[r].stamp)
      BY <1>7, <2>1, <2>3
    <3>8. KeyInv(O, L, S, c, rec, late)
      BY <2>4, <3>1
    <3> QED BY <1>1, <1>2, <2>2, <2>3, <2>4, <2>6, <3>5, <3>6, <3>7, <3>8, KeyFold
  <2>8. cache'[k] = d /\ stamp'[k] = S + 1
    BY <1>1, <1>2, <2>1, <2>6
  <2>9. KeyRight(k)'
    BY <1>1, <2>1, <2>5, <2>7, <2>8 DEF KeyRight
  <2> QED BY <1>7, <2>3, <2>5, <2>9 DEF Pends
<1> QED BY <1>3, <1>7, <1>8, <1>9, <1>10, <1>11, <1>12

\* The order o that folds dc into key k becomes u, and owes V instead of W.
FoldsTo(o, u, k, W, V, dc) ==
  /\ Filling(o) /\ o.pc # "leg" /\ k = KeyOf(o) /\ k \in Keys /\ dc \in Int
  /\ u.taker = o.taker /\ u.market = o.market /\ u.legs = o.legs /\ u.fills = o.fills
  /\ IF o.role = "maker" THEN u.pc = "leg" /\ u.role = "maker" /\ u.i = o.i /\ u.locked = dc /\ u.delta = o.delta
     ELSE u.pc \in {"spawn", "lock"} /\ u.delta = o.delta + dc
  /\ \A x \in Keys \ {k} : V[x] = W[x]
  /\ V[k].coll = W[k].coll + dc /\ Pends(V[k])
FoldFits(u, V) ==
  /\ Building(u, V) /\ OtherMakers(u) /\ u.pc \in {"leg", "spawn", "lock"}
  /\ u.pc = "leg" => u.role = "maker"
  /\ u.pc = "spawn" => V[TakerKey(u)] # Nothing

LEMMA FoldBuilding ==
  ASSUME NEW o, NEW u, NEW k, NEW W, NEW V, NEW dc,
         FoldsTo(o, u, k, W, V, dc), OtherMakers(o), Building(o, W)
  PROVE  FoldFits(u, V)
<1>0. /\ Filling(o) /\ o.pc # "leg" /\ k = KeyOf(o) /\ k \in Keys /\ dc \in Int
      /\ u.taker = o.taker /\ u.market = o.market /\ u.legs = o.legs /\ u.fills = o.fills
      /\ IF o.role = "maker" THEN u.pc = "leg" /\ u.role = "maker" /\ u.i = o.i /\ u.locked = dc /\ u.delta = o.delta
         ELSE u.pc \in {"spawn", "lock"} /\ u.delta = o.delta + dc
      /\ \A x \in Keys \ {k} : V[x] = W[x]
      /\ V[k].coll = W[k].coll + dc /\ Pends(V[k])
  BY DEF FoldsTo
<1>1. OtherMakers(u) /\ TakerKey(u) = TakerKey(o)
  BY <1>0 DEF OtherMakers, TakerKey
<1>2. /\ o.legs \in Seq(Legs) /\ o.role \in {"maker", "taker"} /\ o.i \in DOMAIN o.fills
      /\ o.delta \in Int
  BY <1>0 DEF Filling
<1>3. \A x : ~AtLeg(o, x)
  BY <1>0 DEF AtLeg
<1>4. CASE o.role = "maker"
  <2>1. u.pc = "leg" /\ u.role = "maker" /\ u.i = o.i /\ u.locked = dc /\ u.delta = o.delta
    BY <1>0, <1>4
  <2>2. k # TakerKey(o)
    BY <1>0, <1>2, <1>4 DEF KeyOf, TakerKey, OtherMakers
  <2>3. \A x : AtLeg(u, x) <=> x = k
    BY <1>0, <1>4, <2>1 DEF AtLeg, KeyOf
  <2>4. W[k].coll = DeltaOn(o.legs, k)
    <3>1. BuildingOn(o, W[k], k)
      BY <1>0 DEF Building
    <3>2. CASE k \in KeysOf(o.legs)
      BY <1>0, <1>3, <2>2, <3>1, <3>2 DEF BuildingOn, Carries
    <3>3. CASE k \notin KeysOf(o.legs)
      BY <1>0, <1>2, <1>3, <2>2, <3>1, <3>3, DeltaNone, NothingOwed DEF BuildingOn
    <3> QED BY <1>0, <3>2, <3>3
  <2>5. BuildingOn(u, V[k], k)
    BY <1>0, <1>1, <2>1, <2>2, <2>3, <2>4 DEF BuildingOn
  <2>6. ASSUME NEW x \in Keys \ {k} PROVE BuildingOn(u, V[x], x)
    <3>1. BuildingOn(o, W[x], x) /\ V[x] = W[x]
      BY <1>0 DEF Building
    <3> QED BY <1>0, <1>1, <1>3, <2>1, <2>3, <3>1 DEF BuildingOn
  <2> QED BY <1>0, <1>1, <2>1, <2>5, <2>6 DEF Building, FoldFits
<1>5. CASE o.role # "maker"
  <2>1. u.pc \in {"spawn", "lock"} /\ u.delta = o.delta + dc
    BY <1>0, <1>5
  <2>2. k = TakerKey(o)
    BY <1>0, <1>5 DEF KeyOf, TakerKey
  <2>3. \A x : ~AtLeg(u, x)
    BY <1>0, <2>1 DEF AtLeg
  <2>4. BuildingOn(o, W[k], k)
    BY <1>0 DEF Building
  <2>5. BuildingOn(u, V[k], k)
    BY <1>0, <1>1, <2>1, <2>2, <2>4 DEF BuildingOn, Pends
  <2>6. ASSUME NEW x \in Keys \ {k} PROVE BuildingOn(u, V[x], x)
    <3>1. BuildingOn(o, W[x], x) /\ V[x] = W[x]
      BY <1>0 DEF Building
    <3> QED BY <1>0, <1>1, <1>3, <2>2, <2>3, <3>1 DEF BuildingOn
  <2>7. Building(u, V)
    BY <1>0, <2>5, <2>6 DEF Building
  <2>8. V[TakerKey(u)] # Nothing
    BY <1>0, <1>1, <2>2 DEF Pends
  <2> QED BY <1>1, <2>1, <2>7, <2>8 DEF FoldFits
<1> QED BY <1>4, <1>5

LEMMA FoldMirror ==
  ASSUME MirrorInv, LockInv', NEW r \in Orders, Fold(r)
  PROVE  MirrorInv'
<1>a. PICK k, o, u, W, V : k = KeyOf(o) /\ o = req[r] /\ u = req'[r] /\ W = owed[r] /\ V = owed'[r]
  OBVIOUS
<1>b. PICK dc, dq, new : FoldMakes(r, o, k, u, dc, dq, new)
  BY <1>a, FoldMade
<1>1. /\ o.pc = "fold" /\ \A q \in Orders \ {r} : req'[q] = req[q]
  BY <1>a, MirrorTypes, FoldTypes
<1>2. /\ Filling(o) /\ k \in Keys /\ dc \in Int /\ r \in Procs
      /\ locks' = [locks EXCEPT ![k] = Free] /\ queue' = queue /\ liq' = liq /\ faults' = faults
      /\ IF o.role = "maker" THEN u.pc = "leg" /\ u.role = "maker" /\ u.i = o.i /\ u.locked = dc /\ u.delta = o.delta
         ELSE u.pc \in {"spawn", "lock"} /\ u.delta = o.delta + dc
      /\ u.taker = o.taker /\ u.market = o.market /\ u.legs = o.legs /\ u.fills = o.fills
  BY <1>b, MirrorTypes DEF FoldMakes
<1>3. locks[k] = r /\ Fresh(k, o.got)
  BY <1>a, <1>1, MirrorTypes DEF OrderLocked, OrderKnows
<1>4. /\ OwedTypes' /\ Kept' /\ \A x \in Keys : KeyRight(x)'
      /\ \A x \in Keys \ {k} : FreshStays(x)
      /\ \A q \in Procs \ {r} : owed'[q] = owed[q]
      /\ \A x \in Keys \ {k} : V[x] = W[x]
      /\ V[k].coll = W[k].coll + dc /\ Pends(V[k])
  BY <1>a, <1>b, <1>3, FoldKeys
<1>5. OrderFits(o, W, InQueue(r))
  BY <1>a, MirrorTypes DEF OrderRight
<1>6. Building(o, W) /\ OtherMakers(o) /\ ~InQueue(r)
  BY <1>1, <1>5 DEF OrderFits
<1>7. FoldFits(u, V)
  <2>1. o.pc # "leg"
    BY <1>1
  <2>2. FoldsTo(o, u, k, W, V, dc)
    BY <1>a, <1>2, <1>4, <2>1 DEF FoldsTo
  <2> QED BY <1>6, <2>2, FoldBuilding
<1>8. OrderKnows(r)' /\ OrderLocked(r)'
  BY <1>a, <1>7 DEF OrderKnows, OrderLocked, FoldFits
<1>9. OrderRight(r)'
  <2>1. ~InQueue(r)'
    BY <1>2, <1>6, SameQueue
  <2>2. OrderFits(u, V, InQueue(r)')
    BY <1>7, <2>1 DEF OrderFits, FoldFits
  <2> QED BY <1>a, <2>2 DEF OrderRight
<1>10. QueueRight'
  <2>1. QueuedKeys(r) = {}
    BY <1>6, QueuedIs
  <2> QED BY <1>2, <1>4, <2>1, SentStays, MirrorTypes
<1>11. Others(r)
  <2>1. \A x \in Keys : locks[x] \notin {r, Free} => x # k /\ locks'[x] = locks[x]
    BY <1>2, <1>3, MirrorTypes DEF Types, Wires
  <2> QED BY <1>1, <1>2, <1>4, <2>1, SameQueue DEF Others
<1>12. faults' <= MaxFaults
  BY <1>2, MirrorTypes
<1> QED BY <1>4, <1>8, <1>9, <1>10, <1>11, <1>12, OrderMirror

LEMMA StampsLeg ==
  ASSUME NEW O, NEW L, NEW S, Stamps(O, L, S), NEW p \in Procs, Pends(O[p]),
         NEW Q \in Owings, \A q \in Procs \ {p} : Q[q] = O[q],
         Q[p].stamp = O[p].stamp, Q[p].leg = S
  PROVE  Stamps(Q, L, S) /\ S # 0 /\ Q[p] # Nothing
<1>1. /\ S \in Nat /\ L.stamp \in Nat /\ L.stamp <= S
      /\ \A q \in Procs : /\ O[q].stamp \in Nat /\ O[q].leg \in Nat
                          /\ O[q].stamp <= S /\ O[q].leg <= S
                          /\ O[q].leg # 0 => O[q].stamp <= O[q].leg
                          /\ O[q].stamp = 0 => O[q] = Nothing
  BY StampsFields
<1>2. L \in Landings
  BY DEF Stamps
<1>3. O[p].stamp # 0 /\ S # 0 /\ Q[p] # Nothing
  BY <1>1, NothingOwed DEF Pends
<1>4. \A q \in Procs : /\ Q[q].stamp <= S /\ Q[q].leg <= S
                       /\ Q[q].leg # 0 => Q[q].stamp <= Q[q].leg
                       /\ Q[q].stamp = 0 => Q[q] = Nothing
  <2> SUFFICES ASSUME NEW q \in Procs
               PROVE  /\ Q[q].stamp <= S /\ Q[q].leg <= S
                      /\ Q[q].leg # 0 => Q[q].stamp <= Q[q].leg
                      /\ Q[q].stamp = 0 => Q[q] = Nothing
    OBVIOUS
  <2>1. CASE q = p
    BY <1>1, <1>3, <2>1
  <2>2. CASE q # p
    <3>1. Q[q] = O[q]
      BY <2>2
    <3> QED BY <1>1, <3>1
  <2> QED BY <2>1, <2>2
<1> QED BY <1>1, <1>2, <1>3, <1>4 DEF Stamps

\* A leg for k is built, by who owes on k and has no leg for it yet.
LegBuilt(r, k, leg) ==
  /\ k \in Keys /\ leg.key = k /\ leg.params = cached_sealed_params(k) /\ leg.stamp = stamp[k]
  /\ leg \in Legs /\ Pends(owed[r][k]) /\ OweLeg(r, leg)
  /\ cache' = cache /\ sealed' = sealed /\ landed' = landed /\ stamp' = stamp /\ overtaken' = overtaken
  /\ suspect' = suspect
LegOwed(r, k, leg) ==
  /\ OwedTypes' /\ Kept' /\ \A x \in Keys : KeyRight(x)' /\ FreshStays(x)
  /\ \A q \in Procs \ {r} : owed'[q] = owed[q]
  /\ \A x \in Keys \ {k} : owed'[r][x] = owed[r][x]
  /\ owed'[r][k].coll = owed[r][k].coll /\ owed'[r][k] # Nothing
  /\ owed'[r][k].leg = leg.stamp /\ owed'[r][k].leg # 0 /\ owed'[r][k].params = leg.params

LEMMA LegKeys ==
  ASSUME MirrorInv, NEW r \in Orders, NEW k, NEW leg, LegBuilt(r, k, leg)
  PROVE  LegOwed(r, k, leg)
<1>1. /\ k \in Keys /\ leg.key = k /\ leg.params = cached_sealed_params(k) /\ leg.stamp = stamp[k]
      /\ leg \in Legs /\ Pends(owed[r][k])
      /\ owed' = [owed EXCEPT ![r][leg.key] = [@ EXCEPT !.leg = leg.stamp, !.params = leg.params]]
      /\ cache' = cache /\ sealed' = sealed /\ landed' = landed /\ stamp' = stamp /\ overtaken' = overtaken
      /\ suspect' = suspect
  BY DEF LegBuilt, OweLeg
<1>2. /\ owed \in [Procs -> [Keys -> OwedRecords]] /\ landed \in [Keys -> Landings]
      /\ stamp \in [Keys -> Nat] /\ cache \in [Keys -> Positions \cup {None}] /\ r \in Procs
      /\ k \in Keys
  BY <1>1, MirrorTypes DEF OwedTypes, Types, Store
<1>3. PICK w : w = owed[r][k]
  OBVIOUS
<1>4. w \in OwedRecords
  BY <1>1, <1>2, <1>3
<1>5. PICK v : v = [w EXCEPT !.leg = leg.stamp, !.params = leg.params]
  OBVIOUS
<1>6. owed' = [owed EXCEPT ![r] = [owed[r] EXCEPT ![k] = v]]
  BY <1>1, <1>3, <1>5
<1>7. /\ v \in OwedRecords /\ v.coll = w.coll /\ v.size = w.size /\ v.stamp = w.stamp
      /\ v.leg = leg.stamp /\ v.params = leg.params
  <2>1. leg.stamp \in Nat /\ leg.params \in Params
    BY <1>1, LegFields
  <2> QED BY <1>4, <1>5, <2>1 DEF OwedRecords
<1>8. /\ \A q \in Procs \ {r} : owed'[q] = owed[q]
      /\ \A x \in Keys \ {k} : owed'[r][x] = owed[r][x]
      /\ owed'[r][k] = v
  BY <1>2, <1>6
<1>9. OwedTypes' /\ Kept'
  <2>1. owed' \in [Procs -> [Keys -> OwedRecords]]
    BY <1>1, <1>2, <1>6, <1>7
  <2> QED BY <1>1, <1>2, <2>1, MirrorTypes DEF OwedTypes, Kept
<1>11. ASSUME NEW x \in Keys \ {k} PROVE KeyRight(x)' /\ FreshStays(x)
  <2>1. Still(x)
    BY <1>1, <1>2, <1>8 DEF Still
  <2> QED BY <2>1, KeyStill, MirrorTypes
<1>12. KeyRight(k)' /\ FreshStays(k) /\ v # Nothing /\ v.leg # 0
  <2>1. PICK O, Q, L, S, c, rec, late :
          /\ O = OwedAt(k) /\ late = (k \in overtaken) /\ L = landed[k]
          /\ S = stamp[k] /\ c = cache[k] /\ rec = sealed[k] /\ Q = OwedAt(k)'
    OBVIOUS
  <2>2. Q \in Owings
    BY <1>1, <1>9, <2>1 DEF OwedTypes, OwedAt, Owings
  <2>3. /\ \A q \in Procs \ {r} : Q[q] = O[q]
        /\ O[r] = w /\ Q[r] = v
    BY <1>2, <1>3, <1>8, <2>1 DEF OwedAt
  <2>4. Stamps(O, L, S) /\ (k \in suspect \/ KeyInv(O, L, S, c, rec, late))
    BY <1>1, <2>1, MirrorTypes DEF KeyRight
  <2>5. /\ Pends(O[r]) /\ Q[r].coll = O[r].coll /\ Q[r].size = O[r].size /\ Q[r].stamp = O[r].stamp /\ Q[r].leg = S
        /\ Q[r].params = (IF c = None THEN Empty ELSE ParamsOf(c))
    BY <1>1, <1>3, <1>7, <2>1, <2>3 DEF cached_sealed_params
  <2>6. Stamps(Q, L, S) /\ S # 0 /\ Q[r] # Nothing
    BY <1>2, <2>2, <2>3, <2>4, <2>5, StampsLeg
  <2>7. ASSUME k \notin suspect PROVE KeyInv(Q, L, S, c, rec, late) /\ Total(Q) = Total(O) /\ TotalColl(Q) = TotalColl(O)
    <3>1. KeyInv(O, L, S, c, rec, late)
      BY <2>4, <2>7
    <3> QED BY <1>2, <2>2, <2>3, <2>4, <2>5, <3>1, KeyLeg
  <2>8. KeyRight(k)'
    BY <1>1, <2>1, <2>6, <2>7 DEF KeyRight
  <2>9. ASSUME NEW g, Fresh(k, g) PROVE Fresh(k, g)'
    <3>1. SUFFICES ASSUME k \notin suspect PROVE Knows(Q, L, rec, g)
      BY <1>1, <2>1 DEF Fresh
    <3>2. Knows(O, L, rec, g)
      BY <2>1, <2>9, <3>1 DEF Fresh
    <3>3. g # None
      BY <1>2, <2>5, <3>2 DEF Knows, Pends
    <3> QED BY <2>7, <3>1, <3>2, <3>3 DEF Knows
  <2> QED BY <1>1, <1>7, <2>1, <2>3, <2>6, <2>8, <2>9 DEF FreshStays
<1> QED BY <1>3, <1>7, <1>8, <1>9, <1>11, <1>12 DEF LegOwed

LEMMA LegMirror ==
  ASSUME MirrorInv, LockInv', NEW r \in Orders, Leg(r)
  PROVE  MirrorInv'
<1>a. PICK k, o, u, W, V, leg : /\ k = KeyOf(o) /\ o = req[r] /\ u = req'[r] /\ W = owed[r] /\ V = owed'[r]
                                /\ leg = LegOf(k, o.locked)
  OBVIOUS
<1>1. /\ o.pc = "leg" /\ \A q \in Orders \ {r} : req'[q] = req[q]
  BY <1>a, MirrorTypes, LegTypes
<1>2. Filling(o) /\ k \in Keys /\ o.locked \in Int /\ o.legs \in Seq(Legs) /\ r \in Procs
  <2>1. Filling(o)
    BY <1>a, <1>1, MirrorTypes, FillingByPc
  <2> QED BY <1>a, <2>1, KeyOfFilling, MirrorTypes DEF Filling
<1>3. leg \in Legs /\ leg.key = k /\ leg.delta = o.locked /\ leg.params = cached_sealed_params(k) /\ leg.stamp = stamp[k]
  BY <1>a, <1>2, MirrorTypes, CachedParams DEF LegOf
<1>4. /\ u.pc = "lock" /\ u.legs = Append(o.legs, leg)
      /\ u.taker = o.taker /\ u.market = o.market /\ u.delta = o.delta /\ u.fills = o.fills
  <2>1. PICK legs : legs = Append(o.legs, leg)
    OBVIOUS
  <2>2. req = [q \in Orders |-> req[q]]
    BY MirrorTypes DEF Types, OrderTypes
  <2>3. req' = [req EXCEPT ![r].legs = Append(@, leg), ![r].pc = "lock", ![r].role = "taker"]
    BY <1>a DEF Leg
  <2>4. u = [o EXCEPT !.legs = legs, !.pc = "lock", !.role = "taker"]
    BY <1>a, <2>1, <2>2, <2>3
  <2> QED BY <1>2, <2>1, <2>4 DEF Filling, AskFields
<1>5. OrderFits(o, W, InQueue(r))
  BY <1>a, MirrorTypes DEF OrderRight
<1>6. Building(o, W) /\ OtherMakers(o) /\ ~InQueue(r) /\ o.role = "maker"
  BY <1>1, <1>5 DEF OrderFits
<1>7. /\ k # TakerKey(o) /\ (\A x : AtLeg(o, x) <=> x = k)
      /\ W[k].coll = DeltaOn(o.legs, k) + o.locked /\ Pends(W[k])
  <2>1. k # TakerKey(o)
    BY <1>a, <1>2, <1>6 DEF KeyOf, TakerKey, OtherMakers, Filling
  <2>2. \A x : AtLeg(o, x) <=> x = k
    BY <1>a, <1>1 DEF AtLeg
  <2>3. BuildingOn(o, W[k], k)
    BY <1>2, <1>6 DEF Building
  <2> QED BY <2>1, <2>2, <2>3 DEF BuildingOn
<1>8. LegBuilt(r, k, leg) /\ queue' = queue /\ liq' = liq /\ locks' = locks /\ faults' = faults
  BY <1>a, <1>2, <1>3, <1>7 DEF Leg, LegBuilt
<1>9. LegOwed(r, k, leg)
  BY <1>8, LegKeys
<1>10. Building(u, V) /\ OtherMakers(u)
  <2>1. TakerKey(u) = TakerKey(o) /\ OtherMakers(u) /\ \A x : ~AtLeg(u, x)
    BY <1>4, <1>6 DEF TakerKey, OtherMakers, AtLeg
  <2>2. KeysOf(u.legs) = KeysOf(o.legs) \cup {k}
    BY <1>2, <1>3, <1>4, KeysAppend
  <2>3. Carries(V[k], u.legs, k)
    <3>1. /\ V[k] # Nothing /\ V[k].coll = DeltaOn(o.legs, k) + leg.delta /\ V[k].leg = leg.stamp /\ V[k].leg # 0
          /\ V[k].params = leg.params
      BY <1>a, <1>3, <1>7, <1>9 DEF LegOwed
    <3> QED BY <1>2, <1>3, <1>4, <3>1, CarriesAppend
  <2>4. ASSUME NEW x \in Keys \ {k} PROVE BuildingOn(u, V[x], x)
    <3>1. V[x] = W[x]
      BY <1>a, <1>9 DEF LegOwed
    <3>2. BuildingOn(o, W[x], x)
      BY <1>6 DEF Building
    <3>3. Carries(W[x], o.legs, x) => Carries(W[x], u.legs, x)
      BY <1>2, <1>3, <1>4, CarriesAppend
    <3> QED BY <1>4, <1>7, <2>1, <2>2, <3>1, <3>2, <3>3 DEF BuildingOn
  <2>5. BuildingOn(u, V[k], k)
    BY <1>7, <2>1, <2>2, <2>3 DEF BuildingOn
  <2> QED BY <2>1, <2>4, <2>5 DEF Building
<1>11. OrderKnows(r)' /\ OrderLocked(r)'
  BY <1>a, <1>4 DEF OrderKnows, OrderLocked
<1>12. OrderRight(r)'
  <2>1. ~InQueue(r)'
    BY <1>6, <1>8, SameQueue
  <2>2. OrderFits(u, V, InQueue(r)')
    BY <1>4, <1>10, <2>1 DEF OrderFits
  <2> QED BY <1>a, <2>2 DEF OrderRight
<1>13. QueueRight'
  <2>1. QueuedKeys(r) = {}
    BY <1>6, QueuedIs
  <2> QED BY <1>8, <1>9, <2>1, SentStays, MirrorTypes DEF LegOwed
<1>14. Others(r)
  BY <1>1, <1>8, <1>9, SameQueue DEF Others, LegOwed
<1>15. faults' <= MaxFaults
  BY <1>8, MirrorTypes
<1> QED BY <1>9, <1>11, <1>12, <1>13, <1>14, <1>15, OrderMirror DEF LegOwed

LEMMA SpawnMirror ==
  ASSUME MirrorInv, LockInv', NEW r \in Orders, Spawn(r)
  PROVE  MirrorInv'
<1>a. PICK k, o, u, W, V, leg : /\ k = TakerKey(o) /\ o = req[r] /\ u = req'[r] /\ W = owed[r] /\ V = owed'[r]
                                /\ leg = LegOf(k, o.delta)
  OBVIOUS
<1>1. /\ o.pc = "spawn" /\ \A q \in Orders \ {r} : req'[q] = req[q]
  BY <1>a, MirrorTypes, SpawnTypes
<1>2. Filling(o) /\ k \in Keys /\ o.delta \in Int /\ o.legs \in Seq(Legs) /\ r \in Procs
  <2>1. Filling(o)
    BY <1>a, <1>1, MirrorTypes, FillingByPc
  <2> QED BY <1>a, <2>1, MirrorTypes DEF Filling, Keys, TakerKey
<1>3. leg \in Legs /\ leg.key = k /\ leg.delta = o.delta /\ leg.params = cached_sealed_params(k) /\ leg.stamp = stamp[k]
  BY <1>a, <1>2, MirrorTypes, CachedParams DEF LegOf
<1>4. u.pc = "queued" /\ u.legs = <<leg>> \o o.legs
  <2>1. PICK legs : legs = <<leg>> \o o.legs
    OBVIOUS
  <2>2. req = [q \in Orders |-> req[q]]
    BY MirrorTypes DEF Types, OrderTypes
  <2>3. req' = [req EXCEPT ![r].pc = "queued", ![r].legs = <<leg>> \o @]
    BY <1>a DEF Spawn, TakerKey
  <2>4. u = [o EXCEPT !.pc = "queued", !.legs = legs]
    BY <1>a, <2>1, <2>2, <2>3
  <2> QED BY <1>2, <2>1, <2>4 DEF Filling, AskFields
<1>5. OrderFits(o, W, InQueue(r))
  BY <1>a, MirrorTypes DEF OrderRight
<1>6. Building(o, W) /\ ~InQueue(r) /\ W[k] # Nothing
  BY <1>a, <1>1, <1>5 DEF OrderFits
<1>7. W[k].coll = o.delta /\ Pends(W[k]) /\ k \notin KeysOf(o.legs)
  <2>1. BuildingOn(o, W[k], k)
    BY <1>2, <1>6 DEF Building
  <2> QED BY <1>a, <1>6, <2>1 DEF BuildingOn, Pends
<1>8. LegBuilt(r, k, leg) /\ queue' = queue /\ liq' = liq /\ locks' = locks /\ faults' = faults
  BY <1>a, <1>2, <1>3, <1>7 DEF Spawn, LegBuilt, TakerKey
<1>9. LegOwed(r, k, leg)
  BY <1>8, LegKeys
<1>10. \A x \in KeysOf(u.legs) : Carries(V[x], u.legs, x)
  <2>1. KeysOf(u.legs) = KeysOf(o.legs) \cup {k}
    BY <1>2, <1>3, <1>4, KeysAppend
  <2>2. Carries(V[k], u.legs, k)
    <3>1. /\ V[k] # Nothing /\ V[k].coll = leg.delta /\ V[k].leg = leg.stamp /\ V[k].leg # 0
          /\ V[k].params = leg.params
      BY <1>a, <1>3, <1>7, <1>9 DEF LegOwed
    <3> QED BY <1>2, <1>3, <1>4, <1>7, <3>1, CarriesPrepend
  <2>3. ASSUME NEW x \in KeysOf(o.legs) PROVE Carries(V[x], u.legs, x)
    <3>1. x # k /\ x \in Keys
      <4>1. x \in Keys
        BY <1>2, KeysOfIn, LegFields
      <4> QED BY <1>7, <4>1
    <3>2. V[x] = W[x]
      BY <1>a, <1>9, <3>1 DEF LegOwed
    <3>3. BuildingOn(o, W[x], x)
      BY <1>6, <3>1 DEF Building
    <3>4. Carries(W[x], o.legs, x)
      BY <1>a, <1>1, <2>3, <3>1, <3>3 DEF BuildingOn, AtLeg
    <3> QED BY <1>2, <1>3, <1>4, <3>1, <3>2, <3>4, CarriesPrepend
  <2> QED BY <2>1, <2>2, <2>3
<1>11. OrderKnows(r)' /\ OrderLocked(r)'
  BY <1>a, <1>4 DEF OrderKnows, OrderLocked
<1>12. OrderRight(r)'
  <2>1. ~InQueue(r)'
    BY <1>6, <1>8, SameQueue
  <2>2. OrderFits(u, V, InQueue(r)')
    BY <1>4, <1>10, <2>1 DEF OrderFits
  <2> QED BY <1>a, <2>2 DEF OrderRight
<1>13. QueueRight'
  <2>1. QueuedKeys(r) = {}
    BY <1>6, QueuedIs
  <2> QED BY <1>8, <1>9, <2>1, SentStays, MirrorTypes DEF LegOwed
<1>14. Others(r)
  BY <1>1, <1>8, <1>9, SameQueue DEF Others, LegOwed
<1>15. faults' <= MaxFaults
  BY <1>8, MirrorTypes
<1> QED BY <1>9, <1>11, <1>12, <1>13, <1>14, <1>15, OrderMirror DEF LegOwed

-----------------------------------------------------------------------------
(* The mirror: the steps of a liquidation *)

LEMMA LiqRests ==
  ASSUME NEW l, liq'[l].pc = "done"
  PROVE  LiqKnows(l)' /\ LiqLocked(l)' /\ LiqRight(l)'
BY DEF LiqKnows, LiqLocked, LiqRight

LEMMA DiscoverMirror ==
  ASSUME MirrorInv, LockInv', NEW l \in Liquidations, Discover(l)
  PROVE  MirrorInv'
<1>1. liq[l] = Idle /\ \A q \in Liquidations \ {l} : liq'[q] = liq[q]
  BY MirrorTypes, DiscoverTypes
<1>2. Quiet /\ queue' = queue /\ req' = req /\ locks' = locks /\ faults' = faults /\ owed' = owed
  BY DEF Discover, Quiet, history
<1>3. Others(l) /\ QueueRight'
  BY <1>1, <1>2, QuietOthers
<1>4. OwedTypes' /\ Kept' /\ \A k \in Keys : KeyRight(k)'
  BY <1>2, QuietStep
<1>5. \/ liq'[l].pc = "done"
      \/ liq'[l].pc = "lock" /\ liq'[l].todo = liq'[l].markets /\ DOMAIN liq'[l].got = {}
  <2>1. PICK t \in Traders : LET found == {m \in Markets : Known(<<t, m>>) # None} IN
        liq' = [liq EXCEPT ![l] =
          IF found = {} THEN [pc |-> "done"]
          ELSE [pc |-> "lock", who |-> t, markets |-> found, todo |-> found, got |-> [m \in {} |-> None]]]
    BY DEF Discover
  <2>2. PICK found : found = {m \in Markets : Known(<<t, m>>) # None}
    OBVIOUS
  <2>3. liq' = [liq EXCEPT ![l] =
          IF found = {} THEN [pc |-> "done"]
          ELSE [pc |-> "lock", who |-> t, markets |-> found, todo |-> found, got |-> [m \in {} |-> None]]]
    BY <2>1, <2>2
  <2>4. liq = [q \in Liquidations |-> liq[q]]
    BY MirrorTypes DEF Types, LiqTypes
  <2> QED BY <2>3, <2>4
<1>6. LiqKnows(l)' /\ LiqLocked(l)' /\ LiqRight(l)'
  <2>1. owed[l] = NoOwed /\ ~InQueue(l)
    BY <1>1, MirrorTypes DEF LiqRight, Idle
  <2>2. owed'[l] = NoOwed /\ ~InQueue(l)'
    BY <1>2, <2>1, SameQueue
  <2> QED BY <1>5, <2>2 DEF LiqKnows, LiqLocked, LiqRight
<1> QED BY <1>2, <1>3, <1>4, <1>6, MirrorTypes, LiqMirror

LEMMA LockNextMirror ==
  ASSUME MirrorInv, LockInv', NEW l \in Liquidations, LockNext(l)
  PROVE  MirrorInv'
<1>a. PICK m, k, o, u : m = NextMarket(l) /\ k = LKey(l, m) /\ o = liq[l] /\ u = liq'[l]
  OBVIOUS
<1>1. /\ o.pc = "lock" /\ \A q \in Liquidations \ {l} : liq'[q] = liq[q]
      /\ k = <<o.who, m>> /\ k \in Keys /\ locks[k] = Free /\ locks' = [locks EXCEPT ![k] = l]
      /\ m \in o.todo
  BY <1>a, MirrorTypes, LockNextTypes
<1>2. Quiet /\ queue' = queue /\ req' = req /\ faults' = faults /\ owed' = owed
  BY DEF LockNext, Quiet, history
<1>3. Others(l) /\ QueueRight'
  <2>1. \A x \in Keys : locks[x] \notin {l, Free} => locks'[x] = locks[x]
    BY <1>1, MirrorTypes DEF Types, Wires
  <2> QED BY <1>1, <1>2, <2>1, QuietOthers
<1>4. OwedTypes' /\ Kept' /\ \A x \in Keys : KeyRight(x)'
  BY <1>2, QuietStep
<1>5. /\ u.who = o.who /\ u.markets = o.markets /\ u.got = o.got
      /\ \/ u.pc = "read" /\ o.todo = {m}
         \/ u.pc = "lock" /\ u.todo = o.todo \ {m}
  <2>1. liq = [q \in Liquidations |-> liq[q]] /\ Locking(o)
    BY <1>a, <1>1, MirrorTypes, LockingByPc DEF Types, LiqTypes
  <2>2. u = IF o.todo = {m} THEN [o EXCEPT !.pc = "read", !.todo = o.markets]
            ELSE [o EXCEPT !.todo = o.todo \ {m}]
    BY <1>a, <2>1 DEF LockNext
  <2> QED BY <1>1, <2>1, <2>2 DEF Locking
<1>6. \A n : LKey(l, n) = <<o.who, n>> /\ LKey(l, n)' = <<o.who, n>>
  BY <1>a, <1>5 DEF LKey
<1>7. LiqLocked(l)'
  <2>1. \A n \in o.markets \ o.todo : locks[<<o.who, n>>] = l
    BY <1>a, <1>1, <1>6, MirrorTypes DEF LiqLocked
  <2>2. \A x \in Keys : locks[x] = l => locks'[x] = l
    BY <1>1, MirrorTypes DEF Types, Wires
  <2>3. locks'[k] = l
    BY <1>1, MirrorTypes DEF Types, Wires
  <2>4. o.markets \subseteq Markets /\ o.who \in Traders
    BY <1>a, <1>1, MirrorTypes, LockingByPc DEF Locking
  <2>5. \A n \in o.markets : <<o.who, n>> \in Keys
    BY <2>4 DEF Keys
  <2>6. \A n \in o.markets : n = m \/ n \notin o.todo => locks'[<<o.who, n>>] = l
    BY <1>1, <2>1, <2>2, <2>3, <2>5
  <2> QED BY <1>a, <1>5, <1>6, <2>6 DEF LiqLocked
<1>8. DOMAIN u.got = {} /\ owed'[l] = NoOwed /\ ~InQueue(l)'
  <2>1. DOMAIN o.got = {} /\ owed[l] = NoOwed /\ ~InQueue(l)
    BY <1>a, <1>1, MirrorTypes DEF LiqRight
  <2> QED BY <1>2, <1>5, <2>1, SameQueue
<1>9. LiqKnows(l)' /\ LiqRight(l)'
  BY <1>a, <1>5, <1>8 DEF LiqKnows, LiqRight
<1> QED BY <1>2, <1>3, <1>4, <1>7, <1>9, MirrorTypes, LiqMirror

\* What a handler knows of a position it has read.
LEMMA KnownIsFresh ==
  ASSUME MirrorInv, NEW k \in Keys, cache[k] = None => ~Behind(k) \/ k \in suspect
  PROVE  Fresh(k, Known(k))
<1>1. KeyRight(k) /\ sealed[k] \in SealedRecords
  BY MirrorTypes
<1>2. CASE cache[k] # None
  <2>1. Known(k) = cache[k]
    BY <1>2 DEF Known
  <2>2. Fresh(k, cache[k])
    BY <1>1, <1>2, KeyCached DEF KeyRight, Fresh
  <2> QED BY <2>1, <2>2
<1>3. CASE cache[k] = None
  <2>1. Known(k) = loadSealed(sealed[k])
    BY <1>3 DEF Known
  <2>2. CASE k \in suspect
    BY <2>2 DEF Fresh
  <2>3. CASE k \notin suspect
    <3>1. k \notin overtaken /\ \A p \in Procs : owed[p][k] = Nothing
      BY <1>3, <2>3 DEF Behind
    <3>2. Fresh(k, loadSealed(sealed[k]))
      BY <1>1, <2>3, <3>1, ChainIsFresh
    <3> QED BY <2>1, <3>2
  <2> QED BY <2>2, <2>3
<1> QED BY <1>2, <1>3

LEMMA ReadNextMirror ==
  ASSUME MirrorInv, LockInv', NEW l \in Liquidations, ReadNext(l)
  PROVE  MirrorInv'
<1>a. PICK m, k, o, u : m = NextMarket(l) /\ k = LKey(l, m) /\ o = liq[l] /\ u = liq'[l]
  OBVIOUS
<1>1. o.pc = "read" /\ \A q \in Liquidations \ {l} : liq'[q] = liq[q]
  BY <1>a, MirrorTypes, ReadNextTypes
<1>2. /\ Locking(o) /\ m \in o.markets /\ k = <<o.who, m>> /\ k \in Keys /\ l \in Procs
  <2>1. Locking(o)
    BY <1>a, <1>1, MirrorTypes, LockingByPc
  <2>2. o.todo \subseteq Nat /\ o.todo # {}
    BY <1>1, <2>1, ConstantsAssumption DEF Locking
  <2>3. m \in o.todo
    BY <1>a, <2>2, FirstLeast DEF NextMarket
  <2>4. m \in o.markets /\ m \in Markets /\ o.who \in Traders
    BY <2>1, <2>3 DEF Locking
  <2> QED BY <1>a, <2>1, <2>4, MirrorTypes DEF LKey, Keys
<1>3. Quiet /\ queue' = queue /\ req' = req /\ locks' = locks /\ owed' = owed /\ faults' <= MaxFaults
  BY MirrorTypes, ConstantsAssumption DEF ReadNext, Quiet
<1>4. Others(l) /\ QueueRight'
  BY <1>1, <1>3, QuietOthers
<1>5. OwedTypes' /\ Kept' /\ \A x \in Keys : KeyRight(x)' /\ FreshStays(x)
  BY <1>3, QuietStep
<1>6. \E st, pc : /\ pc \in {"read", "size"}
                  /\ u = [o EXCEPT !.todo = o.todo \ {m}, !.pc = pc,
                            !.got = IF st = None THEN o.got
                                    ELSE [n \in DOMAIN o.got \cup {m} |-> IF n = m THEN st ELSE o.got[n]]]
                  /\ \/ st = None
                     \/ st = Known(k) /\ (cache[k] = None /\ Behind(k) => k \in suspect')
  <2>1. liq = [q \in Liquidations |-> liq[q]]
    BY MirrorTypes DEF Types, LiqTypes
  <2>2. PICK pc : pc = (IF o.todo = {m} THEN "size" ELSE "read")
    OBVIOUS
  <2>3. PICK st : /\ liq' = [liq EXCEPT ![l] =
                       [o EXCEPT !.todo = o.todo \ {m}, !.pc = pc,
                            !.got = IF st = None THEN o.got
                                    ELSE [n \in DOMAIN o.got \cup {m} |-> IF n = m THEN st ELSE o.got[n]]]]
                  /\ \/ st = None
                     \/ st = Known(k) /\ (cache[k] = None /\ Behind(k) => k \in suspect')
    <3>1. PICK known : known = Known(k)
      OBVIOUS
    <3>2. \E st \in {known, None} :
            /\ liq' = [liq EXCEPT ![l] =
                       [o EXCEPT !.todo = o.todo \ {m}, !.pc = pc,
                            !.got = IF st = None THEN o.got
                                    ELSE [n \in DOMAIN o.got \cup {m} |-> IF n = m THEN st ELSE o.got[n]]]]
            /\ \/ st = None
               \/ st = known /\ (cache[k] = None /\ Behind(k) => k \in suspect')
      BY <1>a, <2>2, <3>1 DEF ReadNext
    <3> QED BY <3>1, <3>2
  <2>4. u = [o EXCEPT !.todo = o.todo \ {m}, !.pc = pc,
               !.got = IF st = None THEN o.got
                       ELSE [n \in DOMAIN o.got \cup {m} |-> IF n = m THEN st ELSE o.got[n]]]
    BY <1>a, <2>1, <2>3
  <2>5. pc \in {"read", "size"}
    BY <2>2
  <2> QED BY <2>3, <2>4, <2>5
<1>7. PICK st, pc : /\ pc \in {"read", "size"}
                    /\ u = [o EXCEPT !.todo = o.todo \ {m}, !.pc = pc,
                            !.got = IF st = None THEN o.got
                                    ELSE [n \in DOMAIN o.got \cup {m} |-> IF n = m THEN st ELSE o.got[n]]]
                    /\ \/ st = None
                       \/ st = Known(k) /\ (cache[k] = None /\ Behind(k) => k \in suspect')
  BY <1>6
<1>8. PICK got : got = IF st = None THEN o.got
                       ELSE [n \in DOMAIN o.got \cup {m} |-> IF n = m THEN st ELSE o.got[n]]
  OBVIOUS
<1>9. u.who = o.who /\ u.markets = o.markets /\ u.got = got /\ u.pc \in {"read", "size"}
  <2>1. u = [o EXCEPT !.todo = o.todo \ {m}, !.pc = pc, !.got = got]
    BY <1>7, <1>8
  <2> QED BY <1>2, <1>7, <2>1 DEF Locking
<1>10. \A n : LKey(l, n) = <<o.who, n>> /\ LKey(l, n)' = <<o.who, n>>
  BY <1>a, <1>9 DEF LKey
<1>11. LiqLocked(l)'
  <2>1. \A n \in o.markets : locks[<<o.who, n>>] = l
    BY <1>a, <1>1, <1>10, MirrorTypes DEF LiqLocked
  <2> QED BY <1>a, <1>3, <1>9, <1>10, <2>1 DEF LiqLocked
<1>12. LiqKnows(l)'
  <2>1. \A n \in DOMAIN o.got : Fresh(<<o.who, n>>, o.got[n])
    BY <1>a, <1>1, <1>10, MirrorTypes DEF LiqKnows
  <2>2. \A n \in DOMAIN o.got : <<o.who, n>> \in Keys
    BY <1>2 DEF Locking, Keys
  <2>3. ASSUME NEW n \in DOMAIN o.got PROVE Fresh(<<o.who, n>>, o.got[n])'
    <3>1. PICK x, g : x = <<o.who, n>> /\ g = o.got[n]
      OBVIOUS
    <3>2. Fresh(x, g) /\ x \in Keys
      BY <2>1, <2>2, <3>1
    <3>3. Fresh(x, g)'
      BY <1>5, <3>2 DEF FreshStays
    <3> QED BY <3>1, <3>3 DEF Fresh
  <2>4. ASSUME st # None PROVE Fresh(k, st)'
    <3>1. st = Known(k) /\ (cache[k] = None /\ Behind(k) => k \in suspect')
      BY <1>7, <2>4
    <3>2. CASE k \in suspect'
      BY <3>2 DEF Fresh
    <3>3. CASE k \notin suspect'
      <4>1. cache[k] = None => ~Behind(k) \/ k \in suspect
        BY <3>1, <3>3
      <4>2. Fresh(k, st)
        BY <1>2, <3>1, <4>1, KnownIsFresh
      <4> QED BY <1>2, <1>5, <4>2 DEF FreshStays
    <3> QED BY <3>2, <3>3
  <2>5. ASSUME NEW n \in DOMAIN got PROVE Fresh(<<o.who, n>>, got[n])'
    <3>1. CASE st = None
      BY <1>8, <2>3, <2>5, <3>1
    <3>2. CASE st # None /\ n = m
      <4>1. got[n] = st /\ <<o.who, n>> = k
        BY <1>2, <1>8, <3>2
      <4>2. Fresh(k, st)'
        BY <2>4, <3>2
      <4> QED BY <4>1, <4>2
    <3>3. CASE st # None /\ n # m
      <4>1. n \in DOMAIN o.got /\ got[n] = o.got[n]
        BY <1>8, <2>5, <3>3
      <4>2. Fresh(<<o.who, n>>, o.got[n])'
        BY <2>3, <4>1
      <4> QED BY <4>1, <4>2
    <3> QED BY <3>1, <3>2, <3>3
  <2>6. (liq[l].pc)' \in {"read", "size"} /\ (liq[l].got)' = got
    BY <1>a, <1>9
  <2> QED BY <1>10, <2>5, <2>6 DEF LiqKnows
<1>13. LiqRight(l)'
  <2>1. owed[l] = NoOwed /\ ~InQueue(l)
    BY <1>a, <1>1, MirrorTypes DEF LiqRight
  <2>2. owed'[l] = NoOwed /\ ~InQueue(l)'
    BY <1>3, <2>1, SameQueue
  <2> QED BY <1>a, <1>9, <2>2 DEF LiqRight
<1> QED BY <1>3, <1>4, <1>5, <1>11, <1>12, <1>13, LiqMirror

SizedParams(st) == IF st.size = 0 THEN Empty ELSE ParamsOf(st)
SizedOwed(held, z, n) ==
  [coll |-> z.delta, size |-> z.st.size - held.size, stamp |-> n, leg |-> n, params |-> SizedParams(z.st)]
SizedLeg(k, z, n) == [key |-> k, delta |-> z.delta, stamp |-> n, params |-> SizedParams(z.st)]
\* The liquidation o sizes its legs, sized, and becomes u.
Sizes(l, o, u, sized) ==
  /\ Locking(o)
  /\ \A m \in DOMAIN o.got : sized[m].st \in Positions /\ sized[m].delta \in Int
                             /\ sized[m].st.coll = o.got[m].coll + sized[m].delta
  /\ u.pc = "send" /\ u.who = o.who /\ u.markets = o.markets /\ u.left = DOMAIN o.got
  /\ \A m \in DOMAIN o.got : u.legs[m] = SizedLeg(<<o.who, m>>, sized[m], stamp[<<o.who, m>>] + 1)
  /\ cache' = [k \in Keys |-> IF k[1] = o.who /\ k[2] \in DOMAIN o.got
                              THEN IF sized[k[2]].st.size = 0 THEN None ELSE sized[k[2]].st ELSE cache[k]]
  /\ owed' = [owed EXCEPT ![l] = [k \in Keys |-> IF k[1] = o.who /\ k[2] \in DOMAIN o.got
                              THEN SizedOwed(o.got[k[2]], sized[k[2]], stamp[k] + 1) ELSE owed[l][k]]]
  /\ stamp' = [k \in Keys |-> IF k[1] = o.who /\ k[2] \in DOMAIN o.got THEN stamp[k] + 1 ELSE stamp[k]]
  /\ locks' = locks

LEMMA SizeMade ==
  ASSUME MirrorInv, NEW l \in Liquidations, Size(l), NEW oo, oo = liq[l], NEW uu, uu = liq'[l]
  PROVE  \/ /\ liq'[l].pc = "done" /\ locks' = Release(l) /\ cache' = cache /\ owed' = owed /\ stamp' = stamp
         \/ \E sized : Sizes(l, oo, uu, sized)
<1> DEFINE o == liq[l]
           held == o.got
<1>0. Types /\ liq = [q \in Liquidations |-> liq[q]]
  BY MirrorTypes DEF Types, LiqTypes
<1>1. o.pc = "size" /\ Locking(o)
  BY <1>0, LockingByPc DEF Size, Types, LiqTypes
<1>2. PICK live \in [o.markets -> Marks], f \in FundingIndexes :
        LET margin == compute_margin(held, live)
            sized  == [m \in DOMAIN held |-> size_liquidation_leg(held[m], CloseBps(margin), live[m], f)]
            At(k)  == k[1] = o.who /\ k[2] \in DOMAIN held
            LegAt(k) == LET st == sized[k[2]].st
                        IN [key |-> k, delta |-> sized[k[2]].delta, stamp |-> stamp[k] + 1,
                            params |-> IF st.size = 0 THEN Empty ELSE ParamsOf(st)]
        IN IF ~margin.breached
           THEN /\ locks' = Release(l)
                /\ liq' = [liq EXCEPT ![l] = [pc |-> "done"]]
                /\ UNCHANGED <<cache, owed, stamp>>
           ELSE /\ cache' = [k \in Keys |-> IF ~At(k) THEN cache[k]
                                           ELSE IF sized[k[2]].st.size = 0 THEN None ELSE sized[k[2]].st]
                /\ liq' = [liq EXCEPT ![l] =
                     [pc |-> "send", who |-> o.who, markets |-> o.markets, left |-> DOMAIN held,
                      legs |-> [m \in DOMAIN held |-> LegAt(<<o.who, m>>)], failed |-> FALSE,
                      requirement |-> margin.requirement]]
                /\ owed' = [owed EXCEPT ![l] = [k \in Keys |-> IF ~At(k) THEN owed[l][k]
                     ELSE [coll |-> sized[k[2]].delta, size |-> sized[k[2]].st.size - held[k[2]].size,
                           stamp |-> stamp[k] + 1, leg |-> stamp[k] + 1, params |-> LegAt(k).params]]]
                /\ stamp' = [k \in Keys |-> IF At(k) THEN stamp[k] + 1 ELSE stamp[k]]
                /\ UNCHANGED locks
  <2>1. owed = [p \in Procs |-> owed[p]] /\ l \in Procs
    BY MirrorTypes DEF OwedTypes
  <2> QED BY <2>1 DEF Size
<1> DEFINE margin == compute_margin(held, live)
           bps == CloseBps(margin)
           sized == [m \in DOMAIN held |-> size_liquidation_leg(held[m], bps, live[m], f)]
           At(k) == k[1] = o.who /\ k[2] \in DOMAIN held
           LegAt(k) == [key |-> k, delta |-> sized[k[2]].delta, stamp |-> stamp[k] + 1,
                        params |-> IF sized[k[2]].st.size = 0 THEN Empty ELSE ParamsOf(sized[k[2]].st)]
           legs == [m \in DOMAIN held |-> LegAt(<<o.who, m>>)]
           u == [pc |-> "send", who |-> o.who, markets |-> o.markets, left |-> DOMAIN held,
                 legs |-> legs, failed |-> FALSE, requirement |-> margin.requirement]
<1>4. CASE ~margin.breached
  <2>1. /\ locks' = Release(l) /\ liq' = [liq EXCEPT ![l] = [pc |-> "done"]] /\ UNCHANGED <<cache, owed, stamp>>
    BY <1>2, <1>4
  <2>2. liq'[l].pc = "done"
    BY <1>0, <2>1, LiqOverTypes DEF Types
  <2> QED BY <2>1, <2>2
<1>5. CASE margin.breached
  <2>1. /\ cache' = [k \in Keys |-> IF ~At(k) THEN cache[k]
                                    ELSE IF sized[k[2]].st.size = 0 THEN None ELSE sized[k[2]].st]
        /\ liq' = [liq EXCEPT ![l] = u]
        /\ owed' = [owed EXCEPT ![l] = [k \in Keys |-> IF ~At(k) THEN owed[l][k]
                     ELSE [coll |-> sized[k[2]].delta, size |-> sized[k[2]].st.size - held[k[2]].size,
                           stamp |-> stamp[k] + 1, leg |-> stamp[k] + 1, params |-> LegAt(k).params]]]
        /\ stamp' = [k \in Keys |-> IF At(k) THEN stamp[k] + 1 ELSE stamp[k]]
        /\ UNCHANGED locks
    BY <1>2, <1>5
  <2>2. /\ IsFiniteSet(DOMAIN held) /\ DOMAIN held \subseteq o.markets /\ o.markets \subseteq Markets
        /\ \A m \in DOMAIN held : held[m] \in Positions /\ live[m] \in Nat
        /\ o.who \in Traders /\ f \in Int
    <3>1. DOMAIN held \subseteq o.markets /\ o.markets \subseteq Markets /\ o.who \in Traders
          /\ \A m \in DOMAIN held : held[m] \in Positions
      BY <1>1 DEF Locking
    <3>2. DOMAIN held \subseteq Markets /\ IsFiniteSet(Markets)
      BY <3>1, ConstantsAssumption
    <3>3. IsFiniteSet(DOMAIN held)
      BY <3>2, FS_Subset
    <3>4. Marks \subseteq Nat /\ f \in Int
      BY ConstantsAssumption
    <3> QED BY <3>1, <3>3, <3>4
  <2>3. margin.requirement \in Nat /\ bps \in Int
    BY <2>2, ShareInt
  <2> HIDE DEF bps, margin
  <2>4. \A m \in DOMAIN held : sized[m].st \in Positions /\ sized[m].delta \in Int
                               /\ sized[m].st.coll = held[m].coll + sized[m].delta
    <3> TAKE m \in DOMAIN held
    <3>1. PICK st, price, z : st = held[m] /\ price = live[m] /\ z = size_liquidation_leg(st, bps, price, f)
      OBVIOUS
    <3>a. st \in Positions /\ price \in Nat /\ bps \in Int /\ f \in Int
      BY <2>2, <2>3, <3>1
    <3>b. z = size_liquidation_leg(st, bps, price, f)
      BY <3>1
    <3>2. z.st \in Positions /\ z.delta \in Int /\ z.st.coll = st.coll + z.delta
      BY <3>a, <3>b, LiquidationLeg
    <3>3. sized[m] = z
      BY <3>1
    <3> HIDE DEF sized
    <3> QED BY <3>1, <3>2, <3>3
  <2> HIDE DEF sized
  <2>5. uu.pc = "send" /\ uu.who = o.who /\ uu.markets = o.markets /\ uu.left = DOMAIN held /\ uu.legs = legs
    <3>1. uu = u
      BY <1>0, <2>1
    <3> HIDE DEF legs
    <3> QED BY <3>1
  <2>6. \A m \in DOMAIN held : legs[m] = SizedLeg(<<o.who, m>>, sized[m], stamp[<<o.who, m>>] + 1)
    BY DEF SizedLeg, SizedParams
  <2>7. /\ cache' = [k \in Keys |-> IF k[1] = o.who /\ k[2] \in DOMAIN held
                              THEN IF sized[k[2]].st.size = 0 THEN None ELSE sized[k[2]].st ELSE cache[k]]
        /\ stamp' = [k \in Keys |-> IF k[1] = o.who /\ k[2] \in DOMAIN held THEN stamp[k] + 1 ELSE stamp[k]]
    BY <2>1
  <2>8. owed' = [owed EXCEPT ![l] = [k \in Keys |-> IF k[1] = o.who /\ k[2] \in DOMAIN held
                              THEN SizedOwed(held[k[2]], sized[k[2]], stamp[k] + 1) ELSE owed[l][k]]]
    BY <2>1 DEF SizedOwed, SizedParams
  <2> HIDE DEF legs
  <2>9. Sizes(l, o, uu, sized)
    BY <1>1, <2>1, <2>4, <2>5, <2>6, <2>7, <2>8 DEF Sizes
  <2> QED BY <2>9
<1> QED BY <1>4, <1>5

LEMMA StampsSize ==
  ASSUME NEW O, NEW L, NEW S, Stamps(O, L, S), NEW p \in Procs,
         NEW Q \in Owings, \A q \in Procs \ {p} : Q[q] = O[q], Q[p].stamp = S + 1, Q[p].leg = S + 1
  PROVE  Stamps(Q, L, S + 1)
<1>1. /\ S \in Nat /\ L.stamp \in Nat /\ L.stamp <= S
      /\ \A q \in Procs : /\ O[q].stamp \in Nat /\ O[q].leg \in Nat
                          /\ O[q].stamp <= S /\ O[q].leg <= S
                          /\ O[q].leg # 0 => O[q].stamp <= O[q].leg
                          /\ O[q].stamp = 0 => O[q] = Nothing
  BY StampsFields
<1>2. L \in Landings
  BY DEF Stamps
<1>3. ASSUME NEW q \in Procs
      PROVE  /\ Q[q].stamp <= S + 1 /\ Q[q].leg <= S + 1
             /\ Q[q].leg # 0 => Q[q].stamp <= Q[q].leg
             /\ Q[q].stamp = 0 => Q[q] = Nothing
  <2>1. CASE q = p
    BY <1>1, <2>1
  <2>2. CASE q # p
    <3>1. Q[q] = O[q]
      BY <2>2
    <3> QED BY <1>1, <3>1
  <2> QED BY <2>1, <2>2
<1> QED BY <1>1, <1>2, <1>3 DEF Stamps

\* The outcome of one market: its key is right, and its leg ready to be sent.
LEMMA SizeKey ==
  ASSUME MirrorInv, OwedTypes', NEW l \in Liquidations, NEW o, o = liq[l], NEW u, NEW sized, Sizes(l, o, u, sized),
         o.pc = "size", sealed' = sealed, landed' = landed, overtaken' = overtaken, suspect' = suspect,
         NEW m \in DOMAIN o.got, NEW k, k = <<o.who, m>>
  PROVE  /\ k \in Keys /\ locks[k] = l /\ KeyRight(k)'
         /\ u.legs[m] \in Legs /\ u.legs[m].key = k /\ Carries(owed'[l][k], <<u.legs[m]>>, k)
<1>1. /\ Locking(o) /\ m \in o.markets /\ k \in Keys /\ o.got[m] \in Positions
      /\ k[1] = o.who /\ k[2] = m
  BY DEF Sizes, Locking, Keys
<1>2. PICK z, held, n : z = sized[m] /\ held = o.got[m] /\ n = stamp[k] + 1
  OBVIOUS
<1>3. /\ z.st \in Positions /\ z.delta \in Int /\ z.st.coll = held.coll + z.delta /\ held \in Positions
      /\ n \in Nat /\ l \in Procs
  BY <1>1, <1>2, MirrorTypes DEF Sizes
<1>4. /\ cache'[k] = (IF z.st.size = 0 THEN None ELSE z.st)
      /\ stamp'[k] = n /\ u.legs[m] = SizedLeg(k, z, n)
      /\ locks' = locks
  BY <1>1, <1>2 DEF Sizes
<1>5. owed'[l][k] = SizedOwed(held, z, n) /\ \A q \in Procs \ {l} : owed'[q] = owed[q]
  <2>1. owed \in [Procs -> [Keys -> OwedRecords]]
    BY MirrorTypes DEF OwedTypes
  <2> QED BY <1>1, <1>2, <1>3, <2>1 DEF Sizes
<1>6. locks[k] = l /\ Fresh(k, held) /\ owed[l][k] = Nothing
  <2>1. LKey(l, m) = k
    BY DEF LKey
  <2>2. locks[k] = l
    BY <1>1, <2>1, MirrorTypes DEF LiqLocked
  <2>3. Fresh(k, held)
    BY <1>2, <2>1, MirrorTypes DEF LiqKnows
  <2>4. owed[l] = NoOwed
    BY MirrorTypes DEF LiqRight
  <2> QED BY <1>1, <2>2, <2>3, <2>4 DEF NoOwed
<1>7. PICK size, params : size = z.st.size - held.size /\ params = SizedParams(z.st)
  OBVIOUS
<1>8. size \in Int /\ params \in Params /\ z.st.size = held.size + size
  <2>1. z.st.size \in Int /\ held.size \in Int
    BY <1>3, PositionFields
  <2>2. params \in Params
    BY <1>3, <1>7, ParamsMade DEF SizedParams, Params
  <2> QED BY <1>7, <2>1, <2>2
<1>9. PICK v : v = owed'[l][k]
  OBVIOUS
<1>10. v \in OwedRecords /\ v.coll = z.delta /\ v.size = size /\ v.stamp = n /\ v.leg = n /\ v.params = params
  <2>1. v = [coll |-> z.delta, size |-> size, stamp |-> n, leg |-> n, params |-> params]
    BY <1>5, <1>7, <1>9 DEF SizedOwed
  <2> QED BY <1>3, <1>8, <2>1, OwedMade
<1>11. KeyRight(k)' /\ v # Nothing /\ n # 0
  <2>1. PICK O, Q, L, S, c, rec, late, d :
          /\ O = OwedAt(k) /\ late = (k \in overtaken) /\ L = landed[k]
          /\ S = stamp[k] /\ c = cache[k] /\ rec = sealed[k] /\ Q = OwedAt(k)' /\ d = cache'[k]
    OBVIOUS
  <2>2. Q \in Owings
    BY <1>1, <2>1 DEF OwedTypes, OwedAt, Owings
  <2>3. /\ \A q \in Procs \ {l} : Q[q] = O[q]
        /\ O[l] = Nothing /\ Q[l] = v
    BY <1>3, <1>5, <1>6, <1>9, <2>1 DEF OwedAt
  <2>4. Stamps(O, L, S) /\ (k \in suspect \/ KeyInv(O, L, S, c, rec, late)) /\ rec.coll \in Int
    BY <1>1, <2>1, MirrorTypes DEF KeyRight
  <2>5. n = S + 1 /\ n # 0
    <3>1. S \in Nat
      BY <2>4, StampsFields
    <3> QED BY <1>2, <2>1, <3>1
  <2>6. Stamps(Q, L, S + 1)
    BY <1>3, <1>10, <2>2, <2>3, <2>4, <2>5, StampsSize
  <2>7. ASSUME k \notin suspect PROVE KeyInv(Q, L, S + 1, d, rec, late)
    <3>1. Knows(O, L, rec, held) /\ KeyInv(O, L, S, c, rec, late)
      BY <1>6, <2>1, <2>4, <2>7 DEF Fresh
    <3>2. held # None /\ z.st # None
      BY <1>3, PositionFields
    <3>3. held.coll = rec.coll + TotalColl(O) /\ held.size = L.size + Total(O)
      BY <3>1, <3>2 DEF Knows
    <3>4. Q[l].stamp = S + 1 /\ Q[l].leg = S + 1 /\ Q[l].coll = z.delta /\ Q[l].size = size
          /\ Q[l].params = (IF z.st.size = 0 THEN Empty ELSE ParamsOf(z.st))
      BY <1>7, <1>10, <2>3, <2>5 DEF SizedParams
    <3>5. z.st.coll = rec.coll + TotalColl(O) + Q[l].coll /\ z.st.size = L.size + Total(O) + Q[l].size
      BY <1>3, <1>8, <3>3, <3>4
    <3>6. PICK new : new = z.st
      OBVIOUS
    <3>7. d = (IF new.size = 0 THEN None ELSE new) /\ new # None
      BY <1>4, <2>1, <3>2, <3>6
    <3>8. /\ new.coll = rec.coll + TotalColl(O) + Q[l].coll /\ new.size = L.size + Total(O) + Q[l].size
          /\ Q[l].params = (IF new.size = 0 THEN Empty ELSE ParamsOf(new))
      BY <3>4, <3>5, <3>6
    <3> QED BY <1>3, <2>2, <2>3, <2>4, <3>1, <3>4, <3>7, <3>8, KeySize
  <2>8. stamp'[k] = S + 1
    BY <1>4, <2>5
  <2>9. KeyRight(k)'
    BY <2>1, <2>6, <2>7, <2>8 DEF KeyRight
  <2>10. v # Nothing
    BY <1>10, <2>5, NothingOwed
  <2> QED BY <2>5, <2>9, <2>10
<1>12. PICK leg : leg = u.legs[m]
  OBVIOUS
<1>13. leg \in Legs /\ leg.key = k /\ leg.delta = z.delta /\ leg.stamp = n /\ leg.params = params
  <2>1. leg = [key |-> k, delta |-> z.delta, params |-> params, stamp |-> n]
    BY <1>4, <1>7, <1>12 DEF SizedLeg
  <2> QED BY <1>1, <1>3, <1>8, <2>1, LegMade
<1>14. Carries(v, <<leg>>, k)
  <2>1. v.coll = leg.delta /\ v.leg = leg.stamp /\ v.leg # 0 /\ v.params = leg.params
    BY <1>10, <1>11, <1>13
  <2> QED BY <1>11, <1>13, <2>1, CarriesOne
<1> QED BY <1>1, <1>6, <1>9, <1>11, <1>12, <1>13, <1>14

LEMMA SizeMirror ==
  ASSUME MirrorInv, LockInv', NEW l \in Liquidations, Size(l)
  PROVE  MirrorInv'
<1>a. PICK o, u : o = liq[l] /\ u = liq'[l]
  OBVIOUS
<1>1. o.pc = "size" /\ Locking(o) /\ \A q \in Liquidations \ {l} : liq'[q] = liq[q]
  BY <1>a, MirrorTypes, SizeTypes, LockingByPc
<1>2. /\ sealed' = sealed /\ queue' = queue /\ req' = req /\ faults' = faults /\ landed' = landed
      /\ overtaken' = overtaken /\ suspect' = suspect
  BY DEF Size
<1>3. l \in Procs /\ faults' <= MaxFaults /\ owed[l] = NoOwed /\ ~InQueue(l)
  BY <1>a, <1>1, <1>2, MirrorTypes DEF LiqRight
<1>4. CASE u.pc = "done" /\ locks' = Release(l) /\ cache' = cache /\ owed' = owed /\ stamp' = stamp
  <2>1. Quiet
    BY <1>2, <1>4 DEF Quiet
  <2>2. \A x \in Keys : locks[x] \notin {l, Free} => locks'[x] = locks[x]
    BY <1>4 DEF Release
  <2>3. Others(l) /\ QueueRight'
    BY <1>1, <1>2, <2>1, <2>2, QuietOthers
  <2>4. OwedTypes' /\ Kept' /\ \A x \in Keys : KeyRight(x)'
    BY <2>1, QuietStep
  <2>5. LiqKnows(l)' /\ LiqLocked(l)' /\ LiqRight(l)'
    BY <1>a, <1>4, LiqRests
  <2> QED BY <1>3, <2>3, <2>4, <2>5, LiqMirror
<1>5. CASE \E sized : Sizes(l, o, u, sized)
  <2>1. PICK sized : Sizes(l, o, u, sized)
    BY <1>5
  <2>2. PICK At : At = {k \in Keys : k[1] = o.who /\ k[2] \in DOMAIN o.got}
    OBVIOUS
  <2>3. owed \in [Procs -> [Keys -> OwedRecords]] /\ landed \in [Keys -> Landings] /\ stamp \in [Keys -> Nat]
    BY MirrorTypes DEF OwedTypes, Types, Store
  <2>4. /\ \A q \in Procs \ {l} : owed'[q] = owed[q]
        /\ \A k \in Keys \ At : owed'[l][k] = owed[l][k] /\ cache'[k] = cache[k] /\ stamp'[k] = stamp[k]
        /\ \A k \in At : /\ owed'[l][k] = SizedOwed(o.got[k[2]], sized[k[2]], stamp[k] + 1)
                         /\ cache'[k] = (IF sized[k[2]].st.size = 0 THEN None ELSE sized[k[2]].st)
    BY <1>3, <2>1, <2>2, <2>3 DEF Sizes
  <2>5. OwedTypes'
    <3>1. ASSUME NEW k \in At PROVE SizedOwed(o.got[k[2]], sized[k[2]], stamp[k] + 1) \in OwedRecords
      <4>1. PICK z, held, n : z = sized[k[2]] /\ held = o.got[k[2]] /\ n = stamp[k] + 1
        OBVIOUS
      <4>2. z.st \in Positions /\ z.delta \in Int /\ held \in Positions /\ n \in Nat
        BY <2>1, <2>2, <2>3, <4>1 DEF Sizes, Locking
      <4>3. PICK size, params : size = z.st.size - held.size /\ params = SizedParams(z.st)
        OBVIOUS
      <4>4. size \in Int /\ params \in Params
        BY <4>2, <4>3, PositionFields, ParamsMade DEF SizedParams, Params
      <4>5. SizedOwed(held, z, n) = [coll |-> z.delta, size |-> size, stamp |-> n, leg |-> n, params |-> params]
        BY <4>3 DEF SizedOwed
      <4> QED BY <4>1, <4>2, <4>4, <4>5, OwedMade
    <3>2. PICK W : W = [k \in Keys |-> IF k[1] = o.who /\ k[2] \in DOMAIN o.got
                              THEN SizedOwed(o.got[k[2]], sized[k[2]], stamp[k] + 1) ELSE owed[l][k]]
      OBVIOUS
    <3>3. W \in [Keys -> OwedRecords]
      <4>1. \A k \in Keys : k \in At => SizedOwed(o.got[k[2]], sized[k[2]], stamp[k] + 1) \in OwedRecords
        BY <3>1
      <4>2. \A k \in Keys : owed[l][k] \in OwedRecords
        BY <1>3, <2>3
      <4> QED BY <2>2, <3>2, <4>1, <4>2
    <3>4. owed' = [owed EXCEPT ![l] = W]
      BY <2>1, <3>2 DEF Sizes
    <3>5. owed' \in [Procs -> [Keys -> OwedRecords]]
      BY <2>3, <3>3, <3>4
    <3> QED BY <1>2, <2>3, <3>5 DEF OwedTypes
  <2>6. \A k \in At : k[2] \in DOMAIN o.got /\ k = <<o.who, k[2]>>
    BY <2>2 DEF Keys
  <2>7. ASSUME NEW k \in Keys PROVE KeyRight(k)' /\ (locks[k] # l => FreshStays(k))
    <3>1. CASE k \in At
      <4>1. PICK m \in DOMAIN o.got : k = <<o.who, m>>
        BY <2>6, <3>1
      <4>2. locks[k] = l
        <5>1. m \in o.markets /\ LKey(l, m) = k
          BY <1>a, <1>1, <4>1 DEF LKey, Locking
        <5> QED BY <1>a, <1>1, <5>1, MirrorTypes DEF LiqLocked
      <4>3. KeyRight(k)'
        BY <1>a, <1>1, <1>2, <2>1, <2>5, <4>1, SizeKey
      <4> QED BY <4>2, <4>3
    <3>2. CASE k \notin At
      <4>1. Still(k)
        BY <1>2, <2>4, <3>2 DEF Still
      <4> QED BY <4>1, KeyStill, MirrorTypes
    <3> QED BY <3>1, <3>2
  <2>8. Kept'
    <3>1. \A k \in Keys : cache'[k] = None \/ cache'[k].size # 0
      BY <2>4, MirrorTypes DEF Kept
    <3> QED BY <1>2, <3>1, MirrorTypes DEF Kept
  <2>9. QueueRight'
    <3>1. QueuedKeys(l) = {}
      BY <1>3, QueuedIs
    <3> QED BY <1>2, <2>4, <3>1, SentStays, MirrorTypes
  <2>10. Others(l)
    <3>1. \A k \in Keys : locks[k] \notin {l, Free} => locks'[k] = locks[k] /\ FreshStays(k)
      BY <2>1, <2>7 DEF Sizes
    <3> QED BY <1>1, <1>2, <2>4, <3>1, SameQueue DEF Others
  <2>11. /\ u.pc = "send" /\ u.who = o.who /\ u.markets = o.markets /\ u.left = DOMAIN o.got /\ locks' = locks
    BY <2>1 DEF Sizes
  <2>12. \A n : LKey(l, n) = <<o.who, n>> /\ LKey(l, n)' = <<o.who, n>>
    BY <1>a, <2>11 DEF LKey
  <2>13. LiqKnows(l)' /\ LiqLocked(l)'
    <3>1. \A n \in o.markets : locks[<<o.who, n>>] = l
      BY <1>a, <1>1, <2>12, MirrorTypes DEF LiqLocked
    <3> QED BY <1>a, <2>11, <2>12, <3>1 DEF LiqKnows, LiqLocked
  <2>14. LiqRight(l)'
    <3>1. ASSUME NEW m \in DOMAIN o.got PROVE LegReady(l, m)'
      <4>1. PICK k : k = <<o.who, m>>
        OBVIOUS
      <4>2. u.legs[m].key = k /\ Carries(owed'[l][k], <<u.legs[m]>>, k)
        BY <1>a, <1>1, <1>2, <2>1, <2>5, <4>1, SizeKey
      <4>3. k \notin QueuedKeys(l)'
        <5>1. QueuedKeys(l) = {}
          BY <1>3, QueuedIs
        <5> QED BY <1>2, <5>1, SameQueue
      <4> QED BY <1>a, <2>12, <4>1, <4>2, <4>3 DEF LegReady
    <3> QED BY <1>a, <2>11, <3>1 DEF LiqRight
  <2> QED BY <1>3, <2>5, <2>7, <2>8, <2>9, <2>10, <2>13, <2>14, LiqMirror
<1> QED BY <1>a, <1>4, <1>5, SizeMade

\* A step of a liquidation that settles its legs: the copies are used up, the
\* locks kept.
LEMMA SendingKeeps ==
  ASSUME MirrorInv, NEW l \in Liquidations, NEW o, o = liq[l], o.pc \in {"send", "sent"},
         NEW u, u = liq'[l], u.pc \in {"send", "sent"}, u.who = o.who, u.markets = o.markets, locks' = locks
  PROVE  /\ LiqKnows(l)' /\ LiqLocked(l)'
         /\ \A m : LKey(l, m) = <<o.who, m>> /\ LKey(l, m)' = <<o.who, m>>
         /\ (\A m \in u.left : LegReady(l, m)') => LiqRight(l)'
<1>1. \A m : LKey(l, m) = <<o.who, m>> /\ LKey(l, m)' = <<o.who, m>>
  BY DEF LKey
<1>2. \A m \in o.markets : locks[<<o.who, m>>] = l
  BY <1>1, MirrorTypes DEF LiqLocked
<1>3. LiqKnows(l)' /\ LiqLocked(l)'
  BY <1>1, <1>2 DEF LiqKnows, LiqLocked
<1>4. (\A m \in u.left : LegReady(l, m)') => LiqRight(l)'
  BY DEF LiqRight
<1> QED BY <1>1, <1>3, <1>4

LEMMA QueuedAppend ==
  ASSUME queue \in Seq(Txs), NEW tx, queue' = Append(queue, tx), NEW p, NEW k, k \in QueuedKeys(p)'
  PROVE  k \in QueuedKeys(p) \/ (tx.owner = p /\ k \in KeysOf(tx.legs))
<1> DEFINE n == Len(queue)
<1>1. n \in Nat /\ DOMAIN queue = 1..n /\ DOMAIN queue' = 1..n + 1 /\ queue'[n + 1] = tx
      /\ \A i \in 1..n : queue'[i] = queue[i]
  OBVIOUS
<1> HIDE DEF n
<1>2. PICK i \in DOMAIN queue' : queue'[i].owner = p /\ k \in KeysIn(queue[i])'
  BY DEF QueuedKeys
<1>3. PICK u : u = queue'[i]
  OBVIOUS
<1>4. k \in KeysOf(u.legs) /\ u.owner = p
  BY <1>2, <1>3 DEF KeysIn, KeysOf
<1>5. i \in 1..n \/ i = n + 1
  BY <1>1, <1>2
<1>6. CASE i \in 1..n
  BY <1>1, <1>3, <1>4, <1>6, QueuedIs
<1>7. CASE i = n + 1
  BY <1>1, <1>3, <1>4, <1>7
<1> QED BY <1>5, <1>6, <1>7

LEMMA SendLiquidationMirror ==
  ASSUME MirrorInv, LockInv', NEW l \in Liquidations, SendLiquidation(l)
  PROVE  MirrorInv'
<1>a. PICK o, u : o = liq[l] /\ u = liq'[l]
  OBVIOUS
<1>1. o.pc = "send" /\ Sending(o) /\ \A q \in Liquidations \ {l} : liq'[q] = liq[q]
  BY <1>a, MirrorTypes, SendLiquidationTypes, LockingByPc
<1>2. Quiet /\ req' = req /\ locks' = locks /\ owed' = owed /\ faults' <= MaxFaults
  BY MirrorTypes, ConstantsAssumption DEF SendLiquidation, Quiet, history, Sent, Refused
<1>3. PICK m \in o.left :
        /\ queue' = Append(queue, LiqTx(l, m)) \/ queue' = queue
        /\ \/ liq' = [liq EXCEPT ![l].pc = "sent", ![l].left = @ \ {m}]
           \/ liq' = [liq EXCEPT ![l].failed = TRUE, ![l].left = @ \ {m}]
  BY <1>a DEF SendLiquidation, Sent, Refused
<1>4. /\ u.pc \in {"send", "sent"} /\ u.who = o.who /\ u.markets = o.markets /\ u.legs = o.legs
      /\ u.left = o.left \ {m}
  <2>1. liq = [q \in Liquidations |-> liq[q]]
    BY MirrorTypes DEF Types, LiqTypes
  <2>2. PICK left : left = o.left \ {m}
    OBVIOUS
  <2>3. u = [o EXCEPT !.pc = "sent", !.left = left] \/ u = [o EXCEPT !.failed = TRUE, !.left = left]
    BY <1>a, <1>3, <2>1, <2>2
  <2>4. /\ o.pc \in {"send", "sent"} /\ u.pc \in {"send", "sent"} /\ u.left = left
        /\ \A x \in DOMAIN o \ {"pc", "left", "failed"} : u[x] = o[x]
    BY <1>1, <2>3 DEF Sending
  <2> QED BY <1>1, <2>2, <2>4 DEF Sending
<1>5. /\ LiqKnows(l)' /\ LiqLocked(l)'
      /\ \A n : LKey(l, n) = <<o.who, n>> /\ LKey(l, n)' = <<o.who, n>>
      /\ (\A n \in u.left : LegReady(l, n)') => LiqRight(l)'
  BY <1>a, <1>1, <1>2, <1>4, SendingKeeps
<1>6. PICK tx, k, leg : tx = LiqTx(l, m) /\ k = <<o.who, m>> /\ leg = o.legs[m]
  OBVIOUS
<1>7. tx.owner = l /\ tx.kind = "liquidate" /\ tx.legs = <<leg>> /\ leg \in Legs
  BY <1>a, <1>1, <1>6 DEF LiqTx, Sending
<1>8. \A n \in o.left : LegReady(l, n)
  BY <1>a, <1>1, MirrorTypes DEF LiqRight
<1>9. leg.key = k /\ Carries(owed[l][k], <<leg>>, k) /\ k \notin QueuedKeys(l) /\ KeysOf(tx.legs) = {k}
  <2>1. LegReady(l, m)
    BY <1>8
  <2>2. leg.key = k /\ Carries(owed[l][k], <<leg>>, k) /\ k \notin QueuedKeys(l)
    BY <1>a, <1>5, <1>6, <2>1 DEF LegReady
  <2> QED BY <1>7, <2>2, DeltaOne
<1>10. Others(l) /\ QueueRight'
  <2>1. TxRight(tx)
    BY <1>7, <1>9 DEF TxRight
  <2> QED BY <1>1, <1>2, <1>3, <1>6, <1>7, <1>9, <2>1, SendOthers, MirrorTypes
<1>11. OwedTypes' /\ Kept' /\ \A x \in Keys : KeyRight(x)'
  BY <1>2, QuietStep
<1>12. LiqRight(l)'
  <2>1. ASSUME NEW n \in u.left PROVE LegReady(l, n)'
    <3>1. PICK x : x = <<o.who, n>>
      OBVIOUS
    <3>2. LegReady(l, n) /\ n # m
      BY <1>4, <1>8, <2>1
    <3>3. o.legs[n].key = x /\ Carries(owed[l][x], <<o.legs[n]>>, x) /\ x \notin QueuedKeys(l) /\ x # k
      BY <1>a, <1>5, <1>6, <3>1, <3>2 DEF LegReady
    <3>4. x \notin QueuedKeys(l)'
      <4>1. CASE queue' = queue
        BY <3>3, <4>1, SameQueue
      <4>2. CASE queue' = Append(queue, tx)
        <5>1. queue \in Seq(Txs)
          BY MirrorTypes DEF Types, Wires
        <5> QED BY <1>9, <3>3, <4>2, <5>1, QueuedAppend
      <4> QED BY <1>3, <1>6, <4>1, <4>2
    <3> QED BY <1>a, <1>2, <1>4, <1>5, <3>1, <3>3, <3>4 DEF LegReady
  <2> QED BY <1>5, <2>1
<1> QED BY <1>2, <1>5, <1>10, <1>11, <1>12, LiqMirror

LEMMA ConfirmLiquidationMirror ==
  ASSUME MirrorInv, LockInv', NEW l \in Liquidations, ConfirmLiquidation(l)
  PROVE  MirrorInv'
<1>a. PICK o, u : o = liq[l] /\ u = liq'[l]
  OBVIOUS
<1>1. o.pc = "sent" /\ Sending(o) /\ \A q \in Liquidations \ {l} : liq'[q] = liq[q]
  BY <1>a, MirrorTypes, ConfirmLiquidationTypes, LockingByPc
<1>2. Quiet /\ req' = req /\ locks' = locks /\ owed' = owed /\ queue' = queue /\ faults' <= MaxFaults
  BY MirrorTypes, ConstantsAssumption DEF ConfirmLiquidation, Quiet, history, Receipt, ReceiptLost
<1>3. Others(l) /\ QueueRight'
  BY <1>1, <1>2, QuietOthers
<1>4. /\ u.pc = "send" /\ u.who = o.who /\ u.markets = o.markets /\ u.legs = o.legs /\ u.left = o.left
  <2>1. liq = [q \in Liquidations |-> liq[q]]
    BY MirrorTypes DEF Types, LiqTypes
  <2>2. u = [o EXCEPT !.pc = "send"] \/ u = [o EXCEPT !.pc = "send", !.failed = TRUE]
    BY <1>a, <2>1 DEF ConfirmLiquidation
  <2> QED BY <1>1, <2>2 DEF Sending
<1>5. /\ LiqKnows(l)' /\ LiqLocked(l)'
      /\ \A n : LKey(l, n) = <<o.who, n>> /\ LKey(l, n)' = <<o.who, n>>
      /\ (\A n \in u.left : LegReady(l, n)') => LiqRight(l)'
  BY <1>a, <1>1, <1>2, <1>4, SendingKeeps
<1>6. ASSUME NEW n \in u.left PROVE LegReady(l, n)'
  <2>1. PICK x : x = <<o.who, n>>
    OBVIOUS
  <2>2. LegReady(l, n)
    BY <1>a, <1>1, <1>4, <1>6, MirrorTypes DEF LiqRight
  <2>3. o.legs[n].key = x /\ Carries(owed[l][x], <<o.legs[n]>>, x) /\ x \notin QueuedKeys(l)
    BY <1>a, <1>5, <2>1, <2>2 DEF LegReady
  <2>4. x \notin QueuedKeys(l)'
    BY <1>2, <2>3, SameQueue
  <2> QED BY <1>a, <1>2, <1>4, <1>5, <2>1, <2>3, <2>4 DEF LegReady
<1>7. OwedTypes' /\ Kept' /\ \A x \in Keys : KeyRight(x)'
  BY <1>2, QuietStep
<1> QED BY <1>2, <1>3, <1>5, <1>6, <1>7, LiqMirror

LEMMA FinishLiquidationMirror ==
  ASSUME MirrorInv, LockInv', NEW l \in Liquidations, FinishLiquidation(l)
  PROVE  MirrorInv'
<1>a. PICK o : o = liq[l]
  OBVIOUS
<1>1. /\ o.pc = "send" /\ Sending(o) /\ liq'[l].pc = "done" /\ \A q \in Liquidations \ {l} : liq'[q] = liq[q]
      /\ locks' = Release(l)
  BY <1>a, MirrorTypes, FinishLiquidationTypes, LockingByPc
<1>2. PICK keys, built : keys = {LKey(l, m) : m \in liq[l].markets} /\ built = {k \in keys : BuiltOn(l, k)}
  OBVIOUS
<1>3. /\ sealed' = sealed /\ landed' = landed /\ stamp' = stamp /\ overtaken' = overtaken
      /\ queue' = queue /\ req' = req /\ faults' = faults
      /\ \/ cache' = cache /\ owed' = owed /\ suspect' = suspect
         \/ /\ cache' = [k \in Keys |-> IF k \in keys THEN None ELSE cache[k]]
            /\ Lose(l, keys, built, keys)
  BY <1>2 DEF FinishLiquidation
<1>4. faults' <= MaxFaults /\ l \in Procs
  BY <1>3, MirrorTypes
<1>5. \A x \in Keys : locks[x] \notin {l, Free} => locks'[x] = locks[x]
  BY <1>1 DEF Release
<1>6. LiqKnows(l)' /\ LiqLocked(l)' /\ LiqRight(l)'
  BY <1>1, LiqRests
<1>7. CASE cache' = cache /\ owed' = owed /\ suspect' = suspect
  <2>1. Quiet
    BY <1>3, <1>7 DEF Quiet
  <2>2. Others(l) /\ QueueRight'
    BY <1>1, <1>3, <1>5, <2>1, QuietOthers
  <2>3. OwedTypes' /\ Kept' /\ \A x \in Keys : KeyRight(x)'
    BY <2>1, QuietStep
  <2> QED BY <1>4, <1>6, <2>2, <2>3, LiqMirror
<1>8. CASE /\ cache' = [k \in Keys |-> IF k \in keys THEN None ELSE cache[k]]
           /\ Lose(l, keys, built, keys)
  <2>1. \A k \in keys : k \in Keys /\ locks[k] = l
    <3> SUFFICES ASSUME NEW k \in keys PROVE k \in Keys /\ locks[k] = l
      OBVIOUS
    <3>1. PICK m \in o.markets : k = LKey(l, m)
      BY <1>a, <1>2
    <3>2. locks[k] = l
      BY <1>a, <1>1, <3>1, MirrorTypes DEF LiqLocked
    <3> QED BY <1>a, <1>1, <3>1, <3>2 DEF LKey, Keys, Sending
  <2>2. \A k \in keys \ built : ~BuiltOn(l, k)
    BY <1>2
  <2>3. Loses(l, keys, built, keys)
    BY <1>3, <1>8, <2>1, <2>2 DEF Loses
  <2>4. LosesWell(l)
    BY <1>4, <2>3, LoseStep
  <2>5. Others(l)
    BY <1>1, <1>3, <1>5, <2>4, SameQueue DEF Others, LosesWell
  <2> QED BY <1>4, <1>6, <2>4, <2>5, LiqMirror DEF LosesWell
<1> QED BY <1>3, <1>7, <1>8

LEMMA DropLiquidationMirror ==
  ASSUME MirrorInv, LockInv', NEW l \in Liquidations, DropLiquidation(l)
  PROVE  MirrorInv'
<1>1. /\ liq'[l].pc = "done" /\ \A q \in Liquidations \ {l} : liq'[q] = liq[q]
      /\ locks' = Release(l)
  BY MirrorTypes, DropLiquidationTypes
<1>2. /\ cache' = cache /\ sealed' = sealed /\ landed' = landed /\ stamp' = stamp /\ overtaken' = overtaken
      /\ queue' = queue /\ req' = req /\ Lose(l, Keys, Keys, {}) /\ faults' = faults + 1 /\ faults < MaxFaults
  BY DEF DropLiquidation, Dropped
<1>3. faults' <= MaxFaults /\ l \in Procs
  BY <1>2, MirrorTypes, ConstantsAssumption
<1>4. Loses(l, Keys, Keys, {})
  BY <1>2 DEF Loses
<1>5. LosesWell(l)
  BY <1>3, <1>4, LoseStep
<1>6. \A k \in Keys : locks[k] \notin {l, Free} => locks'[k] = locks[k]
  BY <1>1 DEF Release
<1>7. Others(l)
  BY <1>1, <1>2, <1>5, <1>6, SameQueue DEF Others, LosesWell
<1>8. LiqKnows(l)' /\ LiqLocked(l)' /\ LiqRight(l)'
  BY <1>1, LiqRests
<1> QED BY <1>3, <1>5, <1>7, <1>8, LiqMirror DEF LosesWell

-----------------------------------------------------------------------------
(* The mirror: the flush loop *)

LEMMA DrainMirror ==
  ASSUME MirrorInv, LockInv', Drain
  PROVE  MirrorInv'
<1>1. Quiet /\ queue' = queue /\ req' = req /\ liq' = liq /\ locks' = locks /\ faults' = faults
  BY DEF Drain, Quiet, history
<1>2. Others(Flusher) /\ QueueRight'
  BY <1>1, QuietOthers
<1>3. OwedTypes' /\ Kept' /\ \A k \in Keys : KeyRight(k)'
  BY <1>1, QuietStep
<1> QED BY <1>1, <1>2, <1>3, MirrorTypes, FlushMirror

LEMMA SendBatchMirror ==
  ASSUME MirrorInv, LockInv', SendBatch
  PROVE  MirrorInv'
<1>1. queue' = Append(queue, BatchTx) \/ queue' = queue
  BY DEF SendBatch, Sent, Refused
<1>2. Quiet /\ req' = req /\ liq' = liq /\ locks' = locks /\ faults' <= MaxFaults
  BY MirrorTypes, ConstantsAssumption DEF SendBatch, Quiet, history, Sent, Refused
<1>3. Others(Flusher) /\ QueueRight'
  <2>1. PICK tx : tx = BatchTx
    OBVIOUS
  <2>2. tx.owner = Flusher /\ tx.kind = "pnl" /\ tx.legs = <<>> /\ Flusher \in Procs
    BY <2>1 DEF BatchTx, Procs
  <2>3. KeysOf(tx.legs) = {}
    BY <2>2 DEF KeysOf
  <2>4. TxRight(tx)
    BY <2>2, <2>3 DEF TxRight
  <2> QED BY <1>1, <1>2, <2>1, <2>2, <2>3, <2>4, SendOthers
<1>4. OwedTypes' /\ Kept' /\ \A k \in Keys : KeyRight(k)'
  BY <1>2, QuietStep
<1> QED BY <1>2, <1>3, <1>4, FlushMirror

LEMMA ConfirmBatchMirror ==
  ASSUME MirrorInv, LockInv', ConfirmBatch
  PROVE  MirrorInv'
<1>1. Quiet /\ queue' = queue /\ req' = req /\ liq' = liq /\ locks' = locks /\ faults' <= MaxFaults
  BY MirrorTypes, ConstantsAssumption DEF ConfirmBatch, Quiet, history, Receipt, ReceiptLost
<1>2. Others(Flusher) /\ QueueRight'
  BY <1>1, QuietOthers
<1>3. OwedTypes' /\ Kept' /\ \A k \in Keys : KeyRight(k)'
  BY <1>1, QuietStep
<1> QED BY <1>1, <1>2, <1>3, FlushMirror

-----------------------------------------------------------------------------
(* The mirror: the chain mines *)

LEMMA StampsMine ==
  ASSUME NEW O, NEW L, NEW S, Stamps(O, L, S), NEW p \in Procs,
         NEW Q \in Owings, \A q \in Procs \ {p} : Q[q] = O[q], Q[p] = Nothing,
         NEW M \in Landings, M.stamp = (IF O[p].leg < L.stamp THEN L.stamp ELSE O[p].leg)
  PROVE  Stamps(Q, M, S)
<1>1. /\ S \in Nat /\ L.stamp \in Nat /\ L.stamp <= S
      /\ \A q \in Procs : /\ O[q].stamp <= S /\ O[q].leg <= S
                          /\ O[q].leg # 0 => O[q].stamp <= O[q].leg
                          /\ O[q].stamp = 0 => O[q] = Nothing
  BY StampsFields
<1>2. M.stamp <= S
  BY <1>1
<1>3. \A q \in Procs : Q[q] = O[q] \/ Q[q] = Nothing
  OBVIOUS
<1> QED BY <1>1, <1>2, <1>3, NothingOwed DEF Stamps

\* The transaction of p lands on keys, or reverts.
MineLands(p, keys) ==
  /\ suspect' = suspect
  /\ \A k \in Keys \ keys : /\ sealed'[k] = sealed[k] /\ landed'[k] = landed[k]
                            /\ (k \in overtaken) = (k \in overtaken')
  /\ \A k \in keys :
       /\ owed[p][k] # Nothing /\ owed[p][k].leg # 0
       /\ sealed'[k].coll = sealed[k].coll + owed[p][k].coll /\ sealed'[k].params = owed[p][k].params
       /\ landed'[k] = [size |-> landed[k].size + owed[p][k].size,
                        stamp |-> IF owed[p][k].leg < landed[k].stamp THEN landed[k].stamp ELSE owed[p][k].leg]
       /\ (k \in overtaken') = (owed[p][k].leg < landed[k].stamp)
MineReverts(keys) ==
  /\ suspect' = suspect \cup keys /\ sealed' = sealed /\ landed' = landed /\ overtaken' = overtaken
Mines(p, keys) ==
  /\ p \in Procs /\ keys \subseteq Keys
  /\ owed' = [owed EXCEPT ![p] = [k \in Keys |-> IF k \in keys THEN Nothing ELSE owed[p][k]]]
  /\ cache' = cache /\ stamp' = stamp
  /\ landed' = [k \in Keys |-> landed'[k]]
  /\ \A k \in Keys : sealed'[k].coll >= 0
  /\ MineLands(p, keys) \/ MineReverts(keys)
MinesWell(p, keys) ==
  /\ OwedTypes' /\ Kept' /\ \A k \in Keys : KeyRight(k)' /\ FreshStays(k)
  /\ \A q \in Procs \ {p} : owed'[q] = owed[q]
  /\ \A k \in Keys \ keys : owed'[p][k] = owed[p][k]

LEMMA MineKeys ==
  ASSUME MirrorInv, NEW p, NEW keys, Mines(p, keys)
  PROVE  MinesWell(p, keys)
<1>1. /\ p \in Procs /\ keys \subseteq Keys
      /\ owed' = [owed EXCEPT ![p] = [k \in Keys |-> IF k \in keys THEN Nothing ELSE owed[p][k]]]
      /\ cache' = cache /\ stamp' = stamp
      /\ landed' = [k \in Keys |-> landed'[k]]
      /\ \A k \in Keys : sealed'[k].coll >= 0
  BY DEF Mines
<1>2. owed \in [Procs -> [Keys -> OwedRecords]] /\ landed \in [Keys -> Landings]
  BY MirrorTypes DEF OwedTypes
<1>3. /\ \A q \in Procs \ {p} : owed'[q] = owed[q]
      /\ \A k \in Keys \ keys : owed'[p][k] = owed[p][k]
      /\ \A k \in keys : owed'[p][k] = Nothing
  BY <1>1, <1>2
<1>4. owed' \in [Procs -> [Keys -> OwedRecords]]
  BY <1>1, <1>2, NothingOwed
<1>5. ASSUME MineLands(p, keys), NEW k \in keys PROVE landed'[k] \in Landings
  <2>1. PICK w, L : w = owed[p][k] /\ L = landed[k]
    OBVIOUS
  <2>2. w \in OwedRecords /\ L \in Landings
    BY <1>1, <1>2, <2>1
  <2>3. w.size \in Int /\ w.leg \in Nat /\ L.size \in Int /\ L.stamp \in Nat
    BY <2>2, OwedFields DEF Landings
  <2>4. landed'[k] = [size |-> L.size + w.size, stamp |-> IF w.leg < L.stamp THEN L.stamp ELSE w.leg]
    BY <1>5, <2>1 DEF MineLands
  <2> QED BY <2>3, <2>4 DEF Landings
<1>6. OwedTypes'
  <2>1. MineLands(p, keys) \/ MineReverts(keys)
    BY DEF Mines
  <2>2. \A k \in Keys : landed'[k] \in Landings
    <3>1. ASSUME MineLands(p, keys), NEW k \in Keys PROVE landed'[k] \in Landings
      <4>1. CASE k \in keys
        BY <1>5, <3>1, <4>1
      <4>2. CASE k \notin keys
        BY <1>2, <3>1, <4>2 DEF MineLands
      <4> QED BY <4>1, <4>2
    <3>2. ASSUME MineReverts(keys), NEW k \in Keys PROVE landed'[k] \in Landings
      BY <1>2, <3>2 DEF MineReverts
    <3> QED BY <2>1, <3>1, <3>2
  <2>3. landed' \in [Keys -> Landings]
    BY <1>1, <2>2
  <2> QED BY <1>4, <2>3 DEF OwedTypes
<1>7. Kept'
  BY <1>1, MirrorTypes DEF Kept
<1>8. ASSUME NEW k \in Keys PROVE KeyRight(k)' /\ FreshStays(k)
  <2>1. CASE k \notin keys
    <3>1. Still(k)
      BY <1>1, <1>3, <2>1 DEF Still, Mines, MineLands, MineReverts
    <3> QED BY <3>1, KeyStill, MirrorTypes
  <2>2. CASE k \in keys
    <3>1. PICK O, Q, L, M, S, c, rec, new, late, after :
            /\ O = OwedAt(k) /\ late = (k \in overtaken) /\ L = landed[k]
            /\ S = stamp[k] /\ c = cache[k] /\ rec = sealed[k] /\ Q = OwedAt(k)'
            /\ M = landed'[k] /\ new = sealed'[k] /\ after = (k \in overtaken')
      OBVIOUS
    <3>2. Q \in Owings
      BY <1>6, <3>1 DEF OwedTypes, OwedAt, Owings
    <3>3. /\ \A q \in Procs \ {p} : Q[q] = O[q]
          /\ O[p] = owed[p][k] /\ Q[p] = Nothing
      <4>1. p \in Procs
        BY <1>1
      <4>2. \A q \in Procs : O[q] = owed[q][k] /\ Q[q] = owed'[q][k]
        BY <3>1 DEF OwedAt
      <4>3. (\A q \in Procs \ {p} : owed'[q] = owed[q]) /\ owed'[p][k] = Nothing
        BY <1>3, <2>2
      <4> QED BY <4>1, <4>2, <4>3
    <3>4. Stamps(O, L, S) /\ (k \in suspect \/ KeyInv(O, L, S, c, rec, late)) /\ rec.coll \in Int
      BY <3>1, MirrorTypes DEF KeyRight
    <3>5. CASE MineReverts(keys)
      <4>1. k \in suspect' /\ M = L
        BY <2>2, <3>1, <3>5 DEF MineReverts
      <4>2. \A q \in Procs : Q[q] = O[q] \/ Q[q] = Nothing
        BY <3>3
      <4>3. Stamps(Q, L, S)
        BY <3>2, <3>4, <4>2, StampsLose
      <4>4. KeyRight(k)'
        BY <1>1, <3>1, <4>1, <4>3 DEF KeyRight
      <4> QED BY <4>1, <4>4 DEF FreshStays, Fresh
    <3>6. CASE MineLands(p, keys)
      <4>1. PICK w : w = O[p]
        OBVIOUS
      <4>2. /\ suspect' = suspect /\ w # Nothing /\ w.leg # 0
            /\ new.coll = rec.coll + w.coll /\ new.params = w.params
            /\ M.size = L.size + w.size /\ M.stamp = (IF w.leg < L.stamp THEN L.stamp ELSE w.leg)
            /\ after = (w.leg < L.stamp)
        <5>1. w = owed[p][k]
          BY <3>3, <4>1
        <5>2. /\ w # Nothing /\ w.leg # 0
              /\ sealed'[k].coll = sealed[k].coll + w.coll /\ sealed'[k].params = w.params
              /\ landed'[k] = [size |-> landed[k].size + w.size,
                               stamp |-> IF w.leg < landed[k].stamp THEN landed[k].stamp ELSE w.leg]
              /\ (k \in overtaken') = (w.leg < landed[k].stamp)
          BY <2>2, <3>6, <5>1 DEF MineLands
        <5>3. suspect' = suspect
          BY <3>6 DEF MineLands
        <5>4. M = [size |-> L.size + w.size, stamp |-> IF w.leg < L.stamp THEN L.stamp ELSE w.leg]
          BY <3>1, <5>2
        <5>5. new.coll = rec.coll + w.coll /\ new.params = w.params /\ after = (w.leg < L.stamp)
          BY <3>1, <5>2
        <5> QED BY <5>2, <5>3, <5>4, <5>5
      <4>3. M \in Landings
        BY <1>5, <2>2, <3>1, <3>6
      <4>4. Stamps(Q, M, S)
        BY <1>1, <3>2, <3>3, <3>4, <4>1, <4>2, <4>3, StampsMine
      <4>5. ASSUME k \notin suspect
            PROVE  /\ KeyInv(Q, M, S, c, new, after)
                   /\ \A g : Knows(O, L, rec, g) => Knows(Q, M, new, g)
        <5>1. KeyInv(O, L, S, c, rec, late)
          BY <3>4, <4>5
        <5>2. p \in Procs /\ Stamps(O, L, S) /\ rec.coll \in Int /\ \A q \in Procs \ {p} : Q[q] = O[q]
          BY <1>1, <3>3, <3>4
        <5>3. O[p] # Nothing /\ O[p].leg # 0 /\ Q[p] = Nothing
          BY <3>3, <4>1, <4>2
        <5>4. /\ M.size = L.size + O[p].size /\ M.stamp = (IF O[p].leg < L.stamp THEN L.stamp ELSE O[p].leg)
              /\ new.coll = rec.coll + O[p].coll /\ new.params = O[p].params /\ after = (O[p].leg < L.stamp)
          BY <4>1, <4>2
        <5>5. KeyInv(Q, M, S, c, new, after)
          BY <3>2, <4>3, <5>1, <5>2, <5>3, <5>4, KeyMine
        <5>6. \A g : Knows(O, L, rec, g) => Knows(Q, M, new, g)
          BY <3>2, <4>3, <5>1, <5>2, <5>3, <5>4, KeyMine
        <5> QED BY <5>5, <5>6
      <4>6. KeyRight(k)'
        BY <1>1, <3>1, <4>2, <4>4, <4>5 DEF KeyRight
      <4>7. ASSUME NEW g, Fresh(k, g) PROVE Fresh(k, g)'
        BY <3>1, <4>2, <4>5, <4>7 DEF Fresh
      <4> QED BY <4>6, <4>7 DEF FreshStays
    <3> QED BY <3>5, <3>6 DEF Mines
  <2> QED BY <2>1, <2>2
<1> QED BY <1>3, <1>6, <1>7, <1>8 DEF MinesWell

\* What Mine does, in these terms.
LEMMA MineMade ==
  ASSUME MirrorInv, Mine, NEW tx, tx = Head(queue)
  PROVE  Mines(tx.owner, KeysOf(tx.legs)) /\ faults' = faults
<1> DEFINE p == tx.owner
           legs == tx.legs
           keys == KeysIn(tx)
           newest(k) == legs[LastOn(legs, k)].stamp
           old == {k \in keys : newest(k) < landed[k].stamp}
<1>1. /\ queue # <<>> /\ queue' = Tail(queue)
      /\ owed' = [owed EXCEPT ![p] = [k \in Keys |-> IF k \in keys THEN Nothing ELSE @[k]]]
      /\ IF Reverts(tx)
           THEN suspect' = suspect \cup keys /\ UNCHANGED <<sealed, landed, overtaken>>
           ELSE /\ sealed' = Outcome(tx)
                /\ landed' = [k \in Keys |-> IF k \notin keys THEN landed[k]
                                 ELSE [size |-> landed[k].size + owed[p][k].size,
                                       stamp |-> IF k \in old THEN landed[k].stamp ELSE newest(k)]]
                /\ overtaken' = (overtaken \ keys) \cup old
                /\ UNCHANGED suspect
      /\ cache' = cache /\ stamp' = stamp /\ faults' = faults
  BY DEF Mine
<1>2. /\ tx \in Txs /\ legs \in Seq(Legs) /\ p \in Procs /\ tx = queue[1] /\ 1 \in DOMAIN queue
  BY <1>1, HeadOfQueue, MirrorTypes DEF Types
<1>3. TxRight(tx)
  BY <1>2, MirrorTypes DEF QueueRight
<1>4. keys = KeysOf(legs)
  BY DEF KeysIn, KeysOf
<1>5. keys \subseteq Keys
  BY <1>2, <1>4, KeysOfIn, LegFields
<1>6. /\ owed \in [Procs -> [Keys -> OwedRecords]] /\ landed \in [Keys -> Landings]
      /\ sealed \in SealedMaps
  BY MirrorTypes DEF OwedTypes, Types, Store
<1>7. owed' = [owed EXCEPT ![p] = [k \in Keys |-> IF k \in keys THEN Nothing ELSE owed[p][k]]]
  BY <1>1
<1> HIDE DEF keys
<1>8. \A k \in Keys : sealed[k].coll >= 0
  BY MirrorTypes DEF Kept
<1>9. CASE Reverts(tx)
  <2>1. MineReverts(keys)
    BY <1>1, <1>9 DEF MineReverts
  <2>2. landed' = [k \in Keys |-> landed'[k]] /\ \A k \in Keys : sealed'[k].coll >= 0
    BY <1>6, <1>8, <2>1 DEF MineReverts
  <2> QED BY <1>1, <1>2, <1>4, <1>5, <1>7, <2>1, <2>2 DEF Mines
<1>10. CASE ~Reverts(tx)
  <2>1. /\ sealed' = Outcome(tx)
        /\ landed' = [k \in Keys |-> IF k \notin keys THEN landed[k]
                                 ELSE [size |-> landed[k].size + owed[p][k].size,
                                       stamp |-> IF k \in old THEN landed[k].stamp ELSE newest(k)]]
        /\ overtaken' = (overtaken \ keys) \cup old
        /\ UNCHANGED suspect
    BY <1>1, <1>10
  <2>2. \/ tx.kind = "pnl" /\ Outcome(tx) = sealed /\ keys = {}
        \/ Outcome(tx) = ApplyLegs(sealed, legs) /\ ApplyLegs(sealed, legs) # Reverted
    <3>1. CASE tx.kind = "pnl"
      <4>1. legs = <<>>
        BY <1>3, <3>1 DEF TxRight
      <4>2. keys = {}
        BY <1>4, <4>1 DEF KeysOf
      <4> QED BY <3>1, <4>2 DEF Outcome
    <3>2. CASE tx.kind # "pnl"
      <4>1. Outcome(tx) # Reverted
        BY <1>10, <3>2 DEF Reverts
      <4>2. Outcome(tx) = Reverted \/ Outcome(tx) = ApplyLegs(sealed, legs)
        <5>1. tx.kind \in {"sweep", "liquidate"}
          BY <1>2, <3>2 DEF Txs
        <5> QED BY <5>1 DEF Outcome, settleTakerSweep, liquidateSealed
      <4> QED BY <4>1, <4>2
    <3> QED BY <3>1, <3>2
  <2>3. ASSUME NEW k \in keys
        PROVE  /\ owed[p][k] # Nothing /\ owed[p][k].leg # 0 /\ owed[p][k].coll = DeltaOn(legs, k)
               /\ newest(k) = owed[p][k].leg
               /\ \E i \in 1..Len(legs) : Newest(legs, k, i) /\ owed[p][k].params = legs[i].params
    <3>1. PICK w : w = owed[p][k]
      OBVIOUS
    <3>2. Carries(w, legs, k)
      BY <1>3, <1>4, <2>3, <3>1 DEF TxRight
    <3>3. PICK i \in 1..Len(legs) : Newest(legs, k, i) /\ w.leg = legs[i].stamp /\ w.params = legs[i].params
      BY <3>2 DEF Carries
    <3>4. LastOn(legs, k) = i
      BY <1>2, <3>3, NewestIsLast
    <3> QED BY <3>1, <3>2, <3>3, <3>4 DEF Carries
  <2>4. \A k \in keys : k \in old <=> owed[p][k].leg < landed[k].stamp
    BY <2>3
  <2>5. /\ \A k \in Keys \ keys : k \notin old
        /\ \A k \in keys : (k \in overtaken') = (k \in old)
        /\ \A k \in Keys \ keys : (k \in overtaken') = (k \in overtaken)
    BY <2>1
  <2>6. ASSUME NEW k \in keys
        PROVE  landed'[k] = [size |-> landed[k].size + owed[p][k].size,
                             stamp |-> IF owed[p][k].leg < landed[k].stamp THEN landed[k].stamp ELSE owed[p][k].leg]
    BY <1>5, <2>1, <2>3, <2>4
  <2>7. \A k \in Keys \ keys : landed'[k] = landed[k]
    BY <2>1
  <2>8. landed' = [k \in Keys |-> landed'[k]]
    BY <2>1
  <2> HIDE DEF old, newest
  <2>9. /\ \A k \in Keys \ keys : sealed'[k] = sealed[k]
        /\ \A k \in keys : sealed'[k].coll = sealed[k].coll + owed[p][k].coll /\ sealed'[k].params = owed[p][k].params
        /\ \A k \in Keys : sealed'[k].coll >= 0
    <3>1. CASE Outcome(tx) = sealed /\ keys = {}
      BY <1>8, <2>1, <3>1
    <3>2. CASE Outcome(tx) = ApplyLegs(sealed, legs) /\ ApplyLegs(sealed, legs) # Reverted
      <4>1. PICK to : to = sealed'
        OBVIOUS
      <4>2. Applied(sealed, legs, to)
        BY <1>2, <1>6, <2>1, <3>2, <4>1, LegsApplied
      <4>3. \A k \in Keys \ keys : to[k] = sealed[k]
        BY <1>4, <4>2 DEF Applied
      <4>4. \A k \in Keys : to[k].coll >= 0
        BY <1>8, <4>2 DEF Applied
      <4>5. ASSUME NEW k \in keys
            PROVE  to[k].coll = sealed[k].coll + owed[p][k].coll /\ to[k].params = owed[p][k].params
        BY <1>5, <2>3, <4>2, <4>5 DEF Applied
      <4> QED BY <4>1, <4>3, <4>4, <4>5
    <3> QED BY <2>2, <3>1, <3>2
  <2>10. MineLands(p, keys)
    BY <2>1, <2>3, <2>4, <2>5, <2>6, <2>7, <2>9 DEF MineLands
  <2> QED BY <1>1, <1>2, <1>4, <1>5, <1>7, <2>8, <2>9, <2>10 DEF Mines
<1> QED BY <1>9, <1>10

\* The queue without its first transaction.
LEMMA QueueShrinks ==
  ASSUME MirrorInv, queue # <<>>, queue' = Tail(queue), NEW tx, tx = Head(queue)
  PROVE  /\ tx \in Txs /\ tx.owner \in Procs /\ tx.legs \in Seq(Legs) /\ tx = queue[1] /\ 1 \in DOMAIN queue
         /\ \A i \in DOMAIN queue' : i + 1 \in DOMAIN queue /\ queue'[i] = queue[i + 1] /\ i + 1 # 1
         /\ \A q : (InQueue(q)' => InQueue(q)) /\ QueuedKeys(q)' \subseteq QueuedKeys(q)
         /\ InQueue(tx.owner) /\ KeysOf(tx.legs) \subseteq QueuedKeys(tx.owner)
<1>0. Wires
  BY MirrorTypes DEF Types
<1>1. /\ tx \in Txs /\ tx.legs \in Seq(Legs) /\ tx.owner \in Procs /\ tx = queue[1] /\ 1 \in DOMAIN queue
      /\ \A i \in DOMAIN queue' : i + 1 \in DOMAIN queue /\ queue'[i] = queue[i + 1]
  BY <1>0, HeadOfQueue
<1>2. \A i \in DOMAIN queue' : i + 1 # 1
  <2>1. queue' \in Seq(Txs)
    BY <1>0, HeadOfQueue
  <2>2. \A i \in DOMAIN queue' : i \in Nat /\ i # 0
    BY <2>1
  <2> QED BY <2>2
<1>3. ASSUME NEW q, InQueue(q)' PROVE InQueue(q)
  BY <1>1, <1>3 DEF InQueue
<1>4. ASSUME NEW q, NEW k \in QueuedKeys(q)' PROVE k \in QueuedKeys(q)
  <2>1. PICK i \in DOMAIN queue' : queue'[i].owner = q /\ k \in KeysIn(queue[i])'
    BY <1>4 DEF QueuedKeys
  <2>2. PICK u : u = queue'[i]
    OBVIOUS
  <2>3. k \in KeysOf(u.legs) /\ u.owner = q
    BY <2>1, <2>2 DEF KeysIn, KeysOf
  <2>4. i + 1 \in DOMAIN queue /\ queue[i + 1] = u
    BY <1>1, <2>1, <2>2
  <2> QED BY <2>3, <2>4, QueuedIs
<1>5. InQueue(tx.owner) /\ KeysOf(tx.legs) \subseteq QueuedKeys(tx.owner)
  BY <1>1, QueuedIs
<1> QED BY <1>1, <1>2, <1>3, <1>4, <1>5

LEMMA MineMirror ==
  ASSUME MirrorInv, LockInv', Mine
  PROVE  MirrorInv'
<1>a. PICK tx, p, keys : tx = Head(queue) /\ p = tx.owner /\ keys = KeysOf(tx.legs)
  OBVIOUS
<1>1. /\ queue # <<>> /\ queue' = Tail(queue)
      /\ req' = req /\ liq' = liq /\ locks' = locks
  BY DEF Mine
<1>2. Mines(p, keys) /\ faults' = faults
  BY <1>a, MineMade
<1>3. MinesWell(p, keys)
  BY <1>2, MineKeys
<1>4. /\ OwedTypes' /\ Kept' /\ \A k \in Keys : KeyRight(k)' /\ FreshStays(k)
      /\ \A q \in Procs \ {p} : owed'[q] = owed[q]
      /\ \A k \in Keys \ keys : owed'[p][k] = owed[p][k]
  BY <1>3 DEF MinesWell
<1>5. /\ p \in Procs /\ tx = queue[1] /\ 1 \in DOMAIN queue
      /\ \A i \in DOMAIN queue' : i + 1 \in DOMAIN queue /\ queue'[i] = queue[i + 1] /\ i + 1 # 1
      /\ \A q : (InQueue(q)' => InQueue(q)) /\ QueuedKeys(q)' \subseteq QueuedKeys(q)
      /\ InQueue(p) /\ keys \subseteq QueuedKeys(p)
  BY <1>1, <1>a, QueueShrinks
<1>6. Others(p)
  BY <1>1, <1>4, <1>5 DEF Others
<1>7. QueueRight'
  <2>1. ASSUME NEW i \in DOMAIN queue'
        PROVE  TxRight(queue[i])'
    <3>1. PICK u : u = queue'[i]
      OBVIOUS
    <3>2. i + 1 \in DOMAIN queue /\ queue[i + 1] = u /\ i + 1 # 1
      BY <1>5, <3>1
    <3>3. TxRight(u)
      BY <3>2, MirrorTypes DEF QueueRight
    <3>4. u \in Txs
      BY <3>2, MirrorTypes DEF Types, Wires
    <3>5. u.owner \in Procs /\ u.legs \in Seq(Legs)
      BY <3>4 DEF Txs
    <3>6. ASSUME NEW k \in KeysOf(u.legs) PROVE owed'[u.owner][k] = owed[u.owner][k]
      <4>1. CASE u.owner # p
        BY <1>4, <3>5, <4>1
      <4>2. CASE u.owner = p
        <5>1. k \notin keys
          BY <1>5, <1>a, <3>2, <4>2, MirrorTypes DEF QueueRight
        <5>2. k \in Keys
          BY <3>5, KeysOfIn, LegFields
        <5> QED BY <1>4, <4>2, <5>1, <5>2
      <4> QED BY <4>1, <4>2
    <3>7. TxRight(u)'
      BY <3>3, <3>6 DEF TxRight
    <3> QED BY <3>1, <3>7 DEF TxRight
  <2>2. ASSUME NEW i \in DOMAIN queue', NEW j \in DOMAIN queue', i # j, queue'[i].owner = queue'[j].owner,
               NEW k \in KeysOf(queue'[i].legs)
        PROVE  k \notin KeysOf(queue'[j].legs)
    <3>1. i + 1 \in DOMAIN queue /\ j + 1 \in DOMAIN queue /\ queue'[i] = queue[i + 1] /\ queue'[j] = queue[j + 1]
      BY <1>5
    <3>2. i + 1 # j + 1
      <4>1. queue' \in Seq(Txs)
        BY <1>1, MirrorTypes, HeadOfQueue DEF Types
      <4>2. i \in Nat /\ j \in Nat
        BY <4>1
      <4> QED BY <2>2, <4>2
    <3> QED BY <2>2, <3>1, <3>2, MirrorTypes DEF QueueRight
  <2> QED BY <2>1, <2>2 DEF QueueRight, KeysOf
<1>8. ASSUME NEW r \in Orders
      PROVE  OrderKnows(r)' /\ OrderLocked(r)' /\ OrderRight(r)'
  <2>1. OrderKnows(r) /\ OrderLocked(r) /\ OrderRight(r)
    BY MirrorTypes
  <2>2. CASE r # p
    BY <1>5, <1>6, <2>1, <2>2, OrderStays, MirrorTypes
  <2>3. CASE r = p
    <3>1. req[r].pc \notin {"idle", "match", "lock", "read", "fold", "leg", "spawn", "queued"}
      BY <1>5, <2>1, <2>3 DEF OrderRight, OrderFits
    <3>2. req'[r] = req[r] /\ locks' = locks
      BY <1>1
    <3> QED BY <3>1, <3>2 DEF OrderKnows, OrderLocked, OrderRight, OrderFits
  <2> QED BY <2>2, <2>3
<1>9. ASSUME NEW l \in Liquidations
      PROVE  LiqKnows(l)' /\ LiqLocked(l)' /\ LiqRight(l)'
  <2>1. LiqKnows(l) /\ LiqLocked(l) /\ LiqRight(l) /\ LiqOK(liq[l])
    BY MirrorTypes
  <2>2. CASE l # p
    BY <1>5, <1>6, <2>1, <2>2, LiqStays, MirrorTypes
  <2>3. CASE l = p
    <3>1. liq[l].pc \notin {"idle", "lock", "read", "size"}
      BY <1>5, <2>1, <2>3 DEF LiqRight
    <3>2. liq'[l] = liq[l] /\ locks' = locks
      BY <1>1
    <3>3. \A m : LKey(l, m)' = LKey(l, m)
      BY <3>2 DEF LKey
    <3>4. ASSUME liq[l].pc \in {"send", "sent"}, NEW m \in liq[l].left PROVE LegReady(l, m)'
      <4>1. PICK k : k = LKey(l, m)
        OBVIOUS
      <4>2. liq[l].legs[m].key = k /\ Carries(owed[l][k], <<liq[l].legs[m]>>, k) /\ k \notin QueuedKeys(l)
        BY <2>1, <3>4, <4>1 DEF LiqRight, LegReady
      <4>3. k \in Keys
        BY <2>1, <3>4, <4>1, LiqByPc DEF Sending, LKey, Keys
      <4>4. owed'[l][k] = owed[l][k]
        BY <1>4, <1>5, <2>3, <4>2, <4>3
      <4>5. k \notin QueuedKeys(l)'
        BY <1>5, <4>2
      <4> QED BY <3>2, <3>3, <4>1, <4>2, <4>4, <4>5 DEF LegReady
    <3>5. LiqRight(l)'
      BY <3>1, <3>2, <3>4 DEF LiqRight
    <3>6. LiqKnows(l)'
      BY <3>1, <3>2 DEF LiqKnows
    <3>7. LiqLocked(l)'
      BY <2>1, <3>2, <3>3 DEF LiqLocked
    <3> QED BY <3>5, <3>6, <3>7
  <2> QED BY <2>2, <2>3
<1> QED BY <1>2, <1>4, <1>7, <1>8, <1>9, MirrorTypes DEF MirrorInv, OrdersFine, LiqsFine

-----------------------------------------------------------------------------
(* The mirror: a crash *)

LEMMA CrashMirror ==
  ASSUME MirrorInv, LockInv', Crash
  PROVE  MirrorInv'
<1>1. /\ faults < MaxFaults /\ faults' = faults + 1
      /\ cache' = [k \in Keys |-> None]
      /\ req' = [r \in Orders |-> IF req[r] = Idle THEN Idle ELSE [pc |-> "dropped"]]
      /\ liq' = [l \in Liquidations |-> IF liq[l] = Idle THEN Idle ELSE [pc |-> "done"]]
      /\ owed' = [p \in Procs |-> [k \in Keys |-> IF k \in QueuedKeys(p) THEN owed[p][k] ELSE Nothing]]
      /\ suspect' = suspect \cup
           {k \in Keys : \E p \in Procs : k \in Touched(p) \ QueuedKeys(p) /\ Published(k, owed[p][k].stamp)}
      /\ sealed' = sealed /\ queue' = queue /\ stamp' = stamp /\ landed' = landed /\ overtaken' = overtaken
  BY DEF Crash
<1>2. faults' <= MaxFaults
  BY <1>1, MirrorTypes, ConstantsAssumption
<1>3. owed \in [Procs -> [Keys -> OwedRecords]] /\ landed \in [Keys -> Landings]
  BY MirrorTypes DEF OwedTypes
<1>4. \A p \in Procs, k \in Keys : owed'[p][k] = IF k \in QueuedKeys(p) THEN owed[p][k] ELSE Nothing
  BY <1>1
<1>5. OwedTypes'
  <2>1. \A p \in Procs, k \in Keys : (IF k \in QueuedKeys(p) THEN owed[p][k] ELSE Nothing) \in OwedRecords
    BY <1>3, NothingOwed
  <2>2. owed' \in [Procs -> [Keys -> OwedRecords]]
    BY <1>1, <2>1
  <2> QED BY <1>1, <1>3, <2>2 DEF OwedTypes
<1>6. Kept'
  BY <1>1, MirrorTypes DEF Kept
<1>7. QueueRight'
  <2>1. ASSUME NEW i \in DOMAIN queue, NEW k \in KeysOf(queue[i].legs)
        PROVE  owed'[queue[i].owner][k] = owed[queue[i].owner][k]
    <3>1. queue[i] \in Txs
      BY MirrorTypes DEF Types, Wires
    <3>2. queue[i].owner \in Procs /\ queue[i].legs \in Seq(Legs)
      BY <3>1 DEF Txs
    <3>3. k \in QueuedKeys(queue[i].owner)
      BY QueuedIs
    <3>4. k \in Keys
      BY <3>2, KeysOfIn, LegFields
    <3> QED BY <1>4, <3>2, <3>3, <3>4
  <2> QED BY <1>1, <2>1, QueueStays, MirrorTypes
<1>8. ASSUME NEW k \in Keys PROVE KeyRight(k)'
  <2>1. PICK O, Q, L, S, c, rec, late :
          /\ O = OwedAt(k) /\ late = (k \in overtaken) /\ L = landed[k]
          /\ S = stamp[k] /\ c = cache[k] /\ rec = sealed[k] /\ Q = OwedAt(k)'
    OBVIOUS
  <2>2. Q \in Owings
    BY <1>5, <2>1 DEF OwedTypes, OwedAt, Owings
  <2>3. \A p \in Procs : O[p] = owed[p][k] /\ Q[p] = owed'[p][k]
    BY <2>1 DEF OwedAt
  <2>4. \A p \in Procs : Q[p] = IF k \in QueuedKeys(p) THEN O[p] ELSE Nothing
    BY <1>4, <2>3
  <2>5. Stamps(O, L, S) /\ (k \in suspect \/ KeyInv(O, L, S, c, rec, late))
    BY <2>1, MirrorTypes DEF KeyRight
  <2>6. Stamps(Q, L, S)
    BY <2>2, <2>4, <2>5, StampsLose
  <2>7. ASSUME k \notin suspect' PROVE KeyInv(Q, L, S, None, rec, late)
    <3>1. k \notin suspect /\ \A p \in Procs : k \in Touched(p) \ QueuedKeys(p) => ~Published(k, owed[p][k].stamp)
      BY <1>1, <2>7
    <3>2. L.stamp \in Nat /\ \A p \in Procs : O[p].stamp \in Nat /\ O[p].leg \in Nat
      BY <2>5, StampsFields
    <3>3. ASSUME NEW p \in Procs, Q[p] # O[p]
          PROVE  ~Published(k, O[p].stamp)
      <4>1. k \notin QueuedKeys(p) /\ O[p] # Nothing
        BY <2>4, <3>3
      <4>2. k \in Touched(p)
        BY <2>3, <4>1 DEF Touched
      <4> QED BY <2>3, <3>1, <4>1, <4>2
    <3>4. \A p \in Procs : Q[p] # O[p] => O[p].stamp > L.stamp
      BY <2>1, <3>2, <3>3 DEF Published
    <3>5. ASSUME NEW p \in Procs, NEW q \in Procs, Q[p] # O[p], Q[q].leg # 0
          PROVE  O[p].stamp > Q[q].leg
      <4>1. k \in QueuedKeys(q) /\ Q[q] = O[q]
        BY <2>4, <3>5, NothingOwed
      <4>2. PICK i \in DOMAIN queue : \E j \in DOMAIN queue[i].legs :
              queue[i].legs[j].key = k /\ queue[i].legs[j].stamp = owed[q][k].leg
        BY <4>1, QueuedCarries
      <4>3. PICK j \in DOMAIN queue[i].legs : queue[i].legs[j].key = k /\ queue[i].legs[j].stamp = owed[q][k].leg
        BY <4>2
      <4>4. ~(queue[i].legs[j].stamp >= O[p].stamp)
        BY <3>3, <3>5, <4>3 DEF Published
      <4>5. queue[i].legs[j].stamp = Q[q].leg
        BY <2>3, <4>1, <4>3
      <4>6. Q[q].leg \in Nat /\ O[p].stamp \in Nat
        BY <3>2, <4>1
      <4> QED BY <4>4, <4>5, <4>6
    <3>6. ASSUME NEW p \in Procs PROVE ~Pends(Q[p])
      <4>1. CASE k \in QueuedKeys(p)
        <5>1. ~Pends(owed[p][k])
          BY <4>1, QueuedCarries
        <5> QED BY <2>3, <2>4, <4>1, <5>1
      <4>2. CASE k \notin QueuedKeys(p)
        BY <2>4, <4>2 DEF Pends
      <4> QED BY <4>1, <4>2
    <3>7. \A p \in Procs : Q[p] = O[p] \/ Q[p] = Nothing
      BY <2>4
    <3>8. KeyInv(O, L, S, c, rec, late)
      BY <2>5, <3>1
    <3>9. \A p, q \in Procs : Q[p] # O[p] /\ Q[q].leg # 0 => O[p].stamp > Q[q].leg
      BY <3>5
    <3> QED BY <2>2, <2>5, <3>4, <3>6, <3>7, <3>8, <3>9, KeyLose
  <2>8. cache'[k] = None /\ late = (k \in overtaken') /\ L = landed'[k] /\ S = stamp'[k] /\ rec = sealed'[k]
    BY <1>1, <2>1
  <2> QED BY <2>1, <2>6, <2>7, <2>8 DEF KeyRight
<1>9. ASSUME NEW p \in Procs, owed[p] = NoOwed
      PROVE  owed'[p] = NoOwed
  BY <1>1, <1>9 DEF NoOwed
<1>10. ASSUME NEW r \in Orders
       PROVE  OrderKnows(r)' /\ OrderLocked(r)' /\ OrderRight(r)'
  <2>1. CASE req[r] = Idle
    <3>1. req'[r] = Idle /\ Idle.pc = "idle"
      BY <1>1, <2>1 DEF Idle
    <3>2. owed[r] = NoOwed /\ ~InQueue(r) /\ r \in Procs
      BY <2>1, <3>1, MirrorTypes DEF OrderRight, OrderFits
    <3>3. owed'[r] = NoOwed /\ ~InQueue(r)'
      BY <1>1, <1>9, <3>2, SameQueue
    <3>4. OrderRight(r)'
      BY <3>1, <3>3 DEF OrderRight, OrderFits
    <3> QED BY <3>1, <3>4 DEF OrderKnows, OrderLocked
  <2>2. CASE req[r] # Idle
    <3>1. req'[r].pc = "dropped"
      BY <1>1, <2>2
    <3> QED BY <3>1, OrderRests
  <2> QED BY <2>1, <2>2
<1>11. ASSUME NEW l \in Liquidations
       PROVE  LiqKnows(l)' /\ LiqLocked(l)' /\ LiqRight(l)'
  <2>1. CASE liq[l] = Idle
    <3>1. liq'[l] = Idle /\ Idle.pc = "idle"
      BY <1>1, <2>1 DEF Idle
    <3>2. owed[l] = NoOwed /\ ~InQueue(l) /\ l \in Procs
      BY <2>1, <3>1, MirrorTypes DEF LiqRight
    <3>3. owed'[l] = NoOwed /\ ~InQueue(l)'
      BY <1>1, <1>9, <3>2, SameQueue
    <3>4. LiqRight(l)'
      BY <3>1, <3>3 DEF LiqRight
    <3> QED BY <3>1, <3>4 DEF LiqKnows, LiqLocked
  <2>2. CASE liq[l] # Idle
    <3>1. liq'[l].pc = "done"
      BY <1>1, <2>2
    <3> QED BY <3>1, LiqRests
  <2> QED BY <2>1, <2>2
<1> QED BY <1>2, <1>5, <1>6, <1>7, <1>8, <1>10, <1>11 DEF MirrorInv, OrdersFine, LiqsFine

-----------------------------------------------------------------------------
(* The mirror: it starts, holds, and says what it says *)

LEMMA MarginNat ==
  ASSUME NEW tick \in Nat, NEW qty \in Nat, NEW leverage \in Int
  PROVE  required_margin(tick, qty, leverage) \in Nat
<1> DEFINE lev == IF leverage < 1 THEN 1 ELSE Least(leverage, MAX_LEVERAGE)
<1>1. lev \in Int /\ lev > 0 /\ BPS \in Nat /\ BPS > 0
  BY DEF Least, MAX_LEVERAGE, BPS
<1> HIDE DEF lev
<1>2. PICK share : share = BPS \div lev /\ share \in Nat
  BY <1>1
<1>3. PICK whole : whole = tick * qty * share /\ whole \in Nat
  BY <1>2
<1>4. (whole \div BPS) \in Nat
  BY <1>1, <1>3
<1> QED BY <1>2, <1>3, <1>4 DEF required_margin, lev

\* A position opened before the start has no collateral below zero.
LEMMA OpenedRight ==
  ASSUME NEW size \in Int
  PROVE  Opened(size).coll >= 0
<1>1. CASE size = 0
  BY <1>1 DEF Opened
<1>2. CASE size # 0
  <2> DEFINE tick == CHOOSE t \in Prices : \A u \in Prices : t <= u
             lev  == CHOOSE l \in Leverages : \A x \in Leverages : x <= l
             res  == apply_fill(FreshFold(lev), size > 0, tick, Mag(size), 0)
             new  == res.st
  <2>1. tick \in Nat
    BY ConstantsAssumption, LeastOf
  <2>2. lev \in Nat
    BY ConstantsAssumption, GreatestOf
  <2>3. Opened(size).coll = new.coll
    BY <1>2 DEF Opened
  <2> HIDE DEF tick, lev
  <2>4. FreshFold(lev) \in Positions /\ FreshFold(lev).coll = 0 /\ FreshFold(lev).size = 0 /\ FreshFold(lev).lev = lev
    BY <2>2 DEF FreshFold, Positions
  <2>5. Mag(size) \in Nat \ {0} /\ (size > 0) \in BOOLEAN /\ 0 \in Int
    BY <1>2, Arithmetic
  <2>6. res.st.coll = 0 + res.delta /\ res.delta \in Int
    <3>1. PICK st, buy, qty, r : st = FreshFold(lev) /\ buy = (size > 0) /\ qty = Mag(size) /\ r = res
      OBVIOUS
    <3>2. st \in Positions /\ st.coll = 0 /\ buy \in BOOLEAN /\ qty \in Nat \ {0} /\ 0 \in Int
      BY <2>4, <2>5, <3>1
    <3>3. r = apply_fill(st, buy, tick, qty, 0)
      BY <3>1
    <3> HIDE DEF res
    <3>4. r.st.coll = st.coll + r.delta /\ r.delta \in Int
      BY <2>1, <3>2, <3>3, FillResult
    <3> QED BY <3>1, <3>2, <3>4
  <2>7. res.delta = required_margin(tick, Mag(size), lev)
    BY <2>4 DEF apply_fill
  <2>8. res.delta \in Nat
    <3>1. PICK qty : qty = Mag(size) /\ qty \in Nat
      BY <2>5
    <3>2. lev \in Int
      BY <2>2
    <3>3. required_margin(tick, qty, lev) \in Nat
      BY <2>1, <3>1, <3>2, MarginNat
    <3> HIDE DEF res
    <3> QED BY <2>7, <3>1, <3>3
  <2> HIDE DEF res
  <2> QED BY <2>3, <2>6, <2>8
<1> QED BY <1>1, <1>2

LEMMA MirrorStart == Init => MirrorInv
<1> SUFFICES ASSUME Init PROVE MirrorInv
  OBVIOUS
<1>1. LockInv
  BY TypesStart, LocksStart DEF LockInv
<1>2. /\ cache = [k \in Keys |-> None] /\ queue = <<>>
      /\ req = [r \in Orders |-> Idle] /\ liq = [l \in Liquidations |-> Idle]
      /\ faults = 0
      /\ owed = [p \in Procs |-> NoOwed]
      /\ stamp = [k \in Keys |-> 0]
      /\ landed = [k \in Keys |-> [size |-> IF sealed[k].params = Empty THEN 0 ELSE sealed[k].params.size,
                                   stamp |-> 0]]
      /\ overtaken = {} /\ suspect = {}
  BY DEF Init
<1>3. \A k \in Keys : sealed[k].coll >= 0
  <2>1. PICK open \in Openings : sealed = [k \in Keys |-> Opened(open[k])]
    BY DEF Init
  <2>2. \A k \in Keys : open[k] \in Int
    BY ConstantsAssumption
  <2>3. \A k \in Keys : Opened(open[k]).coll >= 0
    BY <2>2, OpenedRight
  <2>4. \A k \in Keys : sealed[k] = Opened(open[k])
    BY <2>1
  <2> QED BY <2>3, <2>4
<1>4. \A k \in Keys : SizeIn(sealed[k].params) \in Int /\ landed[k] = [size |-> SizeIn(sealed[k].params), stamp |-> 0]
  <2>1. \A k \in Keys : sealed[k].params \in Params
    BY <1>1, SealedFields DEF LockInv, Types, Store, SealedMaps
  <2>2. \A k \in Keys : SizeIn(sealed[k].params) \in Int
    BY <2>1 DEF SizeIn, Params
  <2> QED BY <1>2, <2>2 DEF SizeIn
<1>5. OwedTypes
  <2>1. NoOwed \in [Keys -> OwedRecords]
    BY NothingOwed DEF NoOwed
  <2>2. ASSUME NEW k \in Keys PROVE landed[k] \in Landings
    <3>1. PICK x : x = SizeIn(sealed[k].params)
      OBVIOUS
    <3>2. x \in Int /\ landed[k] = [size |-> x, stamp |-> 0]
      BY <1>4, <3>1
    <3> QED BY <3>2 DEF Landings
  <2>3. landed \in [Keys -> Landings]
    BY <1>2, <2>2
  <2> QED BY <1>2, <2>1, <2>3 DEF OwedTypes
<1>6. ASSUME NEW k \in Keys PROVE KeyRight(k)
  <2>1. PICK O, L, x : O = OwedAt(k) /\ L = landed[k] /\ x = SizeIn(sealed[k].params)
    OBVIOUS
  <2>2. \A p \in Procs : O[p] = Nothing
    BY <1>2, <2>1 DEF OwedAt, NoOwed
  <2>3. O \in Owings
    BY <1>5, <2>1 DEF OwedAt, OwedTypes, Owings
  <2>4. L.size = x /\ L.stamp = 0 /\ L \in Landings /\ x \in Int
    <3>1. x \in Int /\ L = [size |-> x, stamp |-> 0]
      BY <1>4, <2>1
    <3> QED BY <3>1 DEF Landings
  <2>5. Stamps(O, L, 0)
    BY <2>2, <2>3, <2>4, NothingOwed DEF Stamps
  <2>6. OwedBy(O, 0) = 0
    BY <2>2, <2>3, NobodyOwes
  <2>7. Published0(O, L, 0, None, sealed[k])
    BY <2>1, <2>4, <2>6 DEF Published0, View, Latest
  <2>8. Built(O, L, 0, None) /\ ~\E p \in Procs : Pends(O[p])
    BY <2>2, NothingOwed DEF Built, Pends
  <2>9. KeyInv(O, L, 0, None, sealed[k], FALSE)
    BY <2>7, <2>8 DEF KeyInv
  <2>10. cache[k] = None /\ stamp[k] = 0 /\ (k \in overtaken) = FALSE
    BY <1>2
  <2> QED BY <2>1, <2>5, <2>9, <2>10 DEF KeyRight
<1>7. \A p : ~InQueue(p)
  BY <1>2 DEF InQueue
<1>8. QueueRight
  BY <1>2 DEF QueueRight
<1>9. Kept
  BY <1>2, <1>3 DEF Kept
<1>10. OrdersFine
  <2> SUFFICES ASSUME NEW r \in Orders PROVE OrderKnows(r) /\ OrderLocked(r) /\ OrderRight(r)
    BY DEF OrdersFine
  <2>1. req[r].pc = "idle" /\ owed[r] = NoOwed /\ ~InQueue(r)
    BY <1>2, <1>7 DEF Idle, Procs
  <2> QED BY <2>1 DEF OrderKnows, OrderLocked, OrderRight, OrderFits
<1>11. LiqsFine
  <2> SUFFICES ASSUME NEW l \in Liquidations PROVE LiqKnows(l) /\ LiqLocked(l) /\ LiqRight(l)
    BY DEF LiqsFine
  <2>1. liq[l].pc = "idle" /\ owed[l] = NoOwed /\ ~InQueue(l)
    BY <1>2, <1>7 DEF Idle, Procs
  <2> QED BY <2>1 DEF LiqKnows, LiqLocked, LiqRight
<1>12. faults <= MaxFaults
  BY <1>2, ConstantsAssumption
<1> QED BY <1>1, <1>5, <1>6, <1>8, <1>9, <1>10, <1>11, <1>12 DEF MirrorInv

LEMMA MirrorStep == MirrorInv /\ [Next]_vars => MirrorInv'
<1> SUFFICES ASSUME MirrorInv, [Next]_vars PROVE MirrorInv'
  OBVIOUS
<1>0. LockInv'
  BY MirrorTypes, LockStep
<1>1. CASE \E r \in Orders : Order(r) \/ DropOrder(r)
  <2>1. PICK r \in Orders : Order(r) \/ DropOrder(r)
    BY <1>1
  <2> QED BY <1>0, <2>1, CheckMirror, MatchMirror, LockMirror, ReadMirror, FoldMirror, LegMirror, SpawnMirror,
             SendSweepMirror, ConfirmSweepMirror, InvalidateMirror, DropOrderMirror DEF Order
<1>2. CASE \E l \in Liquidations : Liquidate(l) \/ DropLiquidation(l)
  <2>1. PICK l \in Liquidations : Liquidate(l) \/ DropLiquidation(l)
    BY <1>2
  <2> QED BY <1>0, <2>1, DiscoverMirror, LockNextMirror, ReadNextMirror, SizeMirror, SendLiquidationMirror,
             ConfirmLiquidationMirror, FinishLiquidationMirror, DropLiquidationMirror DEF Liquidate
<1>3. CASE Flush
  BY <1>0, <1>3, DrainMirror, SendBatchMirror, ConfirmBatchMirror DEF Flush
<1>4. CASE Mine
  BY <1>0, <1>4, MineMirror
<1>5. CASE Crash
  BY <1>0, <1>5, CrashMirror
<1>6. CASE UNCHANGED vars
  <2>1. /\ cache' = cache /\ locks' = locks /\ sealed' = sealed /\ queue' = queue /\ req' = req /\ liq' = liq
        /\ faults' = faults /\ owed' = owed /\ stamp' = stamp /\ landed' = landed
        /\ overtaken' = overtaken /\ suspect' = suspect
    BY <1>6 DEF vars, code, history
  <2>2. OwedTypes' /\ Kept' /\ faults' <= MaxFaults
    BY <2>1, MirrorTypes DEF OwedTypes, Kept
  <2>3. \A k \in Keys : KeyRight(k)' /\ FreshStays(k)
    BY <2>1, KeyStill, MirrorTypes DEF Still
  <2>4. Others(Flusher) /\ QueueRight'
    <3>1. QueueRight'
      BY <2>1, QueueStays, MirrorTypes
    <3> QED BY <2>1, <2>3, <3>1, SameQueue DEF Others
  <2> QED BY <1>0, <2>2, <2>3, <2>4, FlushMirror
<1> QED BY <1>1, <1>2, <1>3, <1>4, <1>5, <1>6 DEF Next

\* The position cache is "a running mirror of what the on-chain collateral will
\* become once every delta returned so far actually lands" (PositionFold): a
\* cached position has the collateral of the chain plus what is still owed on
\* it, and the size that landed plus what is owed, for every number of
\* concurrent orders, liquidations, batches, faults and crashes.
THEOREM CachedPositionsMirrorTheChain == Spec => []MirrorExact
<1>1. MirrorInv => MirrorExact
  <2> SUFFICES ASSUME MirrorInv, NEW k \in Keys \ suspect, cache[k] # None
               PROVE  cache[k].coll = sealed[k].coll + OwedOn(k) /\ cache[k].size = landed[k].size + OwedSize(k)
    BY DEF MirrorExact
  <2>1. PICK O, L, S, c, rec, late : /\ O = OwedAt(k) /\ late = (k \in overtaken) /\ L = landed[k]
                                     /\ S = stamp[k] /\ c = cache[k] /\ rec = sealed[k]
    OBVIOUS
  <2>2. KeyInv(O, L, S, c, rec, late)
    BY <2>1, MirrorTypes DEF KeyRight
  <2>3. c.coll = rec.coll + TotalColl(O) /\ c.size = L.size + Total(O)
    BY <2>1, <2>2 DEF KeyInv, Cached
  <2>4. OwedOn(k) = TotalColl(O) /\ OwedSize(k) = Total(O)
    <3>1. \A p \in Procs : O[p] = owed[p][k]
      BY <2>1 DEF OwedAt
    <3>2. /\ [p \in Procs |-> owed[p][k].coll] = [p \in Procs |-> O[p].coll]
          /\ [p \in Procs |-> owed[p][k].size] = [p \in Procs |-> O[p].size]
      BY <3>1
    <3> QED BY <3>2 DEF OwedOn, OwedSize, Total, TotalColl, SumFunction
  <2> QED BY <2>1, <2>3, <2>4
<1> QED BY <1>1, MirrorStart, MirrorStep, PTL DEF Spec

\* Once nothing is in flight for a key, the chain is the last word: its params
\* are the size of all that landed, a cached position is what loadSealed reads
\* back, and no settlement ever takes a collateral below zero.
THEOREM ChainIsTheLastWord == Spec => []ChainCatchesUp
<1>1. MirrorInv => ChainCatchesUp
  <2> SUFFICES ASSUME MirrorInv PROVE ChainCatchesUp
    OBVIOUS
  <2>1. TypeOK
    BY MirrorTypes DEF TypeOK, Types, Store, Wires, SealedMaps, Kept
  <2>2. ASSUME NEW k \in Keys \ (suspect \cup overtaken), ~Settling(k)
        PROVE  /\ landed[k].size = (IF sealed[k].params = Empty THEN 0 ELSE sealed[k].params.size)
               /\ cache[k] # None => cache[k] = loadSealed(sealed[k])
    <3>1. \A p \in Procs : owed[p][k] = Nothing
      BY <2>2 DEF Settling
    <3>2. /\ landed[k].size = SizeIn(sealed[k].params)
          /\ cache[k] \in Positions => cache[k] = loadSealed(sealed[k])
      BY <2>2, <3>1, ChainIsFresh, MirrorTypes
    <3>3. cache[k] \in Positions \cup {None}
      BY MirrorTypes
    <3> QED BY <3>2, <3>3 DEF SizeIn
  <2> QED BY <2>1, <2>2 DEF ChainCatchesUp
<1> QED BY <1>1, MirrorStart, MirrorStep, PTL DEF Spec

=============================================================================
