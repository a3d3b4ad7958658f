--------------------------- MODULE ClearingProofs ---------------------------
(***************************************************************************)
(* The collateral kernel for every set of accounts, assets, prices and     *)
(* amounts: the claims on an asset are what custody holds, no withdrawal   *)
(* undercuts the margin, the subsidies of the backstop ledger stay within  *)
(* what was attested, and the vault is fair to those who stay in it.       *)
(***************************************************************************)
EXTENDS Vault, BackstopLedger, FiniteSums

-----------------------------------------------------------------------------
(* Balances and the claims they are *)

Balances == [Accounts -> [AssetSet -> Nat]]
Claims(b, s) == SumFunctionOnSet([t \in Accounts |-> b[t][s]], Accounts)

\* Claims on an asset that no account's balance of it changed.
LEMMA ClaimsSame ==
  ASSUME NEW b \in Balances, NEW c \in Balances, NEW s \in AssetSet,
         \A t \in Accounts : c[t][s] = b[t][s]
  PROVE  Claims(c, s) = Claims(b, s)
<1> DEFINE f == [t \in Accounts |-> b[t][s]]
           h == [t \in Accounts |-> c[t][s]]
<1>1. \A t \in Accounts : f[t] \in Int /\ h[t] = f[t]
  BY DEF Balances
<1>2. IsFiniteSet(Accounts)
  BY ClearingAssumption
<1> HIDE DEF f, h
<1>3. SumFunctionOnSet(h, Accounts) = SumFunctionOnSet(f, Accounts)
  BY <1>1, <1>2, SumSame
<1> QED BY <1>3 DEF Claims, f, h

\* Claims on an asset of which one account's balance changed.
LEMMA ClaimsChange ==
  ASSUME NEW b \in Balances, NEW c \in Balances, NEW s \in AssetSet, NEW t \in Accounts,
         \A u \in Accounts \ {t} : c[u][s] = b[u][s]
  PROVE  /\ Claims(c, s) = Claims(b, s) + c[t][s] - b[t][s]
         /\ Claims(b, s) \in Int
<1> DEFINE f == [u \in Accounts |-> b[u][s]]
           h == [u \in Accounts |-> c[u][s]]
<1>1. /\ \A u \in Accounts : f[u] \in Int
      /\ \A u \in Accounts \ {t} : h[u] = f[u]
      /\ h[t] \in Int /\ h[t] = c[t][s] /\ f[t] = b[t][s]
  BY DEF Balances
<1>2. IsFiniteSet(Accounts)
  BY ClearingAssumption
<1> HIDE DEF f, h
<1>3. SumFunctionOnSet(h, Accounts) = SumFunctionOnSet(f, Accounts) + h[t] - f[t]
  BY <1>1, <1>2, SumChange
<1>4. SumFunctionOnSet(f, Accounts) \in Int
  BY <1>1, <1>2, SumInt
<1> QED BY <1>1, <1>3, <1>4 DEF Claims, f, h

\* seizeCollateral moves what the account has, and no claim appears or goes.
LEMMA SeizeKeeps ==
  ASSUME NEW b \in Balances, NEW t \in Accounts, NEW to \in Accounts,
         NEW asset \in AssetSet, NEW amount \in Nat, amount <= b[t][asset]
  PROVE  LET c == seizeCollateral(b, t, asset, amount, to) IN
         /\ c \in Balances
         /\ \A s \in AssetSet : Claims(c, s) = Claims(b, s)
         /\ c[t][asset] >= b[t][asset] - amount
<1> DEFINE c == seizeCollateral(b, t, asset, amount, to)
           d == [b EXCEPT ![t][asset] = @ - amount]
<1>1. CASE amount = 0
  BY <1>1 DEF seizeCollateral, Balances
<1>2. CASE amount # 0
  <2>1. c = [d EXCEPT ![to][asset] = @ + amount]
    BY <1>2 DEF seizeCollateral
  <2>2. d \in Balances /\ d[t][asset] = b[t][asset] - amount
    BY DEF Balances
  <2>3. \A u \in Accounts, s \in AssetSet : u # t \/ s # asset => d[u][s] = b[u][s]
    BY DEF Balances
  <2> HIDE DEF d
  <2>4. c \in Balances /\ c[to][asset] = d[to][asset] + amount
    BY <2>1, <2>2 DEF Balances
  <2>5. \A u \in Accounts, s \in AssetSet : u # to \/ s # asset => c[u][s] = d[u][s]
    BY <2>1, <2>2 DEF Balances
  <2> HIDE DEF c
  <2>6. \A s \in AssetSet \ {asset} : Claims(c, s) = Claims(b, s)
    <3> TAKE s \in AssetSet \ {asset}
    <3>1. \A u \in Accounts : c[u][s] = b[u][s]
      BY <2>3, <2>5
    <3> QED BY <3>1, <2>4, ClaimsSame
  <2>7. Claims(c, asset) = Claims(b, asset)
    <3>1. Claims(d, asset) = Claims(b, asset) + d[t][asset] - b[t][asset] /\ Claims(b, asset) \in Int
      BY <2>2, <2>3, ClaimsChange
    <3>2. Claims(c, asset) = Claims(d, asset) + c[to][asset] - d[to][asset] /\ Claims(d, asset) \in Int
      BY <2>2, <2>4, <2>5, ClaimsChange
    <3>3. b[t][asset] \in Nat /\ d[to][asset] \in Nat
      BY <2>2 DEF Balances
    <3> QED BY <3>1, <3>2, <3>3, <2>2, <2>4
  <2>8. c[t][asset] >= b[t][asset] - amount
    BY <2>2, <2>4, <2>5 DEF Balances
  <2> QED BY <2>4, <2>6, <2>7, <2>8 DEF c
<1> QED BY <1>1, <1>2

\* One asset of the penalty.
LEMMA ChunkKeeps ==
  ASSUME NEW b \in Balances, NEW t \in Accounts, NEW liquidator \in Accounts,
         NEW asset \in AssetSet, NEW remaining \in Nat
  PROVE  LET chunk == _seizeAssetChunk(b, t, liquidator, asset, remaining) IN
         /\ chunk.balances \in Balances
         /\ \A s \in AssetSet : Claims(chunk.balances, s) = Claims(b, s)
         /\ chunk.usd \in Nat /\ chunk.usd <= remaining
<1> DEFINE worth == b[t][asset] * PriceOf[asset]
           usd == Min({worth, remaining})
           amount == usd \div PriceOf[asset]
           first == (amount * LIQUIDATOR_SHARE_BPS) \div BPS_DENOMINATOR
           c == seizeCollateral(b, t, asset, first, liquidator)
           d == seizeCollateral(c, t, asset, amount - first, Fund)
<1>1. b[t][asset] \in Nat /\ PriceOf[asset] \in Nat \ {0} /\ Fund \in Accounts
  BY ClearingAssumption DEF Balances, AssetSet
<1>2. worth \in Nat
  BY <1>1
<1>3. usd \in Nat /\ usd <= remaining /\ usd <= worth
  <2> HIDE DEF worth
  <2> QED BY <1>2, MinTwo
<1> HIDE DEF usd
<1>4. amount \in Nat /\ amount <= b[t][asset]
  BY <1>1, <1>3, QuotientBound
<1> HIDE DEF amount, worth
<1>5. first \in Nat /\ first <= amount
  BY <1>4 DEF LIQUIDATOR_SHARE_BPS, BPS_DENOMINATOR
<1> HIDE DEF first
<1>6. c \in Balances /\ (\A s \in AssetSet : Claims(c, s) = Claims(b, s)) /\ c[t][asset] >= b[t][asset] - first
  BY <1>1, <1>4, <1>5, SeizeKeeps
<1>7. amount - first \in Nat /\ c[t][asset] \in Nat /\ amount - first <= c[t][asset]
  <2> HIDE DEF c
  <2> QED BY <1>1, <1>4, <1>5, <1>6 DEF Balances
<1>8. d \in Balances /\ \A s \in AssetSet : Claims(d, s) = Claims(c, s)
  <2> HIDE DEF c
  <2> QED BY <1>1, <1>6, <1>7, SeizeKeeps
<1>9. _seizeAssetChunk(b, t, liquidator, asset, remaining) = [usd |-> usd, balances |-> d]
  BY DEF _seizeAssetChunk, usd, amount, first, worth
<1> HIDE DEF c, d
<1> QED BY <1>3, <1>6, <1>8, <1>9

\* The whole sweep, over the registered assets in order.
LEMMA SweepKeeps ==
  ASSUME balances \in Balances, NEW t \in Accounts, NEW liquidator \in Accounts, NEW penalty \in Nat
  PROVE  LET c == _sweepPenalty(t, liquidator, penalty) IN
         c \in Balances /\ \A s \in AssetSet : Claims(c, s) = Claims(balances, s)
<1> DEFINE N == Len(Assets)
           Chunk(acc, k) == _seizeAssetChunk(acc.balances, t, liquidator, Assets[k], acc.left)
           Body(g, k) == IF k = 0 THEN [balances |-> balances, left |-> penalty]
                         ELSE [balances |-> Chunk(g[k - 1], k).balances,
                               left |-> g[k - 1].left - Chunk(g[k - 1], k).usd]
           Sweeps(g) == g = [k \in 0..N |-> Body(g, k)]
<1>1. N \in Nat /\ \A k \in 1..N : Assets[k] \in AssetSet
  BY ClearingAssumption DEF AssetSet
<1>2. \E g : Sweeps(g)
  <2> DEFINE Good(n) == \E g : g = [k \in 0..n |-> Body(g, k)]
             G == {n \in Nat : Good(n)}
  <2>1. Good(0)
    <3> DEFINE g == [k \in 0..0 |-> [balances |-> balances, left |-> penalty]]
    <3>1. g = [k \in 0..0 |-> Body(g, k)]
      OBVIOUS
    <3> QED BY <3>1
  <2>2. \A n \in Nat : Good(n) => Good(n + 1)
    <3> TAKE n \in Nat
    <3> HAVE Good(n)
    <3>1. PICK g : g = [k \in 0..n |-> Body(g, k)]
      OBVIOUS
    <3> DEFINE h == [k \in 0..n + 1 |-> IF k \in 0..n THEN g[k] ELSE Body(g, k)]
    <3>2. \A k \in 0..n : h[k] = g[k] /\ g[k] = Body(g, k)
      <4> HIDE DEF Body
      <4> QED BY <3>1
    <3>3. \A k \in 0..n + 1 : k # 0 => k - 1 \in 0..n
      OBVIOUS
    <3> HIDE DEF Chunk
    <3>4. \A k \in 0..n + 1 : h[k] = Body(h, k)
      <4> TAKE k \in 0..n + 1
      <4>1. h[k] = Body(g, k)
        BY <3>2
      <4>2. k # 0 => h[k - 1] = g[k - 1]
        BY <3>2, <3>3
      <4> QED BY <4>1, <4>2
    <3>5. h = [k \in 0..n + 1 |-> h[k]]
      OBVIOUS
    <3> HIDE DEF h
    <3>6. h = [k \in 0..n + 1 |-> Body(h, k)]
      BY <3>4, <3>5
    <3> QED BY <3>6
  <2>3. \A n \in Nat : n \in G => n + 1 \in G
    <3> HIDE DEF Good
    <3> QED BY <2>2
  <2>4. Nat \subseteq G
    <3>1. 0 \in G
      BY <2>1
    <3> HIDE DEF G
    <3> QED BY <2>3, <3>1, Induction
  <2> QED BY <1>1, <2>4
<1> DEFINE it == CHOOSE g : Sweeps(g)
<1>3. Sweeps(it)
  BY <1>2
<1>4. _sweepPenalty(t, liquidator, penalty) = it[N].balances
  BY Zenon DEF _sweepPenalty
<1> HIDE DEF it
<1>10. \A k \in 0..N : it[k] = Body(it, k)
  <2> HIDE DEF Body
  <2> QED BY <1>3
<1>5. it[0] = [balances |-> balances, left |-> penalty]
  <2>1. 0 \in 0..N
    BY <1>1
  <2>2. it[0] = Body(it, 0)
    <3> HIDE DEF Body
    <3> QED BY <1>10, <2>1
  <2> HIDE DEF Chunk
  <2> QED BY <2>2
<1>6. \A k \in 1..N : it[k] = [balances |-> Chunk(it[k - 1], k).balances,
                               left |-> it[k - 1].left - Chunk(it[k - 1], k).usd]
  <2> HIDE DEF Chunk
  <2> QED BY <1>1, <1>10
<1> DEFINE Kept(acc) == /\ acc.balances \in Balances /\ acc.left \in Nat
                        /\ \A s \in AssetSet : Claims(acc.balances, s) = Claims(balances, s)
           K == {n \in Nat : n <= N => Kept(it[n])}
<1>7. 0 \in K
  BY <1>5
<1>8. ASSUME NEW n \in Nat, n + 1 <= N, Kept(it[n]) PROVE Kept(it[n + 1])
  <2> DEFINE acc == it[n]
             chunk == _seizeAssetChunk(acc.balances, t, liquidator, Assets[n + 1], acc.left)
  <2>1. n + 1 \in 1..N /\ (n + 1) - 1 = n
    BY <1>1, <1>8
  <2>2. it[n + 1] = [balances |-> chunk.balances, left |-> acc.left - chunk.usd]
    BY <1>6, <2>1
  <2>3. /\ chunk.balances \in Balances
        /\ \A s \in AssetSet : Claims(chunk.balances, s) = Claims(acc.balances, s)
        /\ chunk.usd \in Nat /\ chunk.usd <= acc.left
    <3>1. acc.balances \in Balances /\ acc.left \in Nat /\ Assets[n + 1] \in AssetSet
      BY <1>1, <1>8, <2>1
    <3> HIDE DEF acc
    <3> QED BY <3>1, ChunkKeeps
  <2> HIDE DEF chunk
  <2> QED BY <1>8, <2>2, <2>3
<1>9. N \in K
  <2>1. \A n \in Nat : n \in K => n + 1 \in K
    <3> HIDE DEF Kept
    <3> QED BY <1>1, <1>8
  <2> HIDE DEF K
  <2> QED BY <1>1, <1>7, <2>1, Induction
<1> QED BY <1>1, <1>4, <1>9

-----------------------------------------------------------------------------
(* Custody *)

Backed(b, h, f) == \A s \in AssetSet : Claims(b, s) = h[s] + (IF s = Cash THEN f ELSE 0)

LEMMA BackedIs ==
  CustodyBacked <=> TypeOK /\ Backed(balances, held, settled + forgiven)
BY DEF CustodyBacked, Backed, Claims

LEMMA BackedIsNext ==
  CustodyBacked' <=> TypeOK' /\ Backed(balances', held', settled' + forgiven')
BY DEF CustodyBacked, Backed, Claims

\* The first haircut of a tier is one of its haircuts.
LEMMA MinIn ==
  ASSUME NEW S, S \subseteq Nat, S # {}
  PROVE  Min(S) \in S
<1>1. \E x \in S : \A y \in S : x <= y
  BY LeastOf
<1> QED BY <1>1 DEF Min

LEMMA Constants ==
  /\ Cash \in AssetSet /\ Fund \in Accounts /\ Traders \subseteq Accounts
  /\ \A s \in AssetSet : /\ \A bps \in TierHaircuts[s] : bps \in 0..BPS_DENOMINATOR
                         /\ Min(TierHaircuts[s]) \in TierHaircuts[s]
                         /\ PriceOf[s] \in Nat \ {0}
  /\ Amounts \subseteq Nat /\ Sizes \subseteq Nat /\ MaxNotionals \subseteq Nat
  /\ Requirements \subseteq Nat /\ Losses \subseteq Nat /\ Lifetime \in Nat
  /\ Signed \subseteq [loss : Nat, drawdown : Nat, expiry : Nat]
  /\ Marks \subseteq Nat \ {0} /\ MaxTime \in Nat \ {0} /\ MaxSteps \in Nat
  /\ IsFiniteSet(Accounts)
<1>1. \A s \in AssetSet : /\ TierHaircuts[s] # {} /\ \A bps \in TierHaircuts[s] : bps \in 0..BPS_DENOMINATOR
                          /\ PriceOf[s] \in Nat \ {0}
  BY ClearingAssumption DEF AssetSet
<1>2. \A s \in AssetSet : Min(TierHaircuts[s]) \in TierHaircuts[s]
  <2> TAKE s \in AssetSet
  <2> DEFINE H == TierHaircuts[s]
  <2>1. H \subseteq Nat /\ H # {}
    <3>1. BPS_DENOMINATOR \in Nat
      BY DEF BPS_DENOMINATOR
    <3> QED BY <1>1, <3>1
  <2> HIDE DEF H
  <2>2. Min(H) \in H
    BY <2>1, MinIn
  <2> QED BY <2>2 DEF H
<1> QED BY <1>1, <1>2, ClearingAssumption, Zenon DEF AssetSet

\* Any deposits and any records are a sound start.
LEMMA StartBacked ==
  ASSUME NEW deposits \in Balances, NEW trades \in [Accounts -> Positions],
         StartFrom(deposits, trades)
  PROVE  CustodyBacked
<1>1. \A s \in AssetSet : held[s] = Claims(deposits, s)
  BY DEF StartFrom, Claims
<1>2. \A s \in AssetSet : Claims(deposits, s) \in Nat
  <2> TAKE s \in AssetSet
  <2> DEFINE f == [t \in Accounts |-> deposits[t][s]]
  <2>1. \A t \in Accounts : f[t] \in Nat
    BY DEF Balances
  <2> HIDE DEF f
  <2>2. SumFunctionOnSet(f, Accounts) \in Nat
    BY <2>1, Constants, SumNat
  <2> QED BY <2>2 DEF f, Claims
<1>3. Backed(balances, held, settled + forgiven)
  BY <1>1, <1>2 DEF StartFrom, Backed
<1>4. held \in [AssetSet -> Nat]
  BY <1>1, <1>2 DEF StartFrom
<1>5. haircut \in [AssetSet -> 0..BPS_DENOMINATOR] /\ \A s \in AssetSet : haircut[s] \in TierHaircuts[s]
  <2>1. \A s \in AssetSet : Min(TierHaircuts[s]) \in 0..BPS_DENOMINATOR /\ Min(TierHaircuts[s]) \in TierHaircuts[s]
    BY Constants
  <2>2. haircut = [s \in AssetSet |-> Min(TierHaircuts[s])]
    BY DEF StartFrom
  <2> QED BY <2>1, <2>2
<1>6. TypeOK
  BY <1>4, <1>5, Constants DEF StartFrom, TypeOK, Balances, NoCapability
<1> QED BY <1>3, <1>6, BackedIs

LEMMA InitBacked == Init => CustodyBacked
<1>1. Empty \in Balances /\ Flat \in [Accounts -> Positions]
  BY DEF Empty, Flat, NoPosition, Positions, Balances
<1> QED BY <1>1, StartBacked DEF Init

\* An account's balance of one asset moves with what custody holds of it.
LEMMA MoveKeeps ==
  ASSUME CustodyBacked, NEW t \in Accounts, NEW s \in AssetSet, NEW amount \in Int,
         balances[t][s] + amount \in Nat,
         balances' = [balances EXCEPT ![t][s] = @ + amount],
         held' = [held EXCEPT ![s] = @ + amount], UNCHANGED <<settled, forgiven>>
  PROVE  balances' \in Balances /\ Backed(balances', held', settled' + forgiven')
<1>1. balances \in Balances /\ held \in [AssetSet -> Nat] /\ settled + forgiven \in Int
  BY DEF CustodyBacked, TypeOK, Balances
<1>2. Backed(balances, held, settled + forgiven)
  BY BackedIs
<1>3. balances' \in Balances /\ balances'[t][s] = balances[t][s] + amount
  BY <1>1 DEF Balances
<1>4. \A u \in Accounts, r \in AssetSet : u # t \/ r # s => balances'[u][r] = balances[u][r]
  BY <1>1 DEF Balances
<1>5. held'[s] = held[s] + amount /\ \A r \in AssetSet \ {s} : held'[r] = held[r]
  BY <1>1
<1>6. ASSUME NEW r \in AssetSet \ {s} PROVE Claims(balances', r) = Claims(balances, r)
  BY <1>1, <1>3, <1>4, ClaimsSame
<1>7. /\ Claims(balances', s) = Claims(balances, s) + balances'[t][s] - balances[t][s]
      /\ Claims(balances, s) \in Int
  <2> DEFINE c == balances'
  <2>1. c \in Balances /\ \A u \in Accounts \ {t} : c[u][s] = balances[u][s]
    BY <1>3, <1>4
  <2> HIDE DEF c
  <2>2. /\ Claims(c, s) = Claims(balances, s) + c[t][s] - balances[t][s]
        /\ Claims(balances, s) \in Int
    BY <1>1, <2>1, ClaimsChange
  <2> QED BY <2>2 DEF c
<1>8. balances[t][s] \in Nat /\ held[s] \in Nat
  BY <1>1 DEF Balances
<1>9. Claims(balances', s) = held'[s] + (IF s = Cash THEN settled + forgiven ELSE 0)
  <2>1. Claims(balances, s) = held[s] + (IF s = Cash THEN settled + forgiven ELSE 0)
    BY <1>2 DEF Backed
  <2> QED BY <1>1, <1>3, <1>5, <1>7, <1>8, <2>1
<1>10. \A r \in AssetSet \ {s} : Claims(balances', r) = held'[r] + (IF r = Cash THEN settled + forgiven ELSE 0)
  BY <1>2, <1>5, <1>6 DEF Backed
<1> QED BY <1>3, <1>9, <1>10 DEF Backed

\* A batch moves the claims by what it settles and by what it floors.
LEMMA BatchKeeps ==
  ASSUME CustodyBacked, NEW pnlDeltas, \A t \in DOMAIN pnlDeltas : pnlDeltas[t] \in Int,
         settleRealizedPnlBatch(pnlDeltas)
  PROVE  /\ balances' \in Balances /\ settled' \in Int /\ forgiven' \in Nat
         /\ Backed(balances', held', settled' + forgiven')
<1> DEFINE Delta == [t \in Accounts |-> IF t \in DOMAIN pnlDeltas THEN pnlDeltas[t] ELSE 0]
           Was == [t \in Accounts |-> balances[t][Cash]]
           Floor == [t \in Accounts |-> IF Was[t] + Delta[t] < 0 THEN -(Was[t] + Delta[t]) ELSE 0]
           Both == [t \in Accounts |-> Was[t] + Delta[t]]
           Now == [t \in Accounts |-> balances'[t][Cash]]
<1>1. /\ balances \in Balances /\ held \in [AssetSet -> Nat] /\ settled \in Int /\ forgiven \in Nat
      /\ Cash \in AssetSet /\ IsFiniteSet(Accounts)
  BY Constants DEF CustodyBacked, TypeOK, Balances
<1>2. /\ balances' = [t \in Accounts |-> [balances[t] EXCEPT ![Cash] = Was[t] + Delta[t] + Floor[t]]]
      /\ settled' = settled + SumFunctionOnSet(Delta, Accounts)
      /\ forgiven' = forgiven + SumFunctionOnSet(Floor, Accounts) /\ held' = held
  BY DEF settleRealizedPnlBatch
<1>3. \A t \in Accounts : Delta[t] \in Int /\ Was[t] \in Nat
  BY <1>1 DEF Balances
<1>4. \A t \in Accounts : Floor[t] \in Nat /\ Was[t] + Delta[t] + Floor[t] \in Nat
  <2> HIDE DEF Delta, Was
  <2> QED BY <1>3
<1>5. Was = [t \in Accounts |-> balances[t][Cash]]
  OBVIOUS
<1> HIDE DEF Delta, Was, Floor
<1>6. /\ balances' \in Balances
      /\ \A t \in Accounts : /\ balances'[t][Cash] = Was[t] + Delta[t] + Floor[t]
                             /\ \A r \in AssetSet \ {Cash} : balances'[t][r] = balances[t][r]
  BY <1>1, <1>2, <1>4 DEF Balances
<1>7. \A t \in Accounts : /\ Both[t] \in Int /\ Both[t] = Was[t] + Delta[t]
                          /\ Now[t] \in Int /\ Now[t] = Both[t] + Floor[t]
  BY <1>3, <1>4, <1>6
<1> HIDE DEF Both
<1>8. /\ SumFunctionOnSet(Delta, Accounts) \in Int /\ SumFunctionOnSet(Was, Accounts) \in Int
      /\ SumFunctionOnSet(Floor, Accounts) \in Nat
  BY <1>1, <1>3, <1>4, SumInt, SumNat
<1>9. SumFunctionOnSet(Both, Accounts) = SumFunctionOnSet(Was, Accounts) + SumFunctionOnSet(Delta, Accounts)
  BY <1>1, <1>3, <1>7, SumPlus
<1>10. Claims(balances', Cash) = SumFunctionOnSet(Both, Accounts) + SumFunctionOnSet(Floor, Accounts)
  <2>1. Now = [t \in Accounts |-> balances'[t][Cash]]
    OBVIOUS
  <2> HIDE DEF Now
  <2>2. SumFunctionOnSet(Now, Accounts) = SumFunctionOnSet(Both, Accounts) + SumFunctionOnSet(Floor, Accounts)
    BY <1>1, <1>4, <1>7, SumPlus
  <2> QED BY <2>1, <2>2 DEF Claims
<1>11. Claims(balances, Cash) = SumFunctionOnSet(Was, Accounts)
  BY <1>5 DEF Claims
<1>12. \A r \in AssetSet \ {Cash} : Claims(balances', r) = Claims(balances, r)
  <2> TAKE r \in AssetSet \ {Cash}
  <2>1. \A u \in Accounts : balances'[u][r] = balances[u][r]
    BY <1>6
  <2> QED BY <1>1, <1>6, <2>1, ClaimsSame
<1>13. /\ Claims(balances, Cash) = held[Cash] + (settled + forgiven) /\ held[Cash] \in Nat
       /\ \A r \in AssetSet \ {Cash} : Claims(balances, r) = held[r] + 0
  BY <1>1, BackedIs DEF Backed
<1>14. Claims(balances', Cash) = held'[Cash] + (settled' + forgiven')
  BY <1>1, <1>2, <1>8, <1>9, <1>10, <1>11, <1>13
<1>15. Backed(balances', held', settled' + forgiven')
  BY <1>2, <1>12, <1>13, <1>14 DEF Backed
<1> QED BY <1>1, <1>2, <1>6, <1>8, <1>15

-----------------------------------------------------------------------------
(* Records *)

LEMMA MarginNat ==
  ASSUME NEW size \in Nat, NEW price \in Nat
  PROVE  requiredMargin(size, price) \in Nat
<1> DEFINE n == size * price
<1>1. n \in Nat
  OBVIOUS
<1> HIDE DEF n
<1>2. (n * 500) \div 10000 \in Nat /\ 10000 \div 20 = 500
  BY <1>1
<1> QED BY <1>2 DEF requiredMargin, IMR_BPS, BPS_DENOMINATOR, LEVERAGE_CEILING, n

LEMMA TradedType ==
  ASSUME NEW pos \in [Accounts -> Positions], NEW long \in Accounts, NEW short \in Accounts,
         NEW size \in Nat, NEW price \in Nat
  PROVE  Traded(pos, long, short, size, price) \in [Accounts -> Positions]
<1> DEFINE margin == requiredMargin(size, price)
<1>1. margin \in Nat
  BY MarginNat
<1> HIDE DEF margin
<1>2. /\ [size |-> size, entry |-> price, margin |-> margin] \in Positions
      /\ [size |-> -size, entry |-> price, margin |-> margin] \in Positions
  BY <1>1 DEF Positions
<1> QED BY <1>2 DEF Traded, margin

LEMMA ClosedType ==
  ASSUME NEW pos \in [Accounts -> Positions], NEW t \in Accounts, NEW old \in Positions,
         NEW left \in Nat, old.size # 0
  PROVE  Closed(pos, t, old, left) \in [Accounts -> Positions]
<1> DEFINE m == Mag(old.size)
           margin == (old.margin * left) \div m
<1>1. old.size \in Int /\ old.entry \in Nat /\ old.margin \in Nat
  BY DEF Positions
<1>2. m \in Nat \ {0}
  BY <1>1 DEF Mag
<1> HIDE DEF m
<1>3. margin \in Nat
  BY <1>1, <1>2
<1> HIDE DEF margin
<1>4. /\ NoPosition \in Positions
      /\ [size |-> IF old.size > 0 THEN left ELSE -left, entry |-> old.entry, margin |-> margin] \in Positions
  BY <1>1, <1>3 DEF Positions, NoPosition
<1> QED BY <1>4 DEF Closed, margin, m

\* What is closed is at most the position, and only a position is closed.
LEMMA CloseSize ==
  ASSUME TypeOK, NEW t \in Accounts, NEW maxNotional \in Nat, _closeSize(t, maxNotional) > 0
  PROVE  /\ _closeSize(t, maxNotional) \in Nat
         /\ _closeSize(t, maxNotional) <= Mag(position[t].size)
         /\ position[t] \in Positions /\ position[t].size \in Int /\ position[t].size # 0
         /\ mark \in Nat
<1> DEFINE z == position[t].size
           m == Mag(z)
<1>1. position[t] \in Positions /\ z \in Int /\ mark \in Nat \ {0}
  BY Constants DEF TypeOK, Positions
<1>2. m \in Nat /\ (m = 0 => z = 0) /\ (z = 0 => m = 0)
  BY <1>1 DEF Mag
<1> DEFINE close == _closeSize(t, maxNotional)
           n == m * mark
<1>3. close = IF n <= maxNotional THEN m ELSE (m * maxNotional) \div n
  BY DEF _closeSize, Notional
<1> HIDE DEF close, m, z
<1>4. CASE n <= maxNotional
  BY <1>1, <1>2, <1>3, <1>4 DEF close, m, z
<1>5. CASE ~(n <= maxNotional)
  <2>1. n \in Nat
    BY <1>1, <1>2
  <2>2. m # 0
    BY <1>1, <1>2, <1>5
  <2>3. n # 0 /\ maxNotional <= n
    BY <1>5, <2>1
  <2>4. m * maxNotional <= m * n
    <3> HIDE DEF n
    <3> QED BY <1>2, <2>1, <2>3
  <2> HIDE DEF n
  <2>5. (m * maxNotional) \div n \in Nat /\ (m * maxNotional) \div n <= m
    <3> DEFINE x == m * maxNotional
    <3>1. x \in Nat /\ x <= m * n
      BY <1>2, <2>1, <2>4
    <3> HIDE DEF x
    <3> QED BY <1>2, <2>1, <2>3, <3>1, QuotientBound DEF x
  <2> QED BY <1>1, <1>2, <1>3, <1>5, <2>2, <2>5 DEF close, m, z
<1> QED BY <1>4, <1>5

LEMMA PenaltyNat ==
  ASSUME NEW close \in Nat, NEW price \in Nat
  PROVE  (close * price * LIQUIDATION_PENALTY_BPS) \div BPS_DENOMINATOR \in Nat
<1> DEFINE n == close * price
<1>1. n \in Nat
  OBVIOUS
<1> HIDE DEF n
<1>2. (n * 100) \div 10000 \in Nat
  BY <1>1
<1> QED BY <1>2 DEF n, BPS_DENOMINATOR, LIQUIDATION_PENALTY_BPS

LEMMA LiquidationKeeps ==
  ASSUME CustodyBacked, NEW liquidator \in Accounts, NEW t \in Accounts, NEW maxNotional \in Nat,
         executeStandardLiquidation(liquidator, t, maxNotional)
  PROVE  /\ balances' \in Balances /\ Backed(balances', held', settled' + forgiven')
         /\ position' \in [Accounts -> Positions]
<1> DEFINE close == _closeSize(t, maxNotional)
           old == position[t]
           penalty == (close * mark * LIQUIDATION_PENALTY_BPS) \div BPS_DENOMINATOR
           taken == IF old.size > 0 THEN Traded(position, liquidator, t, close, mark)
                    ELSE Traded(position, t, liquidator, close, mark)
           left == Mag(old.size) - close
<1>1. TypeOK /\ Backed(balances, held, settled + forgiven)
  BY BackedIs
<1>2. balances \in Balances /\ position \in [Accounts -> Positions]
  BY <1>1 DEF TypeOK, Balances
<1>3. /\ close > 0 /\ held' = held /\ UNCHANGED <<settled, forgiven>>
      /\ position' = Closed(taken, t, old, left)
      /\ balances' = _sweepPenalty(t, liquidator, penalty)
  BY DEF executeStandardLiquidation
<1>4. /\ close \in Nat /\ close <= Mag(old.size) /\ mark \in Nat
      /\ old \in Positions /\ old.size \in Int /\ old.size # 0
  <2> HIDE DEF old, penalty, taken, left
  <2> QED BY <1>1, <1>3, CloseSize DEF old
<1> HIDE DEF close, old
<1>5. penalty \in Nat
  BY <1>4, PenaltyNat
<1> HIDE DEF penalty
<1>6. balances' \in Balances /\ \A s \in AssetSet : Claims(balances', s) = Claims(balances, s)
  BY <1>2, <1>3, <1>5, SweepKeeps
<1>7. taken \in [Accounts -> Positions]
  BY <1>2, <1>4, TradedType
<1>8. left \in Nat
  BY <1>4 DEF Mag
<1> HIDE DEF taken, left
<1>9. position' \in [Accounts -> Positions]
  BY <1>3, <1>4, <1>7, <1>8, ClosedType
<1> QED BY <1>1, <1>3, <1>6, <1>9 DEF Backed

-----------------------------------------------------------------------------
(* Every call keeps custody backed *)

LEMMA CallCounted ==
  ASSUME TypeOK, Call
  PROVE  steps' \in 0..MaxSteps
BY Constants DEF TypeOK, Call

\* A call that leaves custody alone and keeps the types.
LEMMA CustodyAlone ==
  ASSUME CustodyBacked, TypeOK', UNCHANGED custody
  PROVE  CustodyBacked'
BY BackedIs, BackedIsNext DEF custody

LEMMA DepositBacked ==
  ASSUME CustodyBacked, NEW t \in Accounts, NEW s \in AssetSet, NEW n \in Nat, deposit(t, s, n)
  PROVE  CustodyBacked'
<1>1. TypeOK /\ balances \in Balances
  BY DEF CustodyBacked, TypeOK, Balances
<1>2. n \in Int /\ balances[t][s] + n \in Nat
  BY <1>1 DEF Balances
<1>3. /\ balances' = [balances EXCEPT ![t][s] = @ + n]
      /\ held' = [held EXCEPT ![s] = @ + n] /\ UNCHANGED <<settled, forgiven>>
  BY DEF deposit
<1>4. balances' \in Balances /\ Backed(balances', held', settled' + forgiven')
  BY <1>2, <1>3, MoveKeeps
<1>5. held' \in [AssetSet -> Nat]
  BY <1>1, <1>2, <1>3 DEF TypeOK
<1>6. TypeOK'
  BY <1>1, <1>4, <1>5, CallCounted DEF deposit, TypeOK, Balances, oracle, roles
<1> QED BY <1>4, <1>6, BackedIsNext

LEMMA WithdrawalBacked ==
  ASSUME CustodyBacked, NEW t \in Accounts, NEW s \in AssetSet, NEW n \in Nat, withdraw(t, s, n)
  PROVE  CustodyBacked'
<1>1. TypeOK /\ balances \in Balances
  BY DEF CustodyBacked, TypeOK, Balances
<1>2. -n \in Int /\ balances[t][s] \in Nat /\ held[s] \in Nat
  BY <1>1 DEF Balances, TypeOK
<1>3. balances[t][s] >= n /\ held[s] >= n
  BY DEF withdraw
<1>4. /\ balances[t][s] + (-n) \in Nat /\ balances[t][s] - n = balances[t][s] + (-n)
      /\ held[s] - n \in Nat /\ held[s] - n = held[s] + (-n)
  BY <1>2, <1>3
<1>5. /\ balances' = [balances EXCEPT ![t][s] = balances[t][s] - n]
      /\ held' = [held EXCEPT ![s] = held[s] - n] /\ UNCHANGED <<settled, forgiven>>
  BY DEF withdraw
<1>6. /\ balances' = [balances EXCEPT ![t][s] = @ + (-n)]
      /\ held' = [held EXCEPT ![s] = @ + (-n)]
  BY <1>4, <1>5
<1>7. held' \in [AssetSet -> Nat]
  BY <1>1, <1>4, <1>5 DEF TypeOK
<1>8. balances' \in Balances /\ Backed(balances', held', settled' + forgiven')
  BY <1>2, <1>4, <1>5, <1>6, MoveKeeps
<1>9. TypeOK'
  BY <1>1, <1>7, <1>8, CallCounted DEF withdraw, TypeOK, Balances, oracle, roles
<1> QED BY <1>8, <1>9, BackedIsNext

LEMMA TradingBacked == CustodyBacked /\ Trading => CustodyBacked'
<1> SUFFICES ASSUME CustodyBacked, Trading PROVE CustodyBacked'
  OBVIOUS
<1>0. TypeOK /\ balances \in Balances
  BY DEF CustodyBacked, TypeOK, Balances
<1>1. ASSUME NEW t \in Traders, NEW s \in AssetSet, NEW n \in Amounts, deposit(t, s, n)
      PROVE  CustodyBacked'
  BY <1>1, Constants, DepositBacked
<1>2. ASSUME NEW t \in Traders, NEW s \in AssetSet, NEW n \in Amounts, withdraw(t, s, n)
      PROVE  CustodyBacked'
  BY <1>2, Constants, WithdrawalBacked
<1>3. ASSUME NEW t \in Traders, NEW u \in Traders, NEW n \in Sizes, NEW p \in Marks,
             settleTrade(t, u, n, p)
      PROVE  CustodyBacked'
  <2>1. t \in Accounts /\ u \in Accounts /\ n \in Nat /\ p \in Nat
    BY Constants
  <2>2. position' \in [Accounts -> Positions]
    BY <1>0, <1>3, <2>1, TradedType DEF settleTrade, TypeOK
  <2>3. TypeOK'
    BY <1>0, <1>3, <2>2, CallCounted DEF settleTrade, TypeOK, custody, oracle, roles
  <2> QED BY <1>3, <2>3, CustodyAlone DEF settleTrade
<1>4. ASSUME NEW t \in Traders, checkAndFlag(t) \/ checkLiquidation(t)
      PROVE  CustodyBacked'
  <2>1. Call /\ UNCHANGED <<position, custody, oracle, roles>> /\ \E ts : FreezeAll(ts)
    BY <1>4, Zenon DEF checkAndFlag, checkLiquidation
  <2>2. frozen' \in [Accounts -> BOOLEAN]
    BY <2>1 DEF FreezeAll
  <2>3. TypeOK'
    BY <1>0, <2>1, <2>2, CallCounted DEF TypeOK, custody, oracle, roles
  <2> QED BY <2>1, <2>3, CustodyAlone
<1>5. ASSUME NEW t \in Accounts, NEW u \in Accounts, NEW n \in MaxNotionals,
             executeStandardLiquidation(t, u, n)
      PROVE  CustodyBacked'
  <2>1. n \in Nat
    BY Constants
  <2>2. /\ balances' \in Balances /\ Backed(balances', held', settled' + forgiven')
        /\ position' \in [Accounts -> Positions]
    BY <1>5, <2>1, LiquidationKeeps
  <2>3. Call /\ UNCHANGED <<frozen, held, settled, forgiven, oracle, roles>>
    BY <1>5 DEF executeStandardLiquidation
  <2>4. TypeOK'
    BY <1>0, <2>2, <2>3, CallCounted DEF TypeOK, Balances, oracle, roles
  <2> QED BY <2>2, <2>4, BackedIsNext
<1>6. ASSUME NEW p \in Marks, NEW isLive \in BOOLEAN, MoveMark(p, isLive)
      PROVE  CustodyBacked'
  <2>1. TypeOK'
    BY <1>0, <1>6, CallCounted DEF MoveMark, TypeOK, custody, roles
  <2> QED BY <1>6, <2>1, CustodyAlone DEF MoveMark
<1> QED BY <1>1, <1>2, <1>3, <1>4, <1>5, <1>6 DEF Trading

LEMMA GoverningBacked == CustodyBacked /\ Governing => CustodyBacked'
<1> SUFFICES ASSUME CustodyBacked, Governing PROVE CustodyBacked'
  OBVIOUS
<1>0. TypeOK
  BY DEF CustodyBacked
<1>1. ASSUME NEW d \in Batches, settleRealizedPnlBatch(d) PROVE CustodyBacked'
  <2>1. \A t \in DOMAIN d : d[t] \in Int
    BY ClearingAssumption
  <2>2. /\ balances' \in Balances /\ settled' \in Int /\ forgiven' \in Nat
        /\ Backed(balances', held', settled' + forgiven')
    BY <1>1, <2>1, BatchKeeps
  <2>3. Call /\ UNCHANGED <<frozen, held, position, oracle, roles>>
    BY <1>1 DEF settleRealizedPnlBatch
  <2>4. TypeOK'
    BY <1>0, <2>2, <2>3, CallCounted DEF TypeOK, Balances, oracle, roles
  <2> QED BY <2>2, <2>4, BackedIsNext
<1>2. ASSUME NEW t \in Accounts, unfreezeAccount(t) PROVE CustodyBacked'
  <2>1. TypeOK'
    BY <1>0, <1>2, CallCounted DEF unfreezeAccount, TypeOK, custody, oracle, roles
  <2> QED BY <1>2, <2>1, CustodyAlone DEF unfreezeAccount
<1>3. ASSUME NEW t \in Accounts, revokeCapability(t) PROVE CustodyBacked'
  <2>1. TypeOK'
    BY <1>0, <1>3, CallCounted DEF revokeCapability, TypeOK, custody, oracle
  <2> QED BY <1>3, <2>1, CustodyAlone DEF revokeCapability
<1>4. ASSUME NEW t \in Traders, NEW n \in Requirements, submitPortfolioMargin(t, n)
      PROVE  CustodyBacked'
  <2>1. t \in Accounts /\ n \in Nat /\ now + Lifetime \in Nat
    BY <1>0, Constants DEF TypeOK
  <2>2. TypeOK'
    BY <1>0, <1>4, <2>1, CallCounted DEF submitPortfolioMargin, TypeOK, custody, oracle
  <2> QED BY <1>4, <2>2, CustodyAlone DEF submitPortfolioMargin
<1>5. ASSUME authorizeTEE \/ revokeTEE PROVE CustodyBacked'
  <2>1. TypeOK'
    BY <1>0, <1>5, CallCounted DEF authorizeTEE, revokeTEE, TypeOK, custody, oracle
  <2> QED BY <1>5, <2>1, CustodyAlone DEF authorizeTEE, revokeTEE
<1>6. ASSUME NEW t \in Traders, NEW terms \in Signed, grantCapability(t, terms)
      PROVE  CustodyBacked'
  <2>1. t \in Accounts /\ terms.loss \in Nat /\ terms.drawdown \in Nat /\ terms.expiry \in Nat
    BY Constants
  <2>2. TypeOK'
    BY <1>0, <1>6, <2>1, CallCounted DEF grantCapability, TypeOK, custody, oracle
  <2> QED BY <1>6, <2>2, CustodyAlone DEF grantCapability
<1>7. ASSUME NEW t \in Traders, NEW n \in Losses, NEW d \in Losses, checkAndFreezeOnBreach(t, n, d)
      PROVE  CustodyBacked'
  <2>1. t \in Accounts
    BY Constants
  <2>2. TypeOK'
    BY <1>0, <1>7, <2>1, CallCounted DEF checkAndFreezeOnBreach, FreezeAll, TypeOK, custody, oracle
  <2> QED BY <1>7, <2>2, CustodyAlone DEF checkAndFreezeOnBreach
<1>8. ASSUME NEW s \in AssetSet, NEW bps \in TierHaircuts[s], registerAsset(s, bps)
      PROVE  CustodyBacked'
  <2>1. bps \in 0..BPS_DENOMINATOR
    BY Constants
  <2>2. haircut' = [haircut EXCEPT ![s] = bps]
    BY <1>8 DEF registerAsset
  <2>3. /\ haircut' \in [AssetSet -> 0..BPS_DENOMINATOR]
        /\ \A r \in AssetSet : haircut'[r] \in TierHaircuts[r]
    BY <1>0, <2>1, <2>2 DEF TypeOK
  <2>4. TypeOK'
    BY <1>0, <1>8, <2>3, CallCounted DEF registerAsset, TypeOK, custody, roles
  <2> QED BY <1>8, <2>4, CustodyAlone DEF registerAsset
<1>9. ASSUME Tick PROVE CustodyBacked'
  <2>1. TypeOK'
    BY <1>0, <1>9, Constants DEF Tick, TypeOK, custody, oracle
  <2> QED BY <1>9, <2>1, CustodyAlone DEF Tick
<1> QED BY <1>1, <1>2, <1>3, <1>4, <1>5, <1>6, <1>7, <1>8, <1>9 DEF Governing

\* For every set of accounts, assets, prices and amounts: whatever is
\* deposited, withdrawn, traded, seized in a liquidation or settled by the
\* matcher in a batch of any signed deltas (Account.sol, LiquidationEntry.sol),
\* the balances of an asset add up to what custody holds of it, what batches
\* settled and the losses they floored.
THEOREM CustodyAlwaysBacked == Spec => []CustodyBacked
<1>1. CustodyBacked /\ [Next]_vars => CustodyBacked'
  <2> SUFFICES ASSUME CustodyBacked, [Next]_vars PROVE CustodyBacked'
    OBVIOUS
  <2>1. CASE Trading
    BY <2>1, TradingBacked
  <2>2. CASE Governing
    BY <2>2, GoverningBacked
  <2>3. CASE UNCHANGED vars
    <3>1. TypeOK' /\ UNCHANGED custody
      BY <2>3 DEF vars, custody, oracle, roles, CustodyBacked, TypeOK
    <3> QED BY <3>1, CustodyAlone
  <2> QED BY <2>1, <2>2, <2>3 DEF Next
<1> QED BY <1>1, InitBacked, PTL DEF Spec

-----------------------------------------------------------------------------
(* The backstop ledger *)

\* The history accounts for the booked PnL: every draw moved it up by what was
\* drawn, and drew no more than was still missing.
LedgerInv ==
  /\ cumulativePnl \in [BackstopMarkets -> Int] /\ attested \in [BackstopMarkets -> Int]
  /\ drawn \in [BackstopMarkets -> Nat] /\ reserve \in Nat
  /\ \A m \in BackstopMarkets : /\ cumulativePnl[m] = attested[m] + drawn[m]
                                /\ drawn[m] = 0 \/ cumulativePnl[m] <= 0

LEMMA LedgerStep == LedgerInv /\ LedgerNext => LedgerInv'
<1> SUFFICES ASSUME LedgerInv, LedgerNext PROVE LedgerInv'
  OBVIOUS
<1> USE DEF LedgerInv
<1>1. ASSUME NEW m \in BackstopMarkets, NEW pnl \in Pnls, submitState(m, pnl) PROVE LedgerInv'
  <2>1. pnl \in Int
    BY BackstopLedgerAssumption
  <2> QED BY <1>1, <2>1 DEF submitState
<1>2. ASSUME NEW n \in Draws, fundReserve(n) PROVE LedgerInv'
  BY <1>2, BackstopLedgerAssumption DEF fundReserve
<1>3. ASSUME NEW m \in BackstopMarkets, NEW n \in Draws, drawSubsidy(m, n) PROVE LedgerInv'
  <2>1. n \in Nat \ {0} /\ cumulativePnl[m] \in Int
    BY BackstopLedgerAssumption
  <2>2. n <= Max({0, -cumulativePnl[m]})
    BY <1>3 DEF drawSubsidy, breakevenSubsidyNeeded
  <2>3. n <= -cumulativePnl[m]
    <3> DEFINE x == -cumulativePnl[m]
    <3>1. x \in Int
      BY <2>1
    <3> HIDE DEF x
    <3>2. Max({0, x}) \in {0, x}
      BY <3>1, MaxZero
    <3>3. n <= Max({0, x})
      BY <2>2 DEF x
    <3>4. n <= x
      BY <2>1, <3>1, <3>2, <3>3
    <3> QED BY <3>4 DEF x
  <2>4. /\ n <= reserve /\ reserve' = reserve - n /\ attested' = attested
        /\ cumulativePnl' = [cumulativePnl EXCEPT ![m] = @ + n]
        /\ drawn' = [drawn EXCEPT ![m] = @ + n]
    BY <1>3 DEF drawSubsidy
  <2>5. \A k \in BackstopMarkets : /\ cumulativePnl'[k] = attested'[k] + drawn'[k]
                                   /\ drawn'[k] = 0 \/ cumulativePnl'[k] <= 0
    BY <2>1, <2>3, <2>4
  <2> QED BY <2>1, <2>4, <2>5
<1> QED BY <1>1, <1>2, <1>3 DEF LedgerNext

LEMMA LedgerInvEnough == LedgerInv => SubsidyWithinAttestation
<1> SUFFICES ASSUME LedgerInv PROVE SubsidyWithinAttestation
  OBVIOUS
<1>1. ASSUME NEW m \in BackstopMarkets PROVE drawn[m] <= Max({0, -attested[m]})
  <2> DEFINE x == -attested[m]
  <2>1. x \in Int /\ drawn[m] \in Nat /\ (drawn[m] <= x \/ drawn[m] = 0)
    BY DEF LedgerInv
  <2> HIDE DEF x
  <2>2. Max({0, x}) \in Int /\ 0 <= Max({0, x}) /\ x <= Max({0, x})
    <3>1. Max({0, x}) \in {0, x} /\ 0 <= Max({0, x}) /\ x <= Max({0, x})
      BY <2>1, MaxZero
    <3> QED BY <2>1, <3>1
  <2>3. drawn[m] <= Max({0, x})
    BY <2>1, <2>2
  <2> QED BY <2>3 DEF x
<1> QED BY <1>1 DEF LedgerInv, SubsidyWithinAttestation

\* For every set of markets and amounts: however the draws are split between
\* attestations (BackstopLedger.sol, drawSubsidy), a market is never paid more
\* than its attested loss, and the shared reserve is never overdrawn.
THEOREM SubsidyBounded == LedgerSpec => []SubsidyWithinAttestation
<1>1. LedgerInit => LedgerInv
  BY DEF LedgerInit, LedgerInv
<1>2. LedgerInv /\ [LedgerNext \/ (Next /\ UNCHANGED ledgerVars)]_<<vars, ledgerVars>> => LedgerInv'
  <2> SUFFICES ASSUME LedgerInv, LedgerNext \/ UNCHANGED ledgerVars PROVE LedgerInv'
    BY Zenon
  <2>1. CASE UNCHANGED ledgerVars
    BY <2>1 DEF ledgerVars, LedgerInv
  <2> QED BY <2>1, LedgerStep
<1> QED BY <1>1, <1>2, LedgerInvEnough, PTL DEF LedgerSpec

-----------------------------------------------------------------------------
(* Withdrawals *)

LEMMA AssetsFinite == IsFiniteSet(AssetSet)
<1> DEFINE N == Len(Assets)
<1>1. N \in Nat /\ DOMAIN Assets = 1..N /\ Assets \in [1..N -> AssetSet]
  BY ClearingAssumption DEF AssetSet
<1>2. \A s \in AssetSet : \E i \in 1..N : Assets[i] = s
  BY <1>1 DEF AssetSet, ToSet
<1> HIDE DEF N
<1>3. IsFiniteSet(1..N)
  BY <1>1, FS_Interval
<1>4. Assets \in Surjection(1..N, AssetSet)
  BY <1>1, <1>2 DEF Surjection
<1> QED BY <1>3, <1>4, FS_Surjection

\* Rounding the value of the whole and of a part down costs at most one unit.
LEMMA FloorSplit ==
  ASSUME NEW x \in Nat, NEW y \in Nat, NEW d \in Nat \ {0}, y <= x
  PROVE  (x - y) \div d + y \div d + 1 >= x \div d
OBVIOUS

LEMMA ValueSplit ==
  ASSUME NEW b \in Nat, NEW n \in Nat, n <= b, NEW c \in Nat, NEW p \in Nat, NEW d \in Nat \ {0}
  PROVE  /\ (b * c * p) \div d \in Nat /\ (n * c * p) \div d \in Nat
         /\ ((b - n) * c * p) \div d \in Nat
         /\ ((b - n) * c * p) \div d + (n * c * p) \div d + 1 >= (b * c * p) \div d
<1> DEFINE k == c * p
           x == b * k
           y == n * k
<1>1. k \in Nat
  OBVIOUS
<1>2. b * c * p = x /\ n * c * p = y /\ (b - n) * c * p = (b - n) * k
  OBVIOUS
<1> HIDE DEF k
<1>3. x \in Nat /\ y \in Nat /\ y <= x /\ (b - n) * k = x - y
  BY <1>1
<1> HIDE DEF x, y
<1>4. (x - y) \div d + y \div d + 1 >= x \div d
  BY <1>3, FloorSplit
<1>5. x \div d \in Nat /\ y \div d \in Nat /\ (x - y) \div d \in Nat
  BY <1>3
<1> QED BY <1>2, <1>3, <1>4, <1>5

\* What a withdrawal leaves is worth the old value less that of the part
\* taken, but for one unit.
LEMMA WithdrawalLeaves ==
  ASSUME TypeOK, NEW t \in Accounts, NEW s \in AssetSet, NEW n \in Nat, n <= balances[t][s],
         balances' = [balances EXCEPT ![t][s] = @ - n], haircut' = haircut
  PROVE  /\ effectiveCollateral(t)' + 1 >= effectiveCollateral(t) - assetValueUsd(s, n)
         /\ effectiveCollateral(t) \in Int /\ assetValueUsd(s, n) \in Nat
         /\ effectiveCollateral(t)' \in Int
<1> DEFINE f == [r \in AssetSet |-> assetValueUsd(r, balances[t][r])]
           h == [r \in AssetSet |-> assetValueUsd(r, balances'[t][r])]
           Keep(r) == BPS_DENOMINATOR - haircut[r]
<1>1. \A r \in AssetSet : Keep(r) \in Nat /\ PriceOf[r] \in Nat /\ balances[t][r] \in Nat
  <2>1. BPS_DENOMINATOR \in Nat
    BY DEF BPS_DENOMINATOR
  <2>2. \A r \in AssetSet : haircut[r] \in 0..BPS_DENOMINATOR /\ balances[t][r] \in Nat
    BY DEF TypeOK
  <2> QED BY <2>1, <2>2, Constants
<1>2. /\ balances'[t][s] = balances[t][s] - n
      /\ \A r \in AssetSet \ {s} : balances'[t][r] = balances[t][r]
  BY DEF TypeOK
<1>3. BPS_DENOMINATOR \in Nat \ {0}
  BY DEF BPS_DENOMINATOR
<1>4. \A r \in AssetSet, b \in Nat : assetValueUsd(r, b) \in Nat
  <2> TAKE r \in AssetSet, b \in Nat
  <2> HIDE DEF Keep
  <2>1. (b * Keep(r) * PriceOf[r]) \div BPS_DENOMINATOR \in Nat
    BY <1>1, <1>3
  <2> QED BY <2>1 DEF assetValueUsd, Keep
<1>5. assetValueUsd(s, balances[t][s] - n) + assetValueUsd(s, n) + 1 >= assetValueUsd(s, balances[t][s])
  <2> DEFINE b == balances[t][s]
  <2> HIDE DEF Keep, b
  <2>1. b \in Nat /\ n <= b
    BY <1>1 DEF b
  <2>2. ((b - n) * Keep(s) * PriceOf[s]) \div BPS_DENOMINATOR
          + (n * Keep(s) * PriceOf[s]) \div BPS_DENOMINATOR + 1
        >= (b * Keep(s) * PriceOf[s]) \div BPS_DENOMINATOR
    BY <1>1, <1>3, <2>1, ValueSplit
  <2> QED BY <2>2 DEF assetValueUsd, Keep, b
<1>6. /\ \A r \in AssetSet : f[r] \in Int /\ f[r] = assetValueUsd(r, balances[t][r])
      /\ \A r \in AssetSet \ {s} : h[r] = f[r]
      /\ h[s] \in Int /\ h[s] = assetValueUsd(s, balances[t][s] - n)
  <2>1. balances[t][s] - n \in Nat
    BY <1>1
  <2> HIDE DEF Keep
  <2> QED BY <1>1, <1>2, <1>4, <2>1
<1>7. effectiveCollateral(t) = SumFunctionOnSet(f, AssetSet)
  BY DEF effectiveCollateral
<1>8. effectiveCollateral(t)' = SumFunctionOnSet(h, AssetSet)
  BY DEF effectiveCollateral, assetValueUsd
<1> HIDE DEF f, h, Keep
<1>9. /\ SumFunctionOnSet(h, AssetSet) = SumFunctionOnSet(f, AssetSet) + h[s] - f[s]
      /\ SumFunctionOnSet(f, AssetSet) \in Int
  BY <1>6, AssetsFinite, SumChange, SumInt
<1>10. assetValueUsd(s, n) \in Nat /\ f[s] \in Int
  BY <1>4, <1>6
<1>11. h[s] + assetValueUsd(s, n) + 1 >= f[s]
  BY <1>5, <1>6
<1> QED BY <1>6, <1>7, <1>8, <1>9, <1>10, <1>11

\* Only withdraw lowers what custody holds.
LEMMA OnlyWithdraw ==
  ASSUME TypeOK, [Next]_vars, NEW s \in AssetSet, held'[s] < held[s]
  PROVE  \E t \in Traders, r \in AssetSet, n \in Amounts : withdraw(t, r, n)
<1>1. held[s] \in Nat
  BY DEF TypeOK
<1>2. ~UNCHANGED held
  BY <1>1
<1>3. ASSUME NEW t \in Traders, NEW r \in AssetSet, NEW n \in Amounts, deposit(t, r, n) PROVE FALSE
  <2>1. held' = [held EXCEPT ![r] = @ + n] /\ n \in Nat
    BY <1>3, Constants DEF deposit
  <2> QED BY <1>1, <2>1 DEF TypeOK
<1>4. Governing => UNCHANGED held
  BY DEF Governing, settleRealizedPnlBatch, unfreezeAccount, revokeCapability, submitPortfolioMargin,
         authorizeTEE, revokeTEE, grantCapability, checkAndFreezeOnBreach, registerAsset, Tick, custody
<1>5. UNCHANGED vars => UNCHANGED held
  BY DEF vars, custody
<1>6. ASSUME Trading PROVE \/ UNCHANGED held
                           \/ \E t \in Traders, r \in AssetSet, n \in Amounts : deposit(t, r, n) \/ withdraw(t, r, n)
  <2>1. \A t, u \in Traders, n \in Sizes, p \in Marks : settleTrade(t, u, n, p) => UNCHANGED held
    BY DEF settleTrade, custody
  <2>2. \A t \in Traders : checkAndFlag(t) \/ checkLiquidation(t) => UNCHANGED held
    BY DEF checkAndFlag, checkLiquidation, custody
  <2>3. \A t, u \in Accounts, n \in MaxNotionals : executeStandardLiquidation(t, u, n) => UNCHANGED held
    BY DEF executeStandardLiquidation
  <2>4. \A p \in Marks, isLive \in BOOLEAN : MoveMark(p, isLive) => UNCHANGED held
    BY DEF MoveMark, custody
  <2> QED BY <1>6, <2>1, <2>2, <2>3, <2>4 DEF Trading
<1> QED BY <1>2, <1>3, <1>4, <1>5, <1>6 DEF Next

\* For every collateral, haircut and price: isWithdrawSafe, which values the
\* part and the whole apart, lets a withdrawal take at most the one unit that
\* rounding costs below the requirement in force.
THEOREM WithdrawalsKeepMargin == Spec => WithdrawKeepsMargin
<1> DEFINE Keeps == \A t \in Accounts : \A s \in AssetSet :
                      (held'[s] < held[s] /\ balances'[t][s] < balances[t][s])
                        => effectiveCollateral(t)' + 1 >= effectiveMarginRequirement(t)
<1>1. TypeOK /\ [Next]_vars => Keeps
  <2> SUFFICES ASSUME TypeOK, [Next]_vars, NEW t \in Accounts, NEW s \in AssetSet,
                      held'[s] < held[s], balances'[t][s] < balances[t][s]
               PROVE  effectiveCollateral(t)' + 1 >= effectiveMarginRequirement(t)
    OBVIOUS
  <2>1. PICK u \in Traders, r \in AssetSet, n \in Amounts : withdraw(u, r, n)
    BY OnlyWithdraw
  <2>2. n \in Nat /\ u \in Accounts /\ balances[u][r] \in Nat
    BY Constants DEF TypeOK
  <2>3. /\ n <= balances[u][r] /\ balances' = [balances EXCEPT ![u][r] = @ - n] /\ haircut' = haircut
        /\ isWithdrawSafe(u, r, n)
    BY <2>1, <2>2 DEF withdraw, oracle
  <2>4. t = u
    BY <2>3 DEF TypeOK
  <2>5. /\ effectiveCollateral(u)' + 1 >= effectiveCollateral(u) - assetValueUsd(r, n)
        /\ effectiveCollateral(u) \in Int /\ assetValueUsd(r, n) \in Nat
        /\ effectiveCollateral(u)' \in Int
    BY <2>2, <2>3, WithdrawalLeaves
  <2>6. effectiveMarginRequirement(u) \in Int
    <3> DEFINE m == Mag(position[u].size) * mark
    <3>1. m \in Int
      <4>1. position[u].size \in Int /\ mark \in Int
        BY <2>2, Constants DEF TypeOK, Positions
      <4> QED BY <4>1 DEF Mag
    <3> HIDE DEF m
    <3>2. (m * 300) \div 10000 \in Int
      BY <3>1
    <3>3. currentMarginRequirement(u) \in Int
      BY <3>2 DEF currentMarginRequirement, MMR_BPS, BPS_DENOMINATOR, m
    <3>4. attestation[u].requirement \in Int
      BY <2>2 DEF TypeOK
    <3> QED BY <3>3, <3>4 DEF effectiveMarginRequirement
  <2>7. effectiveCollateral(u) - assetValueUsd(r, n) >= effectiveMarginRequirement(u)
    BY <2>3 DEF isWithdrawSafe
  <2> QED BY <2>4, <2>5, <2>6, <2>7
<1>2. CustodyBacked => TypeOK
  BY DEF CustodyBacked
<1> HIDE DEF Keeps
<1>3. Spec => [][Keeps]_vars
  BY <1>1, <1>2, CustodyAlwaysBacked, PTL DEF Spec
<1> QED BY <1>3 DEF WithdrawKeepsMargin, Keeps

-----------------------------------------------------------------------------
(* The share vault *)

\* The mark is the greatest NAV per share that an accrual left, rounded down.
VaultInv ==
  /\ shares \in [Owners -> Nat] /\ highWaterMarkPerShare \in Nat /\ performanceFeeBps \in FeeBps
  /\ peak \in [assets : Nat, supply : Nat \ {0}]
  /\ (highWaterMarkPerShare + 1) * peak.supply > peak.assets * SCALE

\* Floor division of naturals, without the division.
LEMMA Floored ==
  ASSUME NEW n \in Nat, NEW d \in Nat \ {0}
  PROVE  n \div d \in Nat /\ (n \div d) * d <= n /\ n < (n \div d + 1) * d
OBVIOUS

LEMMA TimesGrows ==
  ASSUME NEW x \in Nat, NEW y \in Nat, NEW k \in Nat, x <= y
  PROVE  /\ x * k \in Nat /\ y * k \in Nat /\ k * x = x * k /\ k * y = y * k
         /\ x * k <= y * k
OBVIOUS

LEMMA TimesCancel ==
  ASSUME NEW x \in Nat, NEW y \in Nat, NEW k \in Nat \ {0}
  PROVE  /\ x * k <= y * k => x <= y
         /\ x * k < y * k => x < y
<1>1. ASSUME y + 1 <= x PROVE x * k >= y * k + k /\ x * k \in Nat /\ y * k \in Nat
  <2>1. (y + 1) * k <= x * k /\ x * k \in Nat /\ y * k \in Nat
    BY <1>1, TimesGrows
  <2>2. (y + 1) * k = y * k + k
    OBVIOUS
  <2> QED BY <2>1, <2>2
<1>2. ASSUME y <= x PROVE x * k >= y * k /\ x * k \in Nat /\ y * k \in Nat
  BY <1>2, TimesGrows
<1>3. x * k <= y * k => x <= y
  <2> SUFFICES ASSUME x * k <= y * k, ~(x <= y) PROVE FALSE
    OBVIOUS
  <2>1. y + 1 <= x
    OBVIOUS
  <2> DEFINE u == x * k
             v == y * k
  <2>2. u >= v + k /\ u \in Nat /\ v \in Nat /\ u <= v
    BY <1>1, <2>1
  <2> HIDE DEF u, v
  <2> QED BY <2>2
<1>4. x * k < y * k => x < y
  <2> SUFFICES ASSUME x * k < y * k, ~(x < y) PROVE FALSE
    OBVIOUS
  <2>1. y <= x
    OBVIOUS
  <2> DEFINE u == x * k
             v == y * k
  <2>2. u >= v /\ u \in Nat /\ v \in Nat /\ u < v
    BY <1>2, <2>1
  <2> HIDE DEF u, v
  <2> QED BY <2>2
<1> QED BY <1>3, <1>4

\* The fee takes no more than the gain since the mark, so that the NAV per share
\* which its dilution leaves is not below the mark.
LEMMA FeeLeavesMark ==
  ASSUME NEW S \in Nat \ {0}, NEW T \in Nat \ {0}, NEW M \in Nat, NEW v \in Nat, NEW c \in Nat,
         M < v, v * S <= T * c,
         NEW profit \in Nat, profit * c <= (v - M) * S,
         NEW fee \in Nat, fee <= profit,
         NEW F \in Nat, F * T <= fee * S
  PROVE  M * (S + F) <= T * c
<1> DEFINE MS == M * S
           MF == M * F
           Tc == T * c
           vS == v * S
           fc == fee * c
<1>1. MS \in Nat /\ MF \in Nat /\ Tc \in Nat /\ vS \in Nat /\ fc \in Nat
  OBVIOUS
<1>2. MS <= vS /\ vS <= Tc /\ (v - M) * S = vS - MS
  BY TimesGrows
<1>3. fc <= vS - MS
  <2>1. fc <= profit * c
    BY TimesGrows
  <2> DEFINE pc == profit * c
  <2>2. fc <= pc /\ pc \in Nat /\ pc <= vS - MS
    BY <1>2, <2>1
  <2> HIDE DEF pc, fc, vS, MS
  <2> QED BY <1>1, <2>2
<1>4. MF * T <= fc * T
  <2> DEFINE FT == F * T
             fS == fee * S
  <2>1. FT \in Nat /\ fS \in Nat /\ FT <= fS
    OBVIOUS
  <2>2. MF * T = FT * M /\ fS * M = MS * fee /\ fc * T = Tc * fee
    OBVIOUS
  <2>3. MS <= Tc
    BY <1>1, <1>2
  <2> HIDE DEF FT, fS, MF, MS, Tc, fc
  <2>4. FT * M <= fS * M /\ MS * fee <= Tc * fee
    BY <1>1, <2>1, <2>3, TimesGrows
  <2> DEFINE p == FT * M
             q == fS * M
             r == Tc * fee
  <2>5. p \in Nat /\ q \in Nat /\ r \in Nat /\ p <= q /\ q <= r /\ MF * T = p /\ fc * T = r
    BY <1>1, <2>1, <2>2, <2>4
  <2> HIDE DEF p, q, r
  <2> QED BY <2>5
<1>5. MF <= fc
  <2> HIDE DEF MF, fc
  <2> QED BY <1>1, <1>4, TimesCancel
<1>6. M * (S + F) = MS + MF
  OBVIOUS
<1> HIDE DEF MS, MF, Tc, vS, fc
<1>7. MS + MF <= Tc
  BY <1>1, <1>2, <1>3, <1>5
<1> QED BY <1>6, <1>7 DEF Tc

\* A unit of cash is worth one, at every time, and cash moves the collateral of
\* an account by what moved.
LEMMA CashIsValue ==
  ASSUME TypeOK, NEW t \in Accounts
  PROVE  /\ effectiveCollateral(t) \in Nat
         /\ \A n \in Int :
              balances[t][Cash] + n \in Nat /\ haircut' = haircut
                /\ balances' = [balances EXCEPT ![t][Cash] = @ + n]
              => effectiveCollateral(t)' = effectiveCollateral(t) + n
<1> DEFINE f == [r \in AssetSet |-> assetValueUsd(r, balances[t][r])]
           h == [r \in AssetSet |-> assetValueUsd(r, balances'[t][r])]
           Keep(r) == BPS_DENOMINATOR - haircut[r]
<1>1. \A r \in AssetSet : Keep(r) \in Nat /\ PriceOf[r] \in Nat /\ balances[t][r] \in Nat
  <2>1. BPS_DENOMINATOR \in Nat
    BY DEF BPS_DENOMINATOR
  <2>2. \A r \in AssetSet : haircut[r] \in 0..BPS_DENOMINATOR /\ balances[t][r] \in Nat
    BY DEF TypeOK
  <2> QED BY <2>1, <2>2, Constants
<1>2. BPS_DENOMINATOR \in Nat \ {0}
  BY DEF BPS_DENOMINATOR
<1>3. \A r \in AssetSet, b \in Nat : assetValueUsd(r, b) \in Nat
  <2> TAKE r \in AssetSet, b \in Nat
  <2> HIDE DEF Keep
  <2>1. (b * Keep(r) * PriceOf[r]) \div BPS_DENOMINATOR \in Nat
    BY <1>1, <1>2
  <2> QED BY <2>1 DEF assetValueUsd, Keep
<1>4. \A b \in Nat : assetValueUsd(Cash, b) = b
  <2> TAKE b \in Nat
  <2>1. haircut[Cash] = 0 /\ PriceOf[Cash] = 1
    <3>1. Cash \in AssetSet /\ TierHaircuts[Cash] = {0} /\ PriceOf[Cash] = 1
      BY Constants, VaultAssumption
    <3>2. haircut[Cash] \in TierHaircuts[Cash]
      BY <3>1 DEF TypeOK
    <3> QED BY <3>1, <3>2
  <2>2. (b * (10000 - 0) * 1) \div 10000 = b
    OBVIOUS
  <2> QED BY <2>1, <2>2 DEF assetValueUsd, BPS_DENOMINATOR
<1>5. effectiveCollateral(t) = SumFunctionOnSet(f, AssetSet)
  BY DEF effectiveCollateral
<1>6. \A r \in AssetSet : f[r] \in Nat /\ f[r] \in Int
  <2> HIDE DEF Keep
  <2> QED BY <1>1, <1>3
<1>7. effectiveCollateral(t) \in Nat
  <2> HIDE DEF f, h, Keep
  <2> QED BY <1>5, <1>6, AssetsFinite, SumNat
<1>8. ASSUME NEW n \in Int, balances[t][Cash] + n \in Nat, haircut' = haircut,
             balances' = [balances EXCEPT ![t][Cash] = @ + n]
      PROVE  effectiveCollateral(t)' = effectiveCollateral(t) + n
  <2>1. /\ balances'[t][Cash] = balances[t][Cash] + n
        /\ \A r \in AssetSet \ {Cash} : balances'[t][r] = balances[t][r]
        /\ Cash \in AssetSet
    BY <1>8, Constants DEF TypeOK
  <2>2. effectiveCollateral(t)' = SumFunctionOnSet(h, AssetSet)
    BY <1>8 DEF effectiveCollateral, assetValueUsd
  <2>3. /\ \A r \in AssetSet \ {Cash} : h[r] = f[r]
        /\ h[Cash] = balances[t][Cash] + n /\ f[Cash] = balances[t][Cash]
    <3>1. h[Cash] = assetValueUsd(Cash, balances[t][Cash] + n) /\ f[Cash] = assetValueUsd(Cash, balances[t][Cash])
      BY <2>1
    <3>2. \A r \in AssetSet \ {Cash} : h[r] = f[r]
      BY <2>1
    <3> HIDE DEF f, h, Keep
    <3> QED BY <1>1, <1>4, <1>8, <2>1, <3>1, <3>2
  <2> HIDE DEF f, h, Keep
  <2>4. /\ SumFunctionOnSet(h, AssetSet) = SumFunctionOnSet(f, AssetSet) + h[Cash] - f[Cash]
        /\ SumFunctionOnSet(f, AssetSet) \in Int
    BY <1>6, <1>8, <2>1, <2>3, AssetsFinite, SumChange, SumInt
  <2> QED BY <1>1, <1>5, <1>8, <2>1, <2>2, <2>3, <2>4
<1> QED BY <1>7, <1>8

\* Minting to and burning from one owner moves the supply by as much.
LEMMA SupplyMoves ==
  ASSUME NEW sh \in [Owners -> Nat], NEW h \in Owners, NEW n \in Int, sh[h] + n \in Nat
  PROVE  LET after == [sh EXCEPT ![h] = @ + n]
         IN /\ after \in [Owners -> Nat] /\ after[h] = sh[h] + n
            /\ Supply(sh) \in Nat /\ sh[h] <= Supply(sh)
            /\ Supply(after) = Supply(sh) + n
<1> DEFINE after == [sh EXCEPT ![h] = @ + n]
<1>1. IsFiniteSet(Owners)
  BY VaultAssumption, FS_AddElement DEF Owners
<1>2. /\ after \in [Owners -> Nat] /\ after[h] = sh[h] + n
      /\ \A x \in Owners \ {h} : after[x] = sh[x]
      /\ \A x \in Owners : sh[x] \in Nat /\ sh[x] \in Int
  OBVIOUS
<1>3. sh[h] + n \in Int
  OBVIOUS
<1> HIDE DEF after
<1>4. /\ SumFunctionOnSet(after, Owners) = SumFunctionOnSet(sh, Owners) + after[h] - sh[h]
      /\ SumFunctionOnSet(sh, Owners) \in Nat
  BY <1>1, <1>2, <1>3, SumChange, SumNat
<1>5. Supply(sh) \in Nat /\ Supply(after) = Supply(sh) + n
  BY <1>2, <1>4 DEF Supply
<1>6. sh[h] <= Supply(sh)
  <2> DEFINE without == [sh EXCEPT ![h] = 0]
  <2>1. /\ \A x \in Owners : without[x] \in Nat
        /\ \A x \in Owners \ {h} : without[x] = sh[x]
        /\ without[h] = 0
    OBVIOUS
  <2> HIDE DEF without
  <2>2. /\ SumFunctionOnSet(without, Owners) = SumFunctionOnSet(sh, Owners) + 0 - sh[h]
        /\ SumFunctionOnSet(without, Owners) \in Nat
    <3>1. 0 \in Int
      OBVIOUS
    <3>2. /\ SumFunctionOnSet(without, Owners) = SumFunctionOnSet(sh, Owners) + without[h] - sh[h]
          /\ SumFunctionOnSet(without, Owners) \in Nat
      BY <1>1, <1>2, <2>1, <3>1, SumChange, SumNat
    <3> QED BY <2>1, <3>2
  <2> QED BY <1>2, <1>4, <2>2 DEF Supply
<1> QED BY <1>2, <1>5, <1>6 DEF after

\* What an accrual works with, and that its fee leaves the mark where it is.
LEMMA AccrualFair ==
  ASSUME TypeOK, VaultInv
  PROVE  /\ totalSupply \in Nat /\ totalAssets \in Nat /\ navPerShare \in Nat /\ FeeShares \in Nat
         /\ totalSupply = 0 => FeeShares = 0
         /\ totalSupply > 0 =>
              /\ navPerShare * totalSupply <= totalAssets * SCALE
              /\ totalAssets * SCALE < (navPerShare + 1) * totalSupply
              /\ navPerShare <= highWaterMarkPerShare => FeeShares = 0
              /\ navPerShare > highWaterMarkPerShare =>
                   highWaterMarkPerShare * (totalSupply + FeeShares) <= totalAssets * SCALE
<1> DEFINE S == totalSupply
           T == totalAssets
           M == highWaterMarkPerShare
           v == navPerShare
           F == FeeShares
           gain == v - M
           gains == gain * S
           profit == gains \div SCALE
           shareOf == profit * performanceFeeBps
           fee == shareOf \div BPS_DENOMINATOR
           feeS == fee * S
           TS == T * SCALE
<1>1. S \in Nat /\ T \in Nat /\ M \in Nat /\ SCALE \in Nat \ {0} /\ performanceFeeBps \in 0..5000
  <2>1. S \in Nat
    <3>1. shares \in [Owners -> Nat] /\ FeeRecipient \in Owners
      BY DEF VaultInv, Owners
    <3>2. 0 \in Int /\ shares[FeeRecipient] + 0 \in Nat
      BY <3>1
    <3> QED BY <3>1, <3>2, SupplyMoves DEF totalSupply
  <2>2. T \in Nat
    BY CashIsValue, VaultAssumption DEF totalAssets
  <2> QED BY <2>1, <2>2, VaultAssumption DEF VaultInv
<1>2. v = (IF S = 0 THEN SCALE ELSE TS \div S)
  BY DEF navPerShare
<1>3. F = (IF S = 0 \/ v <= M \/ fee = 0 THEN 0 ELSE feeS \div T)
  BY DEF FeeShares
<1>4. TS \in Nat
  <2> HIDE DEF T
  <2> QED BY <1>1
<1> HIDE DEF S, T, M, v, F, TS
<1>5. CASE S = 0
  <2>1. v \in Nat /\ F = 0
    BY <1>1, <1>2, <1>3, <1>5
  <2> QED BY <1>1, <1>5, <2>1 DEF S, T, M, v, F
<1>6. CASE S # 0
  <2>1. v \in Nat /\ v * S <= TS /\ TS < (v + 1) * S
    BY <1>1, <1>2, <1>4, <1>6, Floored
  <2>2. CASE v <= M
    <3>1. F = 0
      BY <1>3, <2>2
    <3>2. ~(v > M)
      BY <1>1, <2>1, <2>2
    <3> QED BY <1>1, <1>6, <2>1, <3>1, <3>2 DEF S, T, M, v, F, TS
  <2>3. CASE v > M
    <3>1. gain \in Nat
      BY <1>1, <2>1, <2>3
    <3>2. gains \in Nat /\ gains = (v - M) * S
      <4> HIDE DEF gain
      <4>1. gains \in Nat
        BY <1>1, <3>1
      <4> QED BY <4>1 DEF gain
    <3> HIDE DEF gain, gains
    <3>3. profit \in Nat /\ profit * SCALE <= gains
      BY <1>1, <3>2, Floored
    <3> HIDE DEF profit
    <3>4. shareOf \in Nat /\ shareOf <= profit * 10000
      BY <1>1, <3>3
    <3> HIDE DEF shareOf
    <3>5. fee \in Nat /\ fee <= profit
      <4>1. shareOf \div 10000 \in Nat /\ shareOf \div 10000 <= profit
        BY <3>3, <3>4, QuotientBound
      <4> QED BY <4>1 DEF BPS_DENOMINATOR
    <3> HIDE DEF fee
    <3>6. feeS \in Nat /\ feeS = fee * S
      BY <1>1, <3>5
    <3> HIDE DEF feeS
    <3>7. T # 0
      <4> SUFFICES ASSUME T = 0 PROVE FALSE
        OBVIOUS
      <4>1. TS = 0
        BY <1>1 DEF TS
      <4>2. v >= 1
        BY <1>1, <2>1, <2>3
      <4>3. 1 * S <= v * S
        BY <1>1, <2>1, <4>2, TimesGrows
      <4> DEFINE vS == v * S
      <4>4. vS \in Nat /\ S <= vS /\ vS <= 0
        BY <1>1, <2>1, <4>1, <4>3
      <4> HIDE DEF vS
      <4> QED BY <1>1, <1>6, <4>4
    <3>8. F \in Nat /\ F * T <= fee * S
      <4>1. CASE fee = 0
        <5>1. F = 0
          BY <1>3, <4>1
        <5> QED BY <1>1, <3>5, <4>1, <5>1
      <4>2. CASE fee # 0
        <5>1. F = feeS \div T
          BY <1>1, <1>3, <1>6, <2>1, <2>3, <4>2
        <5>2. F \in Nat /\ F * T <= feeS
          BY <1>1, <3>6, <3>7, <5>1, Floored
        <5> QED BY <3>6, <5>2
      <4> QED BY <4>1, <4>2
    <3>9. M * (S + F) <= T * SCALE
      <4>1. v * S <= T * SCALE /\ M < v
        BY <1>1, <2>1, <2>3 DEF TS
      <4>2. profit * SCALE <= (v - M) * S
        BY <3>2, <3>3
      <4> QED BY <1>1, <1>6, <2>1, <3>3, <3>5, <3>7, <3>8, <4>1, <4>2, FeeLeavesMark
    <3>10. ~(v <= M)
      BY <1>1, <2>1, <2>3
    <3> QED BY <1>1, <1>6, <2>1, <3>8, <3>9, <3>10 DEF S, T, M, v, F, TS
  <2> QED BY <1>1, <2>1, <2>2, <2>3
<1> QED BY <1>5, <1>6

\* The shares that an accrual leaves.
LEMMA AccruedShares ==
  ASSUME TypeOK, VaultInv
  PROVE  /\ _accrueFee.shares \in [Owners -> Nat]
         /\ Supply(_accrueFee.shares) = totalSupply + FeeShares
         /\ \A h \in Owners : shares[h] <= _accrueFee.shares[h]
<1> DEFINE F == FeeShares
           after == [shares EXCEPT ![FeeRecipient] = @ + F]
<1>1. shares \in [Owners -> Nat] /\ FeeRecipient \in Owners
  BY DEF VaultInv, Owners
<1>2. F \in Nat
  BY AccrualFair
<1>3. _accrueFee.shares = after
  BY DEF _accrueFee
<1> HIDE DEF F
<1>4. F \in Int /\ shares[FeeRecipient] + F \in Nat
  BY <1>1, <1>2
<1>5. after \in [Owners -> Nat] /\ Supply(after) = Supply(shares) + F
  BY <1>1, <1>4, SupplyMoves
<1>6. \A h \in Owners : shares[h] <= after[h]
  BY <1>1, <1>2
<1> HIDE DEF after
<1> QED BY <1>3, <1>5, <1>6 DEF totalSupply, F

\* The accrual keeps the mark at the greatest NAV it left, rounded down.
LEMMA AccrualKeeps ==
  ASSUME TypeOK, VaultInv, Recorded(_accrueFee)
  PROVE  /\ highWaterMarkPerShare' \in Nat /\ performanceFeeBps' \in FeeBps
         /\ peak' \in [assets : Nat, supply : Nat \ {0}]
         /\ (highWaterMarkPerShare' + 1) * peak'.supply > peak'.assets * SCALE
<1> DEFINE S == totalSupply
           T == totalAssets
           M == highWaterMarkPerShare
           v == navPerShare
           F == FeeShares
           N == S + F
           TS == T * SCALE
<1>1. /\ S \in Nat /\ T \in Nat /\ M \in Nat /\ v \in Nat /\ F \in Nat /\ SCALE \in Nat \ {0}
      /\ peak \in [assets : Nat, supply : Nat \ {0}]
      /\ (M + 1) * peak.supply > peak.assets * SCALE
      /\ performanceFeeBps' \in FeeBps
  BY AccrualFair, VaultAssumption DEF VaultInv, Recorded
<1>2. /\ highWaterMarkPerShare' = (IF S = 0 THEN SCALE ELSE IF v <= M THEN M ELSE TS \div N)
      /\ peak' = (IF S = 0 THEN [assets |-> 1, supply |-> 1]
                  ELSE IF Higher(Accrued, peak) THEN Accrued ELSE peak)
      /\ Accrued = [assets |-> T, supply |-> N]
  BY DEF Recorded, _accrueFee, Accrued
<1>3. S > 0 => /\ TS < (v + 1) * S
               /\ v <= M => F = 0
               /\ v > M => M * N <= TS
  BY AccrualFair
<1>4. TS \in Nat /\ N \in Nat /\ (S > 0 => N > 0)
  <2> HIDE DEF T, S, F
  <2> QED BY <1>1
<1> HIDE DEF S, T, M, v, F, Accrued, Higher
<1>5. CASE S = 0
  <2>1. (SCALE + 1) * 1 > 1 * SCALE
    BY <1>1
  <2> QED BY <1>1, <1>2, <1>5, <2>1
<1>6. CASE S # 0
  <2> DEFINE k == highWaterMarkPerShare'
  <2>1. k \in Nat /\ M <= k /\ TS < (k + 1) * N
    <3>1. CASE v <= M
      <4>1. k = M /\ F = 0 /\ N = S
        BY <1>1, <1>2, <1>3, <1>6, <3>1
      <4>2. (v + 1) * S <= (M + 1) * S /\ (v + 1) * S \in Nat /\ (M + 1) * S \in Nat
        BY <1>1, <3>1, TimesGrows
      <4> DEFINE x == (v + 1) * S
                 y == (M + 1) * S
      <4>3. TS < x /\ x <= y /\ x \in Nat /\ y \in Nat
        BY <1>1, <1>3, <1>6, <4>2
      <4> HIDE DEF x, y, TS, N
      <4>4. TS < y
        BY <1>4, <4>3
      <4> QED BY <1>1, <4>1, <4>4 DEF y
    <3>2. CASE v > M
      <4> HIDE DEF TS, N
      <4>1. k = TS \div N /\ N \in Nat \ {0}
        BY <1>1, <1>2, <1>4, <1>6, <3>2
      <4>2. k \in Nat /\ TS < (k + 1) * N
        BY <1>4, <4>1, Floored
      <4>3. M * N <= TS
        BY <1>1, <1>3, <1>6, <3>2
      <4>4. M < k + 1
        <5> HIDE DEF k
        <5> DEFINE x == M * N
                   y == (k + 1) * N
        <5>1. x < y
          <6>1. x \in Nat /\ y \in Nat /\ x <= TS /\ TS < y
            BY <1>1, <4>1, <4>2, <4>3
          <6> HIDE DEF x, y
          <6> QED BY <1>4, <6>1
        <5> QED BY <1>1, <4>1, <4>2, <5>1, TimesCancel
      <4> HIDE DEF k
      <4> QED BY <1>1, <4>2, <4>4
    <3> QED BY <1>1, <3>1, <3>2
  <2> HIDE DEF k
  <2>2. CASE peak' = Accrued
    <3>1. peak'.assets = T /\ peak'.supply = N
      BY <1>2, <2>2
    <3>2. (k + 1) * peak'.supply > peak'.assets * SCALE
      <4> DEFINE y == (k + 1) * N
      <4>1. y \in Nat /\ TS < y
        BY <1>4, <2>1
      <4>2. y > TS
        <5> HIDE DEF y, TS
        <5> QED BY <1>4, <4>1
      <4> QED BY <3>1, <4>2
    <3>3. peak' \in [assets : Nat, supply : Nat \ {0}]
      <4> HIDE DEF N
      <4> QED BY <1>1, <1>2, <1>4, <1>6, <2>2
    <3> QED BY <1>1, <2>1, <3>2, <3>3 DEF k
  <2>3. CASE peak' = peak
    <3> DEFINE p == peak.supply
               x == (M + 1) * p
               y == (k + 1) * p
               z == peak.assets * SCALE
    <3>1. p \in Nat \ {0} /\ z \in Nat
      <4>1. peak.assets \in Nat
        BY <1>1
      <4> QED BY <1>1, <4>1
    <3>2. x <= y /\ x \in Nat /\ y \in Nat
      <4> HIDE DEF p
      <4> QED BY <1>1, <2>1, <3>1, TimesGrows
    <3>3. x > z
      BY <1>1
    <3>4. y > z
      <4> HIDE DEF x, y, z
      <4> QED BY <3>1, <3>2, <3>3
    <3> QED BY <1>1, <2>1, <2>3, <3>4 DEF k
  <2> QED BY <1>2, <1>6, <2>2, <2>3
<1> QED BY <1>5, <1>6

\* Deposits: the shares minted are worth no more than what was put in.
LEMMA DepositFair ==
  ASSUME TypeOK, VaultInv, NEW h \in Holders, NEW n \in Amounts, vaultDeposit(h, n)
  PROVE  /\ shares' \in [Owners -> Nat]
         /\ totalSupply > 0 => totalAssets' * (totalSupply + FeeShares) >= totalAssets * totalSupply'
<1> DEFINE N == totalSupply + FeeShares
           T == totalAssets
           minted == IF N = 0 THEN n ELSE (n * N) \div T
           before == _accrueFee.shares
<1>1. /\ totalSupply \in Nat /\ FeeShares \in Nat /\ T \in Nat
      /\ n \in Nat /\ h \in Owners /\ before \in [Owners -> Nat] /\ Supply(before) = N
  BY AccrualFair, AccruedShares, Constants DEF Owners
<1>2. N \in Nat
  BY <1>1
<1> HIDE DEF T, before
<1>3. /\ N = 0 \/ T > 0
      /\ minted > 0
      /\ shares' = [before EXCEPT ![h] = @ + minted]
      /\ deposit(VaultAccount, Cash, n)
  BY <1>1 DEF vaultDeposit, T, before
<1>4. T' = T + n
  <2>1. /\ balances' = [balances EXCEPT ![VaultAccount][Cash] = @ + n] /\ haircut' = haircut
    BY <1>3 DEF deposit, oracle
  <2>2. balances[VaultAccount][Cash] + n \in Nat /\ VaultAccount \in Accounts /\ n \in Int
    BY <1>1, Constants, VaultAssumption DEF TypeOK
  <2> QED BY <2>1, <2>2, CashIsValue DEF T, totalAssets
<1> HIDE DEF N
<1>5. minted \in Nat /\ (N > 0 => minted * T <= n * N)
  <2> DEFINE nN == n * N
  <2>1. nN \in Nat
    BY <1>1, <1>2
  <2>2. CASE N = 0
    BY <1>1, <2>2
  <2>3. CASE N # 0
    <3>1. minted = nN \div T /\ T \in Nat \ {0}
      BY <1>1, <1>2, <1>3, <2>3
    <3> HIDE DEF nN, minted
    <3>2. minted \in Nat /\ minted * T <= nN
      BY <2>1, <3>1, Floored
    <3> QED BY <3>2 DEF nN
  <2> QED BY <2>2, <2>3
<1> HIDE DEF minted
<1>6. shares' \in [Owners -> Nat] /\ totalSupply' = N + minted
  <2>1. minted \in Int /\ before[h] + minted \in Nat
    BY <1>1, <1>5
  <2> DEFINE after == [before EXCEPT ![h] = @ + minted]
  <2>2. after \in [Owners -> Nat] /\ Supply(after) = Supply(before) + minted
    BY <1>1, <2>1, SupplyMoves
  <2>3. shares' = after
    BY <1>3
  <2> HIDE DEF after
  <2>4. totalSupply' = Supply(after)
    BY <2>3 DEF totalSupply, Supply
  <2> QED BY <1>1, <2>2, <2>3, <2>4
<1>7. ASSUME N > 0 PROVE (T + n) * N >= T * (N + minted)
  <2> DEFINE TN == T * N
             nN == n * N
             mT == minted * T
  <2>1. TN \in Nat /\ nN \in Nat /\ mT \in Nat
    BY <1>1, <1>2, <1>5
  <2>2. (T + n) * N = TN + nN /\ T * (N + minted) = TN + mT
    BY <1>1, <1>2, <1>5
  <2>3. mT <= nN
    BY <1>5, <1>7
  <2> HIDE DEF TN, nN, mT
  <2> QED BY <2>1, <2>2, <2>3
<1>8. totalSupply > 0 => N > 0
  BY <1>1 DEF N
<1> QED BY <1>4, <1>6, <1>7, <1>8 DEF N, T

\* Withdrawals: what is paid out is worth no more than the shares burned.
LEMMA WithdrawalFair ==
  ASSUME TypeOK, VaultInv, NEW h \in Owners, NEW burned \in ShareAmounts, vaultWithdraw(h, burned)
  PROVE  /\ shares' \in [Owners -> Nat]
         /\ totalAssets' * (totalSupply + FeeShares) >= totalAssets * totalSupply'
         /\ \E n \in Nat : withdraw(VaultAccount, Cash, n)
<1> DEFINE N == totalSupply + FeeShares
           T == totalAssets
           bT == burned * T
           n == bT \div N
           before == _accrueFee.shares
<1>1. /\ totalSupply \in Nat /\ FeeShares \in Nat /\ T \in Nat
      /\ burned \in Nat \ {0} /\ before \in [Owners -> Nat] /\ Supply(before) = N
      /\ shares[h] <= before[h] /\ shares[h] \in Nat
  BY AccrualFair, AccruedShares, VaultAssumption DEF VaultInv
<1>2. N \in Nat /\ bT \in Nat
  <2> HIDE DEF T
  <2> QED BY <1>1
<1> HIDE DEF T, before, bT
<1>3. /\ burned <= shares[h]
      /\ n > 0
      /\ shares' = [before EXCEPT ![h] = @ - burned]
      /\ withdraw(VaultAccount, Cash, n)
  BY <1>1 DEF vaultWithdraw, T, before, bT
<1>4. before[h] \in Nat /\ burned <= before[h] /\ -burned \in Int /\ before[h] + (-burned) \in Nat
  <2>1. before[h] \in Nat
    BY <1>1
  <2> DEFINE x == before[h]
             y == shares[h]
  <2> HIDE DEF x, y
  <2>2. x \in Nat /\ y \in Nat /\ y <= x /\ burned <= y
    BY <1>1, <1>3, <2>1 DEF x, y
  <2>3. burned <= x /\ -burned \in Int /\ x + (-burned) \in Nat
    BY <1>1, <2>2
  <2> QED BY <2>2, <2>3 DEF x
<1> HIDE DEF N
<1>5. /\ shares' \in [Owners -> Nat] /\ totalSupply' = N - burned /\ N > 0
  <2> DEFINE after == [before EXCEPT ![h] = @ + (-burned)]
  <2>1. /\ after \in [Owners -> Nat] /\ Supply(after) = Supply(before) + (-burned)
        /\ before[h] <= Supply(before)
    BY <1>1, <1>4, SupplyMoves
  <2>2. shares' = after
    <3>1. before[h] - burned = before[h] + (-burned)
      BY <1>1, <1>4
    <3> QED BY <1>3, <3>1
  <2> HIDE DEF after
  <2>3. totalSupply' = Supply(after)
    BY <2>2 DEF totalSupply, Supply
  <2>4. Supply(before) = N
    BY <1>1
  <2>5. N > 0
    <3> DEFINE x == before[h]
    <3> HIDE DEF x
    <3>1. x \in Nat /\ burned <= x /\ x <= N
      BY <1>4, <2>1, <2>4 DEF x
    <3> QED BY <1>1, <1>2, <3>1
  <2>6. totalSupply' = N - burned
    BY <1>1, <1>2, <2>1, <2>3, <2>4
  <2> QED BY <2>1, <2>2, <2>5, <2>6
<1>6. n \in Nat /\ n * N <= bT
  BY <1>2, <1>5, Floored
<1> HIDE DEF n
<1>7. T' = T - n
  <2>1. /\ balances' = [balances EXCEPT ![VaultAccount][Cash] = @ - n] /\ haircut' = haircut
        /\ balances[VaultAccount][Cash] >= n
    BY <1>3 DEF withdraw, oracle
  <2>2. balances[VaultAccount][Cash] \in Nat /\ VaultAccount \in Accounts /\ -n \in Int
    BY <1>6, Constants, VaultAssumption DEF TypeOK
  <2>3. /\ balances[VaultAccount][Cash] + (-n) \in Nat
        /\ balances[VaultAccount][Cash] - n = balances[VaultAccount][Cash] + (-n)
    BY <1>6, <2>1, <2>2
  <2>4. balances' = [balances EXCEPT ![VaultAccount][Cash] = @ + (-n)]
    BY <2>1, <2>3
  <2>5. T' = T + (-n)
    BY <2>1, <2>2, <2>3, <2>4, CashIsValue DEF T, totalAssets
  <2> QED BY <1>1, <1>6, <2>5
<1>8. (T - n) * N >= T * (N - burned)
  <2> DEFINE TN == T * N
             nN == n * N
  <2>1. TN \in Nat /\ nN \in Nat
    BY <1>1, <1>2, <1>6
  <2>2. (T - n) * N = TN - nN
    BY <1>1, <1>2, <1>6
  <2>3. T * (N - burned) = TN - bT
    BY <1>1, <1>2 DEF bT
  <2> HIDE DEF TN, nN
  <2>4. nN <= bT
    BY <1>6 DEF nN
  <2> QED BY <1>2, <2>1, <2>2, <2>3, <2>4
<1>9. /\ totalAssets' * (totalSupply + FeeShares) >= totalAssets * totalSupply'
  BY <1>5, <1>7, <1>8 DEF N, T
<1> QED BY <1>3, <1>5, <1>6, <1>9

\* A NAV above the mark is above the greatest that an accrual left.
LEMMA FeeOnNewHigh ==
  ASSUME TypeOK, VaultInv
  PROVE  FeeOnlyOnNewHighs
<1> DEFINE S == totalSupply
           T == totalAssets
           M == highWaterMarkPerShare
           v == navPerShare
           p == peak.supply
           q == peak.assets
<1>1. SUFFICES ASSUME FeeShares > 0 PROVE T * p > q * S
  BY DEF FeeOnlyOnNewHighs, Higher
<1>2. /\ S \in Nat /\ T \in Nat /\ v \in Nat /\ M \in Nat /\ FeeShares \in Nat
      /\ SCALE \in Nat \ {0} /\ p \in Nat \ {0} /\ q \in Nat /\ (M + 1) * p > q * SCALE
  BY AccrualFair, VaultAssumption DEF VaultInv
<1>3. S > 0 /\ v > M /\ v * S <= T * SCALE
  <2>1. S # 0
    BY <1>1, <1>2, AccrualFair
  <2>2. S > 0
    <3> HIDE DEF S
    <3> QED BY <1>2, <2>1
  <2>3. ~(v <= M) /\ v * S <= T * SCALE
    BY <1>1, <2>2, AccrualFair
  <2> HIDE DEF v, M
  <2> QED BY <1>2, <2>2, <2>3
<1> HIDE DEF S, T, M, v, p, q
<1> DEFINE vp == v * p
           Mp == (M + 1) * p
           qc == q * SCALE
           Tp == T * p
           qS == q * S
           Tc == T * SCALE
           vS == v * S
<1>4. vp \in Nat /\ Mp \in Nat /\ qc \in Nat /\ Tp \in Nat /\ qS \in Nat /\ Tc \in Nat /\ vS \in Nat
  BY <1>2
<1>5. qc < vp
  <2>1. M + 1 <= v /\ M + 1 \in Nat
    BY <1>2, <1>3
  <2>2. Mp <= vp
    BY <1>2, <2>1, TimesGrows
  <2>3. qc < Mp
    BY <1>2
  <2> HIDE DEF vp, Mp, qc
  <2> QED BY <1>4, <2>2, <2>3
<1>6. qS * SCALE < Tp * SCALE
  <2>1. qc * S < vp * S
    <3> HIDE DEF qc, vp
    <3>1. ASSUME NEW x \in Nat, NEW y \in Nat, x < y, NEW k \in Nat \ {0} PROVE x * k < y * k
      <4>1. (x + 1) * k <= y * k /\ (x + 1) * k = x * k + k
        <5>1. x + 1 <= y /\ x + 1 \in Nat
          BY <3>1
        <5> QED BY <3>1, <5>1, TimesGrows
      <4> DEFINE a1 == x * k
                 b1 == y * k
      <4>2. a1 \in Nat /\ b1 \in Nat /\ a1 + k <= b1
        BY <3>1, <4>1
      <4> HIDE DEF a1, b1
      <4>3. a1 < b1
        BY <3>1, <4>2
      <4> QED BY <4>3 DEF a1, b1
    <3>2. S \in Nat \ {0}
      BY <1>2, <1>3
    <3> QED BY <1>4, <1>5, <3>1, <3>2
  <2>2. vS * p <= Tc * p /\ vS * p \in Nat /\ Tc * p \in Nat
    <3>1. vS <= Tc
      BY <1>3
    <3> HIDE DEF vS, Tc
    <3> QED BY <1>2, <1>4, <3>1, TimesGrows
  <2>3. qc * S = qS * SCALE /\ vp * S = vS * p /\ Tc * p = Tp * SCALE
    BY <1>2
  <2> HIDE DEF vp, Mp, qc, Tp, qS, Tc, vS
  <2> DEFINE a1 == qS * SCALE
             b1 == vS * p
             c1 == Tp * SCALE
  <2>4. a1 \in Nat /\ b1 \in Nat /\ c1 \in Nat /\ a1 < b1 /\ b1 <= c1
    BY <1>2, <1>4, <2>1, <2>2, <2>3
  <2> HIDE DEF a1, b1, c1
  <2>5. a1 < c1
    BY <2>4
  <2> QED BY <2>5 DEF a1, c1
<1>7. qS < Tp
  <2> HIDE DEF qS, Tp
  <2> QED BY <1>2, <1>4, <1>6, TimesCancel
<1>8. Tp > qS
  <2> HIDE DEF qS, Tp
  <2> QED BY <1>4, <1>7
<1> QED BY <1>8

LEMMA VaultBegins == VaultInit => VaultInv
<1> SUFFICES ASSUME VaultInit PROVE VaultInv
  OBVIOUS
<1>1. SCALE \in Nat \ {0}
  BY VaultAssumption
<1>2. (SCALE + 1) * 1 > 1 * SCALE
  BY <1>1
<1> QED BY <1>1, <1>2 DEF VaultInit, VaultInv

\* A step of the vault keeps it sound, its custody backed and those who stay whole.
LEMMA VaultStep ==
  ASSUME CustodyBacked, VaultInv, VaultNext
  PROVE  CustodyBacked' /\ VaultInv' /\ NavNeverDiluted
<1>1. TypeOK
  BY DEF CustodyBacked
<1>2. ASSUME NEW h \in Holders, NEW n \in Amounts, vaultDeposit(h, n)
      PROVE  CustodyBacked' /\ VaultInv' /\ NavNeverDiluted
  <2>1. deposit(VaultAccount, Cash, n) /\ Recorded(_accrueFee)
    BY <1>2 DEF vaultDeposit
  <2>2. CustodyBacked'
    BY <2>1, Constants, VaultAssumption, DepositBacked
  <2>3. VaultInv'
    BY <1>1, <1>2, <2>1, AccrualKeeps, DepositFair DEF VaultInv
  <2>4. NavNeverDiluted
    BY <1>1, <1>2, DepositFair DEF NavNeverDiluted
  <2> QED BY <2>2, <2>3, <2>4
<1>3. ASSUME NEW h \in Owners, NEW n \in ShareAmounts, vaultWithdraw(h, n)
      PROVE  CustodyBacked' /\ VaultInv' /\ NavNeverDiluted
  <2>1. PICK k \in Nat : withdraw(VaultAccount, Cash, k)
    BY <1>1, <1>3, WithdrawalFair
  <2>2. CustodyBacked'
    BY <2>1, Constants, VaultAssumption, WithdrawalBacked
  <2>3. Recorded(_accrueFee)
    BY <1>3 DEF vaultWithdraw
  <2>4. VaultInv'
    BY <1>1, <1>3, <2>3, AccrualKeeps, WithdrawalFair DEF VaultInv
  <2>5. NavNeverDiluted
    BY <1>1, <1>3, WithdrawalFair DEF NavNeverDiluted
  <2> QED BY <2>2, <2>4, <2>5
<1>4. ASSUME NEW bps \in FeeBps, setPerformanceFeeBps(bps)
      PROVE  CustodyBacked' /\ VaultInv' /\ NavNeverDiluted
  <2>1. TypeOK'
    BY <1>1, <1>4, CallCounted DEF setPerformanceFeeBps, TypeOK, custody, oracle, roles
  <2>2. CustodyBacked'
    BY <1>4, <2>1, CustodyAlone DEF setPerformanceFeeBps
  <2>3. VaultInv'
    BY <1>4 DEF setPerformanceFeeBps, VaultInv
  <2>4. NavNeverDiluted
    BY <1>4 DEF setPerformanceFeeBps, NavNeverDiluted
  <2> QED BY <2>2, <2>3, <2>4
<1> QED BY <1>2, <1>3, <1>4 DEF VaultNext

\* For every set of holders, every share and asset amount and every fee up to
\* 50%, while anything else happens to the accounts, the vault's own included:
\* neither deposits nor withdrawals of Vault.sol lower the NAV per share of those
\* who stay, and _accrueFee only charges on a new high.
THEOREM VaultAlwaysFair == VaultSpec => VaultFair
<1> DEFINE VNext == VaultNext \/ (Next /\ UNCHANGED vaultVars)
           allOfIt == <<vars, vaultVars>>
           IInv == CustodyBacked /\ VaultInv
<1>1. Init /\ VaultInit => IInv
  BY InitBacked, VaultBegins
<1>2. IInv /\ [VNext]_allOfIt => IInv' /\ [NavNeverDiluted /\ FeeOnlyOnNewHighs]_allOfIt
  <2> SUFFICES ASSUME IInv, [VNext]_allOfIt
               PROVE  IInv' /\ [NavNeverDiluted /\ FeeOnlyOnNewHighs]_allOfIt
    OBVIOUS
  <2>1. TypeOK
    BY DEF CustodyBacked
  <2>2. FeeOnlyOnNewHighs
    BY <2>1, FeeOnNewHigh
  <2>3. CASE VaultNext
    BY <2>2, <2>3, VaultStep
  <2>4. CASE Next /\ UNCHANGED vaultVars
    <3>1. CustodyBacked'
      BY <2>4, TradingBacked, GoverningBacked DEF Next
    <3>2. VaultInv'
      BY <2>4 DEF vaultVars, VaultInv
    <3>3. NavNeverDiluted
      BY <2>4 DEF vaultVars, NavNeverDiluted
    <3> QED BY <2>2, <3>1, <3>2, <3>3
  <2>5. CASE UNCHANGED allOfIt
    <3>1. TypeOK' /\ UNCHANGED custody
      BY <2>1, <2>5 DEF vars, custody, oracle, roles, TypeOK
    <3>2. CustodyBacked'
      BY <3>1, CustodyAlone
    <3>3. VaultInv'
      BY <2>5 DEF vaultVars, VaultInv
    <3> QED BY <2>5, <3>2, <3>3
  <2> QED BY <2>3, <2>4, <2>5
<1> HIDE DEF IInv
<1> QED BY <1>1, <1>2, PTL DEF VaultSpec, VaultFair
=============================================================================
