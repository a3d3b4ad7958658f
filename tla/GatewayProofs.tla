---------------------------- MODULE GatewayProofs ----------------------------
(***************************************************************************)
(* The matcher's handlers over one book and one backstop, for any number   *)
(* of requests, signers, ticks and quantities.                             *)
(***************************************************************************)
EXTENDS OrderGateway, FiniteSums

-----------------------------------------------------------------------------
(* Kept: a subsequence by positions *)

KeptRun(q, S, run) ==
  /\ run[0] = <<>>
  /\ \A n \in 1..Len(q) : run[n] = IF n \in S THEN Append(run[n - 1], q[n]) ELSE run[n - 1]

LEMMA KeptRunExists ==
  ASSUME NEW T, NEW q \in Seq(T), NEW S
  PROVE  \E run : KeptRun(q, S, run) /\ Kept(q, S) = run[Len(q)]
<1> DEFINE N == Len(q)
           V == Seq(T)
           Body(g, k) == IF k = 0 THEN <<>> ELSE IF k \in S THEN Append(g[k - 1], q[k]) ELSE g[k - 1]
           Runs(g) == g = [k \in 0..N |-> Body(g, k)]
           step == [x \in V \X (1..N) |-> IF x[2] \in S THEN Append(x[1], q[x[2]]) ELSE x[1]]
           it == CHOOSE g : Runs(g)
<1>1. N \in Nat /\ <<>> \in V
  OBVIOUS
<1>2. step \in [V \X (1..N) -> V]
  OBVIOUS
<1>3. \A v \in V, k \in 1..N : step[<<v, k>>] = IF k \in S THEN Append(v, q[k]) ELSE v
  OBVIOUS
<1>4. PICK run \in [0..N -> V] : run[0] = <<>> /\ \A n \in 1..N : run[n] = step[<<run[n - 1], n>>]
  <2>1. step \in StepsOf(V, N)
    BY <1>2 DEF StepsOf
  <2> HIDE DEF step, V, N
  <2>2. PICK run : RunOf(run, V, N, <<>>, step)
    BY <1>1, <2>1, RunExists, Zenon
  <2> QED BY <2>2 DEF RunOf
<1>5. \A k \in 0..N : run[k] = Body(run, k)
  <2> TAKE k \in 0..N
  <2>1. CASE k = 0
    BY <1>4, <2>1
  <2>2. CASE k # 0
    <3>1. k \in 1..N /\ k - 1 \in 0..N
      BY <1>1, <2>2
    <3>2. run[k - 1] \in V
      BY <3>1
    <3> HIDE DEF step, V
    <3> QED BY <1>3, <1>4, <2>2, <3>1, <3>2
  <2> QED BY <2>1, <2>2
<1>6. Runs(run)
  <2>1. run = [k \in 0..N |-> run[k]]
    OBVIOUS
  <2> HIDE DEF Body
  <2> QED BY <1>5, <2>1
<1>7. Runs(it)
  <2> HIDE DEF Runs
  <2> QED BY <1>6
<1>8. Kept(q, S) = it[N]
  BY Zenon DEF Kept
<1> HIDE DEF it
<1>9. \A k \in 0..N : it[k] = Body(it, k)
  <2> HIDE DEF Body
  <2> QED BY <1>7
<1>10. 0 \in 0..N /\ \A n \in 1..N : n \in 0..N /\ n # 0
  BY <1>1
<1>11. KeptRun(q, S, it)
  BY <1>9, <1>10 DEF KeptRun
<1> QED BY <1>8, <1>11

\* The positions of S, in their order, are those of the elements kept.
At(at, out, q, S) ==
  /\ at \in [1..Len(out) -> S]
  /\ \A k \in 1..Len(out) : out[k] = q[at[k]]
  /\ \A j, k \in 1..Len(out) : j < k => at[j] < at[k]
  /\ \A i \in S : \E k \in 1..Len(out) : at[k] = i

LEMMA KeptAt ==
  ASSUME NEW T, NEW q \in Seq(T), NEW S, S \subseteq 1..Len(q)
  PROVE  Kept(q, S) \in Seq(T) /\ \E at : At(at, Kept(q, S), q, S)
<1>1. PICK run : KeptRun(q, S, run) /\ Kept(q, S) = run[Len(q)]
  BY KeptRunExists
<1> DEFINE In(n) == S \cap (1..n)
           Good(n) == run[n] \in Seq(T) /\ \E at : At(at, run[n], q, In(n))
           G == {n \in Nat : n <= Len(q) => Good(n)}
<1>2. 0 \in G
  <2>1. run[0] = <<>> /\ In(0) = {}
    BY <1>1 DEF KeptRun
  <2>2. At(<<>>, <<>>, q, {})
    BY DEF At
  <2>3. Good(0)
    BY <2>1, <2>2
  <2> QED BY <2>3
<1>3. \A n \in Nat : n \in G => n + 1 \in G
  <2> SUFFICES ASSUME NEW n \in Nat, n + 1 <= Len(q), Good(n) PROVE Good(n + 1)
    <3> HIDE DEF Good
    <3> QED OBVIOUS
  <2> DEFINE m == n + 1
             old == run[n]
             new == run[m]
  <2>1. m \in 1..Len(q) /\ m - 1 = n /\ q[m] \in T
    OBVIOUS
  <2>2. new = IF m \in S THEN Append(old, q[m]) ELSE old
    BY <1>1, <2>1 DEF KeptRun
  <2>3. old \in Seq(T)
    OBVIOUS
  <2>4. PICK at : At(at, old, q, In(n))
    OBVIOUS
  <2>5. In(m) = IF m \in S THEN In(n) \cup {m} ELSE In(n)
    OBVIOUS
  <2>6. \A i \in In(n) : i \in Nat /\ i < m
    OBVIOUS
  <2> HIDE DEF In
  <2>7. CASE m \notin S
    BY <2>2, <2>3, <2>4, <2>5, <2>7
  <2>8. CASE m \in S
    <3> HIDE DEF old, new
    <3> DEFINE L == Len(old)
               to == [k \in 1..L + 1 |-> IF k = L + 1 THEN m ELSE at[k]]
    <3>1. new = Append(old, q[m]) /\ In(m) = In(n) \cup {m}
      BY <2>2, <2>5, <2>8
    <3>2. L \in Nat /\ new \in Seq(T) /\ Len(new) = L + 1
      BY <2>1, <2>3, <3>1
    <3>3. \A k \in 1..L : new[k] = old[k]
      BY <2>1, <2>3, <3>1
    <3>4. new[L + 1] = q[m]
      BY <2>1, <2>3, <3>1
    <3> HIDE DEF L
    <3>5. at \in [1..L -> In(n)]
      BY <2>4 DEF At, L
    <3>6. to \in [1..L + 1 -> In(m)] /\ to[L + 1] = m /\ \A k \in 1..L : to[k] = at[k] /\ at[k] \in In(n)
      BY <3>1, <3>2, <3>5
    <3> HIDE DEF to
    <3>7. \A k \in 1..L + 1 : new[k] = q[to[k]]
      <4>1. \A k \in 1..L : old[k] = q[at[k]]
        BY <2>4 DEF At, L
      <4> QED BY <3>2, <3>3, <3>4, <3>6, <4>1
    <3>8. \A j, k \in 1..L + 1 : j < k => to[j] < to[k]
      <4> TAKE j, k \in 1..L + 1
      <4> HAVE j < k
      <4>1. j \in 1..L
        BY <3>2
      <4>2. CASE k = L + 1
        BY <2>6, <3>6, <4>1, <4>2
      <4>3. CASE k # L + 1
        <5>1. k \in 1..L
          BY <3>2, <4>3
        <5> QED BY <2>4, <3>6, <4>1, <5>1 DEF At, L
      <4> QED BY <4>2, <4>3
    <3>9. \A i \in In(m) : \E k \in 1..L + 1 : to[k] = i
      <4> TAKE i \in In(m)
      <4>1. CASE i = m
        BY <3>2, <3>6, <4>1
      <4>2. CASE i # m
        <5>1. PICK k \in 1..L : at[k] = i
          BY <2>4, <3>1, <4>2 DEF At, L
        <5>2. k \in 1..L + 1
          BY <3>2
        <5> QED BY <3>6, <5>1, <5>2
      <4> QED BY <4>1, <4>2
    <3>10. At(to, new, q, In(m))
      BY <3>2, <3>6, <3>7, <3>8, <3>9 DEF At
    <3> QED BY <3>2, <3>10 DEF new
  <2> QED BY <2>7, <2>8
<1> HIDE DEF G
<1>4. Nat \subseteq G
  BY <1>2, <1>3, Induction
<1> USE DEF G
<1>5. Good(Len(q)) /\ In(Len(q)) = S
  <2>1. In(Len(q)) = S
    OBVIOUS
  <2>2. Len(q) \in Nat /\ Len(q) <= Len(q)
    OBVIOUS
  <2> HIDE DEF Good, In
  <2> QED BY <1>4, <2>1, <2>2
<1> QED BY <1>1, <1>5

\* What a sequence of fills adds up to, and one more fill.
LEMMA FilledMore ==
  ASSUME NEW T, NEW fills \in Seq(T), \A k \in 1..Len(fills) : fills[k].qty \in Nat,
         NEW fill \in T, fill.qty \in Nat
  PROVE  FilledQty(Append(fills, fill)) = FilledQty(fills) + fill.qty
<1> DEFINE L == Len(fills)
           more == Append(fills, fill)
           a == [k \in 1..L |-> fills[k].qty]
           b == [k \in 1..Len(more) |-> more[k].qty]
<1>1. L \in Nat /\ Len(more) = L + 1 /\ more[L + 1] = fill
  OBVIOUS
<1>2. \A k \in 1..L : more[k] = fills[k] /\ k \in 1..L + 1
  OBVIOUS
<1> HIDE DEF more
<1>3. b = [k \in 1..L + 1 |-> more[k].qty]
  BY <1>1
<1> HIDE DEF b
<1>4. (\A k \in 1..L : a[k] \in Int /\ b[k] = a[k]) /\ b[L + 1] = fill.qty /\ b[L + 1] \in Int
  BY <1>1, <1>2, <1>3
<1>5. FilledQty(fills) = SumFunctionOnSet(a, 1..L)
  BY DEF FilledQty, SumFunction
<1>6. FilledQty(more) = SumFunctionOnSet(b, 1..L + 1)
  <2>1. DOMAIN b = 1..L + 1
    BY <1>3
  <2> QED BY <2>1 DEF FilledQty, SumFunction, b
<1> HIDE DEF L, a
<1>7. SumFunctionOnSet(b, 1..L + 1) = SumFunctionOnSet(a, 1..L) + b[L + 1]
  BY <1>1, <1>4, SumNext
<1> QED BY <1>4, <1>5, <1>6, <1>7 DEF more

LEMMA FilledNat ==
  ASSUME NEW T, NEW fills \in Seq(T), \A k \in 1..Len(fills) : fills[k].qty \in Nat
  PROVE  FilledQty(fills) \in Nat
<1> DEFINE a == [k \in 1..Len(fills) |-> fills[k].qty]
<1>1. DOMAIN a = 1..Len(fills) /\ \A k \in 1..Len(fills) : a[k] \in Nat
  OBVIOUS
<1>2. IsFiniteSet(1..Len(fills))
  BY FS_Interval
<1>3. FilledQty(fills) = SumFunctionOnSet(a, 1..Len(fills))
  BY <1>1 DEF FilledQty, SumFunction
<1> HIDE DEF a
<1> QED BY <1>1, <1>2, <1>3, SumNat

\* The quantities kept add up to those of all positions, when the positions
\* left out have none.
LEMMA KeptSum ==
  ASSUME NEW T, NEW q \in Seq(T), NEW S, S \subseteq 1..Len(q),
         NEW f \in [1..Len(q) -> Nat],
         \A i \in 1..Len(q) : IF i \in S THEN q[i].qty = f[i] ELSE f[i] = 0
  PROVE  FilledQty(Kept(q, S)) = SumFunctionOnSet(f, 1..Len(q))
<1>1. PICK run : KeptRun(q, S, run) /\ Kept(q, S) = run[Len(q)]
  BY KeptRunExists
<1> DEFINE Good(n) == /\ run[n] \in Seq(T)
                      /\ \A k \in 1..Len(run[n]) : run[n][k].qty \in Nat
                      /\ FilledQty(run[n]) = SumFunctionOnSet(f, 1..n)
           G == {n \in Nat : n <= Len(q) => Good(n)}
<1>2. 0 \in G
  <2>1. run[0] = <<>> /\ 1..0 = {} /\ 1..Len(run[0]) = {}
    BY <1>1 DEF KeptRun
  <2>2. SumFunctionOnSet(f, 1..0) = 0
    BY <2>1, SumEmpty
  <2>3. FilledQty(<<>>) = 0
    <3> DEFINE e == <<>>
               a == [k \in 1..Len(e) |-> e[k].qty]
    <3>1. DOMAIN a = {}
      OBVIOUS
    <3>2. FilledQty(e) = SumFunctionOnSet(a, {})
      BY <3>1 DEF FilledQty, SumFunction
    <3> HIDE DEF a
    <3> QED BY <3>2, SumEmpty
  <2>4. Good(0)
    BY <2>1, <2>2, <2>3
  <2> QED BY <2>4
<1>3. \A n \in Nat : n \in G => n + 1 \in G
  <2> SUFFICES ASSUME NEW n \in Nat, n + 1 <= Len(q), Good(n) PROVE Good(n + 1)
    <3> HIDE DEF Good
    <3> QED OBVIOUS
  <2> DEFINE m == n + 1
             old == run[n]
             new == run[m]
  <2>1. m \in 1..Len(q) /\ m - 1 = n /\ q[m] \in T /\ f[m] \in Nat
    OBVIOUS
  <2>2. new = IF m \in S THEN Append(old, q[m]) ELSE old
    BY <1>1, <2>1 DEF KeptRun
  <2>3. /\ old \in Seq(T) /\ \A k \in 1..Len(old) : old[k].qty \in Nat
        /\ FilledQty(old) = SumFunctionOnSet(f, 1..n)
    OBVIOUS
  <2>4. /\ SumFunctionOnSet(f, 1..m) = SumFunctionOnSet(f, 1..n) + f[m]
        /\ SumFunctionOnSet(f, 1..n) \in Int
    <3>1. \A x \in 1..n : f[x] \in Int
      <4>1. \A x \in 1..n : x \in 1..Len(q)
        OBVIOUS
      <4> QED BY <4>1
    <3> QED BY <2>1, <3>1, SumNext
  <2> HIDE DEF old, new
  <2>5. CASE m \notin S
    <3>1. f[m] = 0 /\ new = old
      BY <2>1, <2>2, <2>5
    <3>2. FilledQty(new) = SumFunctionOnSet(f, 1..m)
      BY <2>3, <2>4, <3>1
    <3> QED BY <2>3, <3>1, <3>2 DEF new
  <2>6. CASE m \in S
    <3>1. new = Append(old, q[m]) /\ q[m].qty = f[m]
      BY <2>1, <2>2, <2>6
    <3>2. new \in Seq(T) /\ Len(new) = Len(old) + 1
      BY <2>1, <2>3, <3>1
    <3>3. \A k \in 1..Len(new) : new[k].qty \in Nat
      <4> TAKE k \in 1..Len(new)
      <4>1. CASE k = Len(old) + 1
        BY <2>1, <2>3, <3>1, <4>1
      <4>2. CASE k # Len(old) + 1
        <5>1. k \in 1..Len(old) /\ new[k] = old[k]
          BY <2>1, <2>3, <3>1, <3>2, <4>2
        <5> QED BY <2>3, <5>1
      <4> QED BY <4>1, <4>2
    <3>4. FilledQty(new) = FilledQty(old) + f[m]
      BY <2>1, <2>3, <3>1, FilledMore
    <3>5. FilledQty(new) = SumFunctionOnSet(f, 1..m)
      BY <2>3, <2>4, <3>4
    <3> QED BY <3>2, <3>3, <3>5 DEF new
  <2> QED BY <2>5, <2>6
<1> HIDE DEF G
<1>4. Nat \subseteq G
  BY <1>2, <1>3, Induction
<1> USE DEF G
<1>5. Good(Len(q))
  <2>1. Len(q) \in Nat /\ Len(q) <= Len(q)
    OBVIOUS
  <2> HIDE DEF Good
  <2> QED BY <1>4, <2>1
<1> QED BY <1>1, <1>5

-----------------------------------------------------------------------------
(* What a sweep takes *)

Entries == [id : Ids, tick : Nat, qty : Nat \ {0}, owner : Signers, expiry : {Never}, req : Requests]

LEMMA EntryFields ==
  ASSUME NEW e \in Entries
  PROVE  /\ e.id \in Ids /\ e.tick \in Nat /\ e.qty \in Nat /\ e.qty > 0 /\ e.owner \in Signers
         /\ e.expiry = Never /\ e.req \in Requests
BY DEF Entries

LEMMA EntryCut ==
  ASSUME NEW e \in Entries, NEW qty \in Nat \ {0}, NEW c, c = [e EXCEPT !.qty = qty]
  PROVE  /\ c \in Entries /\ c.qty = qty
         /\ c.id = e.id /\ c.tick = e.tick /\ c.owner = e.owner /\ c.req = e.req
BY DEF Entries

LEMMA FinitePart ==
  ASSUME NEW n \in Nat, NEW S, S \subseteq 1..n
  PROVE  IsFiniteSet(S)
<1>1. IsFiniteSet(1..n)
  BY FS_Interval
<1> QED BY <1>1, FS_Subset

LEMMA QuantityNat ==
  ASSUME NEW q \in Seq(Entries), NEW S, S \subseteq 1..Len(q)
  PROVE  Quantity(q, S) \in Nat
<1>0. Len(q) \in Nat
  OBVIOUS
<1>1. IsFiniteSet(S)
  BY <1>0, FinitePart, Zenon
<1>2. \A i \in S : [j \in S |-> q[j].qty][i] \in Nat
  BY EntryFields
<1> QED BY <1>1, <1>2, SumNat DEF Quantity

LEMMA QuantityMore ==
  ASSUME NEW q \in Seq(Entries), NEW S, S \subseteq 1..Len(q), NEW m \in 1..Len(q), m \notin S
  PROVE  Quantity(q, S \cup {m}) = Quantity(q, S) + q[m].qty
<1> DEFINE T == S \cup {m}
           a == [i \in S |-> q[i].qty]
           b == [i \in T |-> q[i].qty]
<1>0. Len(q) \in Nat /\ T \subseteq 1..Len(q) /\ T \ {m} = S /\ m \in T
  OBVIOUS
<1>1. IsFiniteSet(S) /\ IsFiniteSet(T) /\ T \ {m} = S /\ m \in T
  <2> HIDE DEF T
  <2> QED BY <1>0, FinitePart, Zenon
<1>2. (\A i \in S : a[i] \in Int) /\ (\A i \in T : b[i] \in Int)
  BY EntryFields
<1>3. \A i \in S : b[i] = a[i]
  OBVIOUS
<1>4. b[m] = q[m].qty /\ b[m] \in Int
  BY EntryFields
<1>5. Quantity(q, S) = SumFunctionOnSet(a, S) /\ Quantity(q, T) = SumFunctionOnSet(b, T)
  BY DEF Quantity
<1> HIDE DEF a, b, T
<1>6. SumFunctionOnSet(b, T) = b[m] + SumFunctionOnSet(b, T \ {m})
  BY <1>1, <1>2, SumRemove
<1>7. SumFunctionOnSet(b, S) = SumFunctionOnSet(a, S) /\ SumFunctionOnSet(a, S) \in Int
  BY <1>1, <1>2, <1>3, SumSame, SumInt
<1>8. SumFunctionOnSet(b, T) = b[m] + SumFunctionOnSet(a, S)
  BY <1>1, <1>6, <1>7, Zenon
<1> QED BY <1>4, <1>5, <1>7, <1>8 DEF T

\* Position i gives at most what it has, and only if it crosses.
LEMMA TakenAtMost ==
  ASSUME NEW q \in Seq(Entries), NEW o, o.qty \in Nat, NEW i \in 1..Len(q)
  PROVE  /\ Taken(q, o, i) \in Nat /\ Taken(q, o, i) <= q[i].qty
         /\ Taken(q, o, i) > 0 => i \in Crossed(q, o)
         /\ Ahead(q, o, i) \in Nat
<1> DEFINE S == {j \in Crossed(q, o) : j < i /\ Eligible(q, o, j)}
<1>1. S \subseteq 1..Len(q)
  BY DEF Crossed
<1>2. Ahead(q, o, i) \in Nat
  BY <1>1, QuantityNat DEF Ahead
<1>3. q[i].qty \in Nat /\ q[i] \in Entries
  BY EntryFields
<1>4. CASE Reached(q, o, i) /\ Eligible(q, o, i)
  <2>1. Ahead(q, o, i) < o.qty /\ i \in Crossed(q, o)
    BY <1>4 DEF Reached
  <2> DEFINE rest == o.qty - Ahead(q, o, i)
  <2>2. rest \in Nat
    BY <1>2, <2>1
  <2>3. Taken(q, o, i) = Min({q[i].qty, rest})
    BY <1>4 DEF Taken
  <2> DEFINE has == q[i].qty
  <2>4. has \in Int /\ rest \in Int /\ has >= 0
    BY <1>3, <2>2
  <2> HIDE DEF rest, has
  <2>5. Min({has, rest}) \in {has, rest} /\ Min({has, rest}) <= has
    BY <2>4, MinTwo
  <2>6. Taken(q, o, i) = Min({has, rest})
    BY <2>3 DEF has
  <2>7. Taken(q, o, i) \in Nat /\ Taken(q, o, i) <= has
    BY <2>2, <2>4, <2>5, <2>6
  <2> QED BY <1>2, <2>1, <2>7 DEF has
<1>5. CASE ~(Reached(q, o, i) /\ Eligible(q, o, i))
  <2>1. Taken(q, o, i) = 0
    BY <1>5 DEF Taken
  <2> QED BY <1>2, <1>3, <2>1
<1> QED BY <1>4, <1>5

\* All positions together give what the order asks for, or all there is.
LEMMA TakenSum ==
  ASSUME NEW q \in Seq(Entries), NEW o, o.qty \in Nat
  PROVE  /\ Available(q, o) \in Nat
         /\ SumFunctionOnSet([i \in 1..Len(q) |-> Taken(q, o, i)], 1..Len(q))
              = Min({o.qty, Available(q, o)})
<1> DEFINE C == {i \in Crossed(q, o) : Eligible(q, o, i)}
           Part(n) == {i \in C : i <= n}
           t == [i \in 1..Len(q) |-> Taken(q, o, i)]
           Good(n) == SumFunctionOnSet(t, 1..n) = Min({o.qty, Quantity(q, Part(n))})
           G == {n \in Nat : n <= Len(q) => Good(n)}
<1>1. C \subseteq 1..Len(q) /\ Len(q) \in Nat
  BY DEF Crossed
<1>2. Part(Len(q)) = C /\ Part(0) = {}
  BY <1>1
<1>3. Available(q, o) = Quantity(q, C)
  BY DEF Available
<1>4. \A i \in 1..Len(q) : t[i] = Taken(q, o, i) /\ t[i] \in Nat
  BY TakenAtMost
<1> HIDE DEF t
<1>5. 0 \in G
  <2>1. Quantity(q, {}) = 0
    BY SumEmpty DEF Quantity
  <2>2. SumFunctionOnSet(t, 1..0) = 0
    <3>1. 1..0 = {}
      OBVIOUS
    <3> QED BY <3>1, SumEmpty
  <2>3. Min({o.qty, 0}) = 0
    <3>1. 0 \in Int /\ o.qty \in Int /\ o.qty >= 0
      OBVIOUS
    <3> DEFINE z == 0
    <3>2. z \in Int
      OBVIOUS
    <3> HIDE DEF z
    <3>3. Min({o.qty, z}) \in {o.qty, z} /\ Min({o.qty, z}) <= o.qty /\ Min({o.qty, z}) <= z
      BY <3>1, <3>2, MinTwo
    <3> QED BY <3>1, <3>3 DEF z
  <2> QED BY <1>2, <2>1, <2>2, <2>3
<1>6. \A n \in Nat : n \in G => n + 1 \in G
  <2> SUFFICES ASSUME NEW n \in Nat, n + 1 <= Len(q), Good(n) PROVE Good(n + 1)
    <3> HIDE DEF Good
    <3> QED OBVIOUS
  <2> DEFINE m == n + 1
             before == Quantity(q, Part(n))
             sum == SumFunctionOnSet(t, 1..n)
             x == q[m].qty
  <2>1. m \in 1..Len(q) /\ Part(n) \subseteq 1..Len(q) /\ m \notin Part(n)
    BY <1>1
  <2>2. before \in Nat /\ before \in Int /\ o.qty \in Int
    BY <2>1, QuantityNat
  <2>3. x \in Nat
    BY <2>1, EntryFields
  <2>4. Ahead(q, o, m) = before
    <3>1. {j \in Crossed(q, o) : j < m /\ Eligible(q, o, j)} = Part(n)
      BY <1>1
    <3> QED BY <3>1 DEF Ahead
  <2>5. SumFunctionOnSet(t, 1..m) = sum + t[m] /\ sum \in Int
    <3>1. \A i \in 1..n : i \in 1..Len(q)
      OBVIOUS
    <3>2. \A i \in 1..n : t[i] \in Int
      BY <1>4, <3>1
    <3>3. t[n + 1] \in Int
      BY <1>4, <2>1
    <3> QED BY <3>2, <3>3, SumNext
  <2>6. sum = Min({o.qty, before})
    OBVIOUS
  <2>7. /\ sum \in {o.qty, before} /\ sum <= o.qty /\ sum <= before
    BY <2>2, <2>6, MinTwo
  <2>8. m \in C => Part(m) = Part(n) \cup {m}
    BY <1>1
  <2>9. m \notin C => Part(m) = Part(n)
    BY <1>1
  <2> DEFINE after == Quantity(q, Part(m))
             least == Min({o.qty, after})
  <2>10. after = IF m \in C THEN before + x ELSE before
    BY <2>1, <2>8, <2>9, QuantityMore
  <2> HIDE DEF C, Part, before, sum, x, after
  <2>11. after \in Nat /\ after \in Int
    BY <2>2, <2>3, <2>10
  <2>12. least \in {o.qty, after} /\ least <= o.qty /\ least <= after
    BY <2>2, <2>11, MinTwo
  <2>13. t[m] = IF m \in C /\ before < o.qty THEN Min({x, o.qty - before}) ELSE 0
    BY <1>4, <2>1, <2>4 DEF Taken, Reached, C, x
  <2> HIDE DEF least
  <2>14. sum + t[m] = least
    <3>1. CASE m \in C /\ before < o.qty
      <4> DEFINE rest == o.qty - before
      <4>1. rest \in Int /\ x \in Int
        BY <2>2, <2>3, <3>1
      <4>2. t[m] = Min({x, rest})
        BY <2>13, <3>1
      <4> HIDE DEF rest
      <4>3. t[m] \in {x, rest} /\ t[m] <= x /\ t[m] <= rest
        BY <2>3, <4>1, <4>2, MinTwo
      <4>4. after = before + x /\ sum = before
        BY <2>2, <2>7, <2>10, <3>1
      <4>5. rest = o.qty - before
        BY DEF rest
      <4>6. CASE t[m] = x
        <5>1. before + x <= o.qty
          BY <2>2, <2>3, <4>3, <4>5, <4>6
        <5> QED BY <2>2, <2>3, <2>12, <4>4, <4>6, <5>1
      <4>7. CASE t[m] = rest
        <5>1. o.qty <= before + x
          BY <2>2, <2>3, <4>3, <4>5, <4>7
        <5>2. least = o.qty
          BY <2>2, <2>3, <2>11, <2>12, <4>4, <5>1
        <5>3. sum + t[m] = before + (o.qty - before)
          BY <4>4, <4>5, <4>7
        <5>4. before + (o.qty - before) = o.qty
          BY <2>2
        <5> QED BY <5>2, <5>3, <5>4
      <4> QED BY <4>3, <4>6, <4>7
    <3>2. CASE ~(m \in C /\ before < o.qty)
      <4>1. t[m] = 0
        BY <2>13, <3>2
      <4> QED BY <2>2, <2>3, <2>5, <2>7, <2>10, <2>12, <3>2, <4>1
    <3> QED BY <3>1, <3>2
  <2> QED BY <2>5, <2>14 DEF least, after
<1> HIDE DEF G
<1>7. Nat \subseteq G
  BY <1>5, <1>6, Induction
<1> USE DEF G
<1>8. Good(Len(q))
  <2>1. Len(q) \in Nat /\ Len(q) <= Len(q)
    OBVIOUS
  <2> HIDE DEF Good
  <2> QED BY <1>7, <2>1
<1> QED BY <1>1, <1>2, <1>3, <1>8, QuantityNat DEF t

\* Nothing expires here, so a post-only order prunes nothing.
LEMMA NothingPruned ==
  ASSUME NEW q \in Seq(Entries), NEW now
  PROVE  Pruned(q, now) = q
<1> DEFINE S == {i \in 1..Len(q) : ~Expired(q[i], now)} \cup {Len(q) + 1}
<1>1. \A i \in 1..Len(q) : ~Expired(q[i], now)
  BY EntryFields DEF Expired
<1>2. Len(q) \in Nat
  OBVIOUS
<1>3. S = 1..Len(q) + 1
  BY <1>1, <1>2
<1> HIDE DEF S
<1>4. Min(S) = 1
  <2>1. 1 \in S /\ \A y \in S : 1 <= y
    BY <1>2, <1>3
  <2>2. \A x \in S : (\A y \in S : x <= y) => x = 1
    BY <1>2, <1>3, <2>1
  <2> QED BY <2>1, <2>2 DEF Min
<1>5. SubSeq(q, 1, Len(q)) = q
  OBVIOUS
<1> QED BY <1>4, <1>5 DEF Pruned, S

\* The positions at which the queue left behind stood before.
LeftBy(at, left, q, taken) ==
  /\ at \in [1..Len(left) -> 1..Len(q)]
  /\ \A j, k \in 1..Len(left) : at[j] = at[k] => j = k
  /\ \A k \in 1..Len(left) :
       /\ taken[at[k]] < q[at[k]].qty
       /\ left[k] = [q[at[k]] EXCEPT !.qty = q[at[k]].qty - taken[at[k]]]

LEMMA NothingTaken ==
  ASSUME NEW q \in Seq(Entries), NEW taken, \A i \in 1..Len(q) : taken[i] = 0
  PROVE  \E at : LeftBy(at, q, q, taken)
<1> DEFINE at == [k \in 1..Len(q) |-> k]
<1>1. \A k \in 1..Len(q) : /\ q[k].qty - taken[k] = q[k].qty /\ taken[k] < q[k].qty
  BY EntryFields
<1>2. \A k \in 1..Len(q) : q[k] = [q[k] EXCEPT !.qty = q[k].qty]
  <2> TAKE k \in 1..Len(q)
  <2>1. q[k] \in Entries
    OBVIOUS
  <2> QED BY <2>1 DEF Entries
<1>3. \A k \in 1..Len(q) : at[k] = k
  OBVIOUS
<1>4. at \in [1..Len(q) -> 1..Len(q)]
  OBVIOUS
<1> HIDE DEF at
<1>5. LeftBy(at, q, q, taken)
  BY <1>1, <1>2, <1>3, <1>4 DEF LeftBy
<1> QED BY <1>5

LEMMA SweptLeft ==
  ASSUME NEW q \in Seq(Entries), NEW o, o.qty \in Nat,
         NEW taken, taken = [i \in 1..Len(q) |-> Taken(q, o, i)]
  PROVE  /\ Swept(q, o) \in Seq(Entries)
         /\ \E at : LeftBy(at, Swept(q, o), q, taken)
<1> DEFINE cut == [i \in 1..Len(q) |-> [q[i] EXCEPT !.qty = LeftAt(q, o, i)]]
           S == {i \in 1..Len(q) : LeftAt(q, o, i) > 0}
           T == {cut[i] : i \in 1..Len(q)}
           left == Kept(cut, S)
<1>0. cut \in Seq(T) /\ Len(cut) = Len(q) /\ Len(q) \in Nat
  OBVIOUS
<1>1. \A i \in 1..Len(q) : cut[i] = [q[i] EXCEPT !.qty = LeftAt(q, o, i)]
  OBVIOUS
<1>2. left \in Seq(T) /\ \E at : At(at, left, cut, S)
  <2>1. S \subseteq 1..Len(cut)
    BY <1>0
  <2> HIDE DEF T, cut, S
  <2> QED BY <1>0, <2>1, KeptAt
<1>3. PICK at : At(at, left, cut, S)
  BY <1>2
<1>4. Swept(q, o) = left
  BY DEF Swept
<1>5. \A i \in S : /\ i \in 1..Len(q) /\ q[i] \in Entries
                   /\ taken[i] < q[i].qty
                   /\ LeftAt(q, o, i) = q[i].qty - taken[i] /\ LeftAt(q, o, i) \in Nat \ {0}
  <2> TAKE i \in S
  <2>1. q[i].qty \in Nat /\ Taken(q, o, i) \in Nat /\ taken[i] = Taken(q, o, i)
    BY EntryFields, TakenAtMost
  <2>2. LeftAt(q, o, i) = q[i].qty - Taken(q, o, i)
    BY DEF LeftAt
  <2>3. LeftAt(q, o, i) > 0
    OBVIOUS
  <2> QED BY <2>1, <2>2, <2>3
<1> HIDE DEF cut, S, left
<1>6. /\ at \in [1..Len(left) -> S] /\ \A k \in 1..Len(left) : left[k] = cut[at[k]]
      /\ \A j, k \in 1..Len(left) : j < k => at[j] < at[k]
  BY <1>3 DEF At
<1>7. \A k \in 1..Len(left) : at[k] \in S /\ left[k] = [q[at[k]] EXCEPT !.qty = q[at[k]].qty - taken[at[k]]]
  BY <1>1, <1>5, <1>6
<1>8. \A k \in 1..Len(left) : left[k] \in Entries
  <2> TAKE k \in 1..Len(left)
  <2>1. PICK i \in S : left[k] = [q[i] EXCEPT !.qty = q[i].qty - taken[i]]
    BY <1>7
  <2>2. PICK e, more : e = q[i] /\ more = q[i].qty - taken[i] /\ e \in Entries /\ more \in Nat \ {0}
    BY <1>5
  <2> QED BY <2>1, <2>2, EntryCut
<1>9. left \in Seq(Entries)
  <2>1. Len(left) \in Nat /\ left = [k \in 1..Len(left) |-> left[k]]
    BY <1>2
  <2> QED BY <1>8, <2>1
<1>10. \A j, k \in 1..Len(left) : at[j] = at[k] => j = k
  <2>1. \A k \in 1..Len(left) : at[k] \in Nat /\ k \in Nat
    <3>1. \A i \in S : i \in Nat
      <4>1. \A i \in S : i \in 1..Len(q)
        BY <1>5
      <4>2. \A i \in 1..Len(q) : i \in Nat
        OBVIOUS
      <4> QED BY <4>1, <4>2, Zenon
    <3>2. \A k \in 1..Len(left) : at[k] \in S
      BY <1>6
    <3>3. \A k \in 1..Len(left) : k \in Nat
      BY <1>2
    <3> QED BY <3>1, <3>2, <3>3, Zenon
  <2>2. \A j, k \in 1..Len(left) : ~(j < k) /\ ~(k < j) => j = k
    BY <2>1
  <2> QED BY <1>6, <2>1, <2>2
<1>11. LeftBy(at, left, q, taken)
  <2>1. at \in [1..Len(left) -> 1..Len(q)]
    BY <1>5, <1>6
  <2> QED BY <1>5, <1>7, <1>10, <2>1 DEF LeftBy
<1> QED BY <1>4, <1>9, <1>11

\* What a submit against the queue q does, as the other proofs use it.
SweepOf(s, q, o) ==
  /\ s.makers = q /\ s.outcome \in {"accepted", "post_only_rejected", "fill_or_kill_failed"}
  /\ s.rests \in BOOLEAN /\ s.filled \in Nat /\ s.filled <= o.qty
  /\ s.taken \in [1..Len(q) -> Nat]
  /\ \A i \in 1..Len(q) : /\ s.taken[i] <= q[i].qty
                          /\ s.taken[i] > 0 => Crosses(o.side, o.tick, q[i].tick)
  /\ SumFunctionOnSet(s.taken, 1..Len(q)) = s.filled
  /\ s.left \in Seq(Entries) /\ \E at : LeftBy(at, s.left, q, s.taken)

SweepEnd(s, q, o) ==
  /\ s.outcome # "accepted" => s.filled = 0 /\ ~s.rests /\ \A i \in 1..Len(q) : s.taken[i] = 0
  /\ s.rests => s.filled < o.qty /\ o.tif \in {"GTC", "GTT"} /\ s.outcome = "accepted"
  /\ s.outcome = "post_only_rejected" => o.post_only
  /\ s.outcome = "fill_or_kill_failed" => o.tif = "FOK"
  /\ (s.outcome = "accepted" /\ o.tif = "FOK") => s.filled = o.qty

LEMMA SubmittedFacts ==
  ASSUME NEW q \in Seq(Entries), NEW o, o.qty \in Nat, o.post_only \in BOOLEAN,
         NEW s, s = Submitted(q, o)
  PROVE  SweepOf(s, q, o) /\ SweepEnd(s, q, o)
<1> DEFINE rejected == o.post_only /\ q # <<>> /\ Crosses(o.side, o.tick, q[1].tick)
           killed   == ~rejected /\ o.tif = "FOK" /\ Available(q, o) < o.qty
           refused  == rejected \/ killed
           all      == [i \in 1..Len(q) |-> Taken(q, o, i)]
           zero     == [i \in 1..Len(q) |-> 0]
<1>1. Pruned(q, o.now) = q
  BY NothingPruned
<1>2. s = [outcome |-> IF rejected THEN "post_only_rejected"
                       ELSE IF killed THEN "fill_or_kill_failed" ELSE "accepted",
           makers  |-> q,
           taken   |-> [i \in 1..Len(q) |-> IF refused THEN 0 ELSE Taken(q, o, i)],
           filled  |-> IF refused THEN 0 ELSE Min({o.qty, Available(q, o)}),
           left    |-> IF refused THEN q ELSE Swept(q, o),
           rests   |-> /\ ~refused /\ (IF refused THEN 0 ELSE Min({o.qty, Available(q, o)})) < o.qty
                       /\ o.tif \in {"GTC", "GTT"}]
  <2>1. (IF o.post_only THEN Pruned(q, o.now) ELSE q) = q
    BY <1>1
  <2> HIDE DEF all, zero
  <2> QED BY <2>1, Zenon DEF Submitted
<1>2a. /\ s.rests \in BOOLEAN
       /\ s.rests => /\ (IF refused THEN 0 ELSE Min({o.qty, Available(q, o)})) < o.qty
                     /\ o.tif \in {"GTC", "GTT"}
  <2> DEFINE l == IF refused THEN q ELSE Swept(q, o)
             n == IF refused THEN 0 ELSE Min({o.qty, Available(q, o)})
             t == [i \in 1..Len(q) |-> IF refused THEN 0 ELSE Taken(q, o, i)]
             out == IF rejected THEN "post_only_rejected"
                    ELSE IF killed THEN "fill_or_kill_failed" ELSE "accepted"
  <2>1. s = [outcome |-> out, makers |-> q, taken |-> t, filled |-> n, left |-> l,
             rests |-> /\ ~refused /\ n < o.qty
                       /\ o.tif \in {"GTC", "GTT"}]
    BY <1>2
  <2> HIDE DEF l, n, t, out, refused, killed, rejected
  <2>2. s.rests \in BOOLEAN /\ (s.rests => n < o.qty /\ o.tif \in {"GTC", "GTT"})
    BY <2>1
  <2> QED BY <2>2 DEF n
<1> HIDE DEF rejected
<1>3. Available(q, o) \in Nat /\ SumFunctionOnSet(all, 1..Len(q)) = Min({o.qty, Available(q, o)})
  BY TakenSum
<1>4. Available(q, o) \in Int /\ o.qty \in Int
  BY <1>3
<1>5. /\ Min({o.qty, Available(q, o)}) \in {o.qty, Available(q, o)}
      /\ Min({o.qty, Available(q, o)}) <= o.qty /\ Min({o.qty, Available(q, o)}) <= Available(q, o)
  BY <1>4, MinTwo
<1>6. CASE refused
  <2>1. /\ s.makers = q /\ s.taken = zero /\ s.filled = 0 /\ s.left = q /\ s.rests = FALSE
        /\ s.outcome = IF rejected THEN "post_only_rejected" ELSE "fill_or_kill_failed"
    BY <1>2, <1>6
  <2>2. SumFunctionOnSet(zero, 1..Len(q)) = 0
    <3> DEFINE P == 1..Len(q)
    <3>1. IsFiniteSet(P)
      BY FS_Interval
    <3>2. \A i \in P : zero[i] = 0
      OBVIOUS
    <3> HIDE DEF P, zero
    <3>3. SumFunctionOnSet(zero, P) = 0
      BY <3>1, <3>2, SumZero
    <3> QED BY <3>3 DEF P
  <2>3. \E at : LeftBy(at, q, q, zero)
    BY NothingTaken
  <2>4. \A i \in 1..Len(q) : zero[i] = 0 /\ zero[i] <= q[i].qty
    BY EntryFields
  <2>5. zero \in [1..Len(q) -> Nat]
    OBVIOUS
  <2> HIDE DEF zero
  <2>6. SweepOf(s, q, o)
    <3>1. s.outcome \in {"accepted", "post_only_rejected", "fill_or_kill_failed"}
      BY <2>1
    <3>2. s.rests \in BOOLEAN /\ s.filled \in Nat /\ s.filled <= o.qty
      <4>1. s.rests \in BOOLEAN
        BY <2>1, Zenon
      <4>2. s.filled \in Nat /\ s.filled <= o.qty
        BY <2>1
      <4> QED BY <4>1, <4>2
    <3>3. \A i \in 1..Len(q) : /\ s.taken[i] <= q[i].qty
                               /\ s.taken[i] > 0 => Crosses(o.side, o.tick, q[i].tick)
      <4>1. ~(0 > 0)
        OBVIOUS
      <4> QED BY <2>1, <2>4, <4>1
    <3> QED BY <2>1, <2>2, <2>3, <2>5, <3>1, <3>2, <3>3 DEF SweepOf
  <2>7. rejected => o.post_only
    BY DEF rejected
  <2>8. ~rejected => o.tif = "FOK"
    BY <1>6
  <2> QED BY <2>1, <2>4, <2>6, <2>7, <2>8 DEF SweepEnd
<1>7. CASE ~refused
  <2> DEFINE m == Min({o.qty, Available(q, o)})
  <2>1. /\ s.makers = q /\ s.taken = all /\ s.filled = m /\ s.left = Swept(q, o)
        /\ s.rests \in BOOLEAN /\ (s.rests => m < o.qty /\ o.tif \in {"GTC", "GTT"})
        /\ s.outcome = "accepted"
    <3>1. [i \in 1..Len(q) |-> IF refused THEN 0 ELSE Taken(q, o, i)] = all
      BY <1>7
    <3> HIDE DEF all
    <3>2. s.taken = all
      BY <1>2, <3>1
    <3>3. s.makers = q /\ s.left = Swept(q, o)
      BY <1>2, <1>7
    <3>4. s.filled = m
      BY <1>2, <1>7
    <3>5. s.rests \in BOOLEAN /\ (s.rests => m < o.qty /\ o.tif \in {"GTC", "GTT"})
      BY <1>2a, <1>7
    <3>6. s.outcome = "accepted"
      BY <1>2, <1>7
    <3> QED BY <3>2, <3>3, <3>4, <3>5, <3>6
  <2>2. m \in Nat /\ m <= o.qty /\ m \in {o.qty, Available(q, o)}
    BY <1>3, <1>5
  <2>3. \A i \in 1..Len(q) : /\ all[i] \in Nat /\ all[i] <= q[i].qty
                             /\ all[i] > 0 => Crosses(o.side, o.tick, q[i].tick)
    BY TakenAtMost DEF Crossed
  <2>4. all \in [1..Len(q) -> Nat]
    BY <2>3
  <2>5. Swept(q, o) \in Seq(Entries) /\ \E at : LeftBy(at, Swept(q, o), q, all)
    BY SweptLeft
  <2>6. o.tif = "FOK" => m = o.qty
    BY <1>3, <1>5, <1>7
  <2>7. SumFunctionOnSet(all, 1..Len(q)) = m
    BY <1>3
  <2> HIDE DEF all, m, refused, killed
  <2>8. SweepOf(s, q, o)
    <3>1. s.rests \in BOOLEAN
      BY <2>1
    <3> QED BY <2>1, <2>2, <2>3, <2>4, <2>5, <2>7, <3>1 DEF SweepOf
  <2>9. SweepEnd(s, q, o)
    <3>1. s.rests => s.filled < o.qty /\ o.tif \in {"GTC", "GTT"} /\ s.outcome = "accepted"
      BY <2>1
    <3> QED BY <2>1, <2>6, <3>1 DEF SweepEnd
  <2> QED BY <2>8, <2>9
<1> QED BY <1>6, <1>7

\* A new order stands in the queue once, and everyone else as before.
AddedBy(at, more, q, e) ==
  /\ at \in [1..Len(more) -> 0..Len(q)]
  /\ \A j, k \in 1..Len(more) : at[j] = at[k] => j = k
  /\ \A k \in 1..Len(more) : more[k] = IF at[k] = 0 THEN e ELSE q[at[k]]

LEMMA QueuedFacts ==
  ASSUME NEW q \in Seq(Entries), NEW e \in Entries, NEW side
  PROVE  Queued(q, side, e) \in Seq(Entries) /\ \E at : AddedBy(at, Queued(q, side, e), q, e)
<1> DEFINE S == {i \in 1..Len(q) : ~Better(side, e.tick, q[i].tick)}
           c == Cardinality(S)
           N == Len(q)
           more == SubSeq(q, 1, c) \o <<e>> \o SubSeq(q, c + 1, N)
<1>0. N \in Nat
  OBVIOUS
<1>1. c \in 0..N
  <2>1. S \subseteq 1..N /\ IsFiniteSet(1..N) /\ Cardinality(1..N) = N
    <3>1. IsFiniteSet(1..N) /\ Cardinality(1..N) = IF 1 > N THEN 0 ELSE N - 1 + 1
      BY <1>0, FS_Interval
    <3> QED BY <1>0, <3>1
  <2> HIDE DEF S, N
  <2>2. c \in Nat /\ c <= Cardinality(1..N)
    BY <2>1, FS_Subset, FS_CardinalityType
  <2> QED BY <1>0, <2>1, <2>2
<1>2. Queued(q, side, e) = more
  <2> DEFINE d == c + 1
  <2>1. Queued(q, side, e) = InsertAt(q, d, e)
    BY DEF Queued
  <2>2. d - 1 = c
    BY <1>0, <1>1
  <2> HIDE DEF c, S, d
  <2>3. InsertAt(q, d, e) = SubSeq(q, 1, d - 1) \o <<e>> \o SubSeq(q, d, Len(q))
    BY DEF InsertAt
  <2>4. Queued(q, side, e) = SubSeq(q, 1, c) \o <<e>> \o SubSeq(q, d, Len(q))
    BY <2>1, <2>2, <2>3, Zenon
  <2> QED BY <2>4, Zenon DEF d, N
<1> HIDE DEF c, N
<1> DEFINE front == SubSeq(q, 1, c)
           back == SubSeq(q, c + 1, N)
<1>3. /\ front \in Seq(Entries) /\ Len(front) = c /\ \A k \in 1..c : front[k] = q[k]
      /\ back \in Seq(Entries) /\ Len(back) = N - c /\ \A k \in 1..N - c : back[k] = q[k + c]
  <2>1. q \in Seq(Entries) /\ Len(q) = N
    BY DEF N
  <2> QED BY <1>0, <1>1, <2>1
<1> HIDE DEF front, back
<1> DEFINE head == Append(front, e)
<1>4. head = front \o <<e>> /\ head \in Seq(Entries) /\ Len(head) = c + 1
      /\ head[c + 1] = e /\ \A k \in 1..c : head[k] = q[k]
  BY <1>0, <1>1, <1>3
<1>5. more = head \o back
  BY <1>4 DEF front, back
<1> HIDE DEF head, more
<1>6. /\ more \in Seq(Entries) /\ Len(more) = N + 1
      /\ \A k \in 1..N + 1 : more[k] = IF k <= c + 1 THEN head[k] ELSE back[k - (c + 1)]
  BY <1>0, <1>1, <1>3, <1>4, <1>5
<1> DEFINE at == [k \in 1..N + 1 |-> IF k = c + 1 THEN 0 ELSE IF k <= c THEN k ELSE k - 1]
<1>7. at \in [1..N + 1 -> 0..N] /\ \A j, k \in 1..N + 1 : at[j] = at[k] => j = k
  BY <1>0, <1>1
<1>8. \A k \in 1..N + 1 : more[k] = IF at[k] = 0 THEN e ELSE q[at[k]]
  <2> TAKE k \in 1..N + 1
  <2>1. CASE k = c + 1
    BY <1>0, <1>1, <1>4, <1>6, <2>1
  <2>2. CASE k <= c
    <3>1. k \in 1..c /\ at[k] = k /\ k # 0
      BY <1>0, <1>1, <2>2
    <3>2. k <= c + 1 /\ head[k] = q[k]
      BY <1>1, <1>4, <2>2, <3>1
    <3>3. more[k] = head[k]
      BY <1>6, <3>2
    <3> QED BY <3>1, <3>2, <3>3
  <2>3. CASE k > c + 1
    <3>1. k - (c + 1) \in 1..N - c /\ (k - (c + 1)) + c = k - 1 /\ k - 1 # 0 /\ at[k] = k - 1
      BY <1>0, <1>1, <2>3
    <3>2. more[k] = back[k - (c + 1)]
      BY <1>0, <1>1, <1>6, <2>3
    <3> QED BY <1>3, <3>1, <3>2
  <2> QED BY <1>0, <1>1, <2>1, <2>2, <2>3
<1> HIDE DEF at
<1>9. AddedBy(at, more, q, e)
  BY <1>6, <1>7, <1>8 DEF AddedBy, N
<1> QED BY <1>2, <1>6, <1>9

-----------------------------------------------------------------------------
(* The backstop *)

Makers == [history : Seq(Nat), inventory : Int, pnl : Int]

LEMMA MakerFields ==
  ASSUME NEW m \in Makers
  PROVE  m.history \in Seq(Nat) /\ m.inventory \in Int /\ m.pnl \in Int
BY DEF Makers

LEMMA BackstopConstants ==
  /\ SpreadBps \in Nat /\ MaxSpreadBps \in Nat /\ WidenBps \in Nat /\ InventoryRef \in Nat
  /\ LookBps \in Nat /\ Cap \in Nat
  /\ QuoteWindow \in Nat /\ QuoteWindow > 0 /\ LookWindow \in Nat /\ LookWindow > 0
  /\ MaxHistory \in Nat /\ MaxHistory > 0
BY BackstopAssumption DEF BackstopAssumption

LEMMA RecentPrints ==
  ASSUME NEW h \in Seq(Nat), NEW n \in Nat, n > 0
  PROVE  Recent(h, n) \in Seq(Nat) /\ (h # <<>> => Len(Recent(h, n)) > 0)
<1> DEFINE from == IF Len(h) > n THEN Len(h) - n + 1 ELSE 1
<1>1. Len(h) \in Nat /\ from \in Nat /\ from >= 1 /\ (Len(h) >= 1 => from <= Len(h))
  OBVIOUS
<1>2. h # <<>> => Len(h) >= 1
  OBVIOUS
<1> HIDE DEF from
<1>3. SubSeq(h, from, Len(h)) \in Seq(Nat) /\ (Len(h) >= 1 => Len(SubSeq(h, from, Len(h))) > 0)
  BY <1>1
<1> QED BY <1>2, <1>3 DEF Recent, from

LEMMA MeanNat ==
  ASSUME NEW h \in Seq(Nat), NEW n \in Nat, n > 0
  PROVE  trailing_mean(h, n) \in Nat \cup {NoPrice} /\ (trailing_mean(h, n) = NoPrice <=> h = <<>>)
<1> DEFINE w == Recent(h, n)
           sum == SumFunctionOnSet(w, 1..Len(w))
<1>1. w \in Seq(Nat) /\ (h # <<>> => Len(w) > 0) /\ Len(w) \in Nat
  <2>1. w \in Seq(Nat) /\ (h # <<>> => Len(w) > 0)
    BY RecentPrints
  <2> HIDE DEF w
  <2> QED BY <2>1
<1> HIDE DEF w
<1>2. DOMAIN w = 1..Len(w)
  BY <1>1
<1>3. IsFiniteSet(1..Len(w))
  BY <1>1, FS_Interval
<1>4. \A k \in 1..Len(w) : w[k] \in Nat
  BY <1>1
<1>5. sum \in Nat
  BY <1>3, <1>4, SumNat
<1>6. trailing_mean(h, n) = IF h = <<>> THEN NoPrice ELSE sum \div Len(w)
  BY <1>2, Zenon DEF trailing_mean, SumFunction, w
<1> HIDE DEF sum
<1>7. h # <<>> => (sum \div Len(w)) \in Nat
  <2> DEFINE d == Len(w)
  <2>1. d \in Nat /\ (h # <<>> => d > 0)
    BY <1>1
  <2> HIDE DEF d
  <2>2. h # <<>> => (sum \div d) \in Nat
    BY <1>5, <2>1
  <2> QED BY <2>2 DEF d
<1>8. NoPrice \notin Nat
  BY DEF NoPrice
<1> QED BY <1>6, <1>7, <1>8

LEMMA SpreadNat ==
  ASSUME NEW inventory \in Int
  PROVE  effective_spread_bps(inventory) \in Nat
<1>1. BPS \in Nat /\ BPS > 0
  BY DEF BPS
<1> DEFINE used == (Abs(inventory) * BPS)
<1>2. used \in Nat
  <2>1. Abs(inventory) \in Nat
    BY DEF Abs
  <2> QED BY <1>1, <2>1
<1> HIDE DEF used
<1>3. InventoryRef # 0 => utilization(inventory) \in Nat
  <2>1. InventoryRef # 0 => (used \div InventoryRef) \in Nat
    BY <1>2, BackstopConstants
  <2> QED BY <1>1, <2>1 DEF utilization, LowerOf, used
<1>4. InventoryRef # 0 => ((WidenBps * utilization(inventory)) \div BPS) \in Nat
  <2> DEFINE u == utilization(inventory)
  <2> HIDE DEF u
  <2>1. InventoryRef # 0 => u \in Nat /\ (WidenBps * u) \in Nat
    BY <1>3, BackstopConstants DEF u
  <2>2. InventoryRef # 0 => ((WidenBps * u) \div BPS) \in Nat
    BY <1>1, <2>1
  <2> QED BY <2>2 DEF u
<1> QED BY <1>4, BackstopConstants DEF effective_spread_bps, LowerOf

LEMMA QuoteNat ==
  ASSUME NEW m \in Makers, NEW s
  PROVE  quote(m, s) \in Nat \cup {NoPrice}
<1> DEFINE center == trailing_mean(m.history, QuoteWindow)
           spread == effective_spread_bps(m.inventory)
           half == (center * spread) \div BPS
<1>1. center \in Nat \cup {NoPrice} /\ spread \in Nat
  BY MakerFields, MeanNat, SpreadNat, BackstopConstants
<1>2. quote(m, s) = IF center = NoPrice THEN NoPrice
                    ELSE IF s = "Long" THEN center + half
                    ELSE IF half > center THEN 0 ELSE center - half
  BY Zenon DEF quote
<1> HIDE DEF center, spread
<1>3. center # NoPrice => half \in Nat
  <2>1. center # NoPrice => (center * spread) \in Nat
    BY <1>1
  <2>2. BPS \in Nat /\ BPS > 0
    BY DEF BPS
  <2> DEFINE x == center * spread
  <2> HIDE DEF x
  <2>3. x \in Nat => (x \div BPS) \in Nat
    BY <2>2
  <2> QED BY <2>1, <2>3 DEF x
<1> HIDE DEF half
<1> QED BY <1>1, <1>2, <1>3

\* What is offered has a price and is no more than what was asked for.
LEMMA OfferedAtMost ==
  ASSUME NEW m \in Makers, NEW s, NEW requested \in Int
  PROVE  /\ Offered(m, s, requested) \in Int
         /\ Offered(m, s, requested) > 0 =>
              Offered(m, s, requested) <= requested /\ quote(m, s) \in Nat
<1>1. quote(m, s) \in Nat \cup {NoPrice}
  BY QuoteNat
<1>2. Cap \in Int
  BY BackstopConstants
<1>3. CASE quote(m, s) = NoPrice \/ stale(m)
  BY <1>3 DEF Offered
<1>4. CASE ~(quote(m, s) = NoPrice \/ stale(m))
  <2>1. Offered(m, s, requested) = LowerOf(requested, Cap)
    BY <1>4 DEF Offered
  <2> QED BY <1>1, <1>2, <1>4, <2>1 DEF LowerOf
<1> QED BY <1>3, <1>4

LEMMA FillCommitted ==
  ASSUME NEW m \in Makers, NEW s, NEW qty \in Int, NEW c, c = commit_fill(m, s, qty)
  PROVE  /\ c \in Makers
         /\ c.inventory = IF s = "Long" THEN m.inventory - qty ELSE m.inventory + qty
<1> DEFINE to == IF s = "Long" THEN m.inventory - qty ELSE m.inventory + qty
<1>1. to \in Int
  BY MakerFields
<1>2. c = [m EXCEPT !.inventory = to]
  BY DEF commit_fill
<1> HIDE DEF to
<1>3. c \in Makers /\ c.inventory = to
  BY <1>1, <1>2 DEF Makers
<1> QED BY <1>3 DEF to

LEMMA PriceRecorded ==
  ASSUME NEW m \in Makers, NEW price \in Nat, NEW c, c = record_price(m, price)
  PROVE  c \in Makers /\ c.inventory = m.inventory
<1> DEFINE h == Recent(Append(m.history, price), MaxHistory)
           gain == m.inventory * (price - m.history[Len(m.history)])
           p == IF m.history = <<>> THEN m.pnl ELSE m.pnl + gain
<1>1. m.history \in Seq(Nat) /\ m.inventory \in Int /\ m.pnl \in Int
  BY MakerFields
<1>2. h \in Seq(Nat)
  <2>1. Append(m.history, price) \in Seq(Nat)
    BY <1>1
  <2> QED BY <2>1, RecentPrints, BackstopConstants
<1>3. p \in Int
  <2>1. m.history # <<>> => m.history[Len(m.history)] \in Nat
    <3>1. m.history # <<>> => Len(m.history) \in 1..Len(m.history)
      BY <1>1
    <3> QED BY <1>1, <3>1
  <2> DEFINE move == price - m.history[Len(m.history)]
  <2>2. m.history # <<>> => move \in Int
    BY <2>1
  <2> HIDE DEF move
  <2>3. m.history # <<>> => (m.inventory * move) \in Int
    BY <1>1, <2>2
  <2> QED BY <1>1, <2>3 DEF move
<1>4. c = [m EXCEPT !.history = h, !.pnl = p]
  BY DEF record_price
<1> HIDE DEF h, p
<1>5. PICK a \in Seq(Nat), i \in Int, b \in Int : m = [history |-> a, inventory |-> i, pnl |-> b]
  BY DEF Makers
<1>6. c = [history |-> h, inventory |-> i, pnl |-> p]
  BY <1>4, <1>5
<1> QED BY <1>2, <1>3, <1>5, <1>6 DEF Makers

LEMMA PricesRecorded ==
  ASSUME NEW m \in Makers, NEW prices \in Seq(Nat)
  PROVE  /\ record_prices(m, prices) \in Makers
         /\ record_prices(m, prices).inventory = m.inventory
<1> DEFINE N == Len(prices)
           V == {v \in Makers : v.inventory = m.inventory}
           Body(g, k) == IF k = 0 THEN m ELSE record_price(g[k - 1], prices[k])
           Runs(g) == g = [k \in 0..N |-> Body(g, k)]
           step == [x \in V \X (1..N) |-> record_price(x[1], prices[x[2]])]
           it == CHOOSE g : Runs(g)
<1>1. N \in Nat /\ m \in V
  OBVIOUS
<1>2. \A v \in V, k \in 1..N : record_price(v, prices[k]) \in V
  <2> TAKE v \in V, k \in 1..N
  <2>1. prices[k] \in Nat /\ v \in Makers
    OBVIOUS
  <2>2. record_price(v, prices[k]) \in Makers /\ record_price(v, prices[k]).inventory = v.inventory
    BY <2>1, PriceRecorded, Zenon
  <2> QED BY <2>2
<1>3. step \in [V \X (1..N) -> V] /\ \A v \in V, k \in 1..N : step[<<v, k>>] = record_price(v, prices[k])
  <2> HIDE DEF V
  <2> QED BY <1>2
<1> HIDE DEF step, V
<1>4. PICK run \in [0..N -> V] : run[0] = m /\ \A n \in 1..N : run[n] = step[<<run[n - 1], n>>]
  <2>1. step \in StepsOf(V, N)
    BY <1>3 DEF StepsOf
  <2> HIDE DEF N
  <2>2. PICK run : RunOf(run, V, N, m, step)
    BY <1>1, <2>1, RunExists, Zenon
  <2> QED BY <2>2 DEF RunOf
<1>5. \A k \in 0..N : run[k] = Body(run, k)
  <2> TAKE k \in 0..N
  <2>1. CASE k = 0
    BY <1>4, <2>1
  <2>2. CASE k # 0
    <3>1. k \in 1..N /\ k - 1 \in 0..N
      BY <1>1, <2>2
    <3>2. run[k - 1] \in V
      BY <3>1
    <3> QED BY <1>3, <1>4, <2>2, <3>1, <3>2
  <2> QED BY <2>1, <2>2
<1>6. Runs(run)
  <2>1. run = [k \in 0..N |-> run[k]]
    OBVIOUS
  <2> HIDE DEF Body
  <2> QED BY <1>5, <2>1
<1>7. Runs(it)
  <2> HIDE DEF Runs
  <2> QED BY <1>6
<1>8. record_prices(m, prices) = it[N]
  BY Zenon DEF record_prices
<1> HIDE DEF it
<1>9. \A k \in 0..N : it[k] = Body(it, k)
  <2> HIDE DEF Body
  <2> QED BY <1>7
<1> DEFINE G == {n \in Nat : n <= N => it[n] \in V}
<1>10. 0 \in G
  <2>1. 0 \in 0..N
    BY <1>1
  <2> QED BY <1>1, <1>9, <2>1
<1>11. \A n \in Nat : n \in G => n + 1 \in G
  <2> SUFFICES ASSUME NEW n \in Nat, n + 1 <= N, it[n] \in V PROVE it[n + 1] \in V
    BY <1>1
  <2>1. n + 1 \in 0..N /\ n + 1 \in 1..N /\ n + 1 # 0 /\ n + 1 - 1 = n
    BY <1>1
  <2>2. it[n + 1] = record_price(it[n], prices[n + 1])
    BY <1>9, <2>1
  <2> QED BY <1>2, <2>1, <2>2
<1> HIDE DEF G
<1>12. N \in G
  BY <1>1, <1>10, <1>11, Induction
<1> QED BY <1>1, <1>8, <1>12 DEF G, V

-----------------------------------------------------------------------------
(* The inductive invariant *)

Stages == {"new", "collateral", "books", "backstop", "rescue", "cancel", "record", "fold", "done"}
Outcomes == {"accepted", "post_only_rejected", "fill_or_kill_failed"}
Fill == [price : Nat, qty : Nat \ {0}, maker : Requests \cup {BACKSTOP}]
Results ==
  [outcome : Outcomes, fills : Seq(Fill), resting_id : Ids \cup {NIL}, resting_qty : Nat, price : Int]

Types ==
  /\ queue \in [Sides -> Seq(Entries)]
  /\ backstop \in Makers
  /\ last_nonce \in [Signers -> Nonces \cup {0}]
  /\ pc \in [Requests -> Stages]
  /\ payload \in [Requests -> Payloads \cup {NoPayload}]
  /\ result \in [Requests -> Results]
  /\ DOMAIN response = Requests
  /\ got \in [Requests -> Nat]
  /\ cancels \subseteq Requests \X Requests
  /\ polls \in 0..MaxPolls

\* How far a request p may have come at a stage: its result, answer and trades.
Staged(p, stage, res, answer) ==
  /\ stage = "new" <=> p = NoPayload
  /\ stage \in {"collateral", "backstop", "rescue", "cancel", "record", "fold"} => p.kind = "order"
  /\ stage \in {"new", "collateral", "books"} => res = NoResult
  /\ stage # "done" => answer = "none"
  /\ stage \in {"rescue", "cancel"} =>
       p.tif = "GTC" /\ res.outcome = "accepted" /\ res.resting_qty > 0 /\ res.resting_id # NIL
  /\ stage = "cancel" => res.price \in Nat
  /\ answer = "rejected" => res.outcome # "accepted"

\* What the backstop is asked for is what the book has left.
Asked(p, stage, res, g) ==
  stage = "backstop" =>
    /\ g = FilledQty(res.fills) /\ g <= p.qty
    /\ IF res.outcome = "fill_or_kill_failed"
       THEN p.tif = "FOK" /\ g = 0 /\ res.fills = <<>>
       ELSE p.tif = "IOC"

OnlyBackstop(fills) == \A k \in 1..Len(fills) : fills[k].maker = BACKSTOP

Fair(p, stage, res, g) ==
  /\ stage \in {"new", "collateral", "books"} => g = 0
  /\ (p.kind = "order" /\ p.tif = "FOK" /\ stage \in {"record", "fold", "done"}) => g \in {0, p.qty}
  /\ (p.kind \in {"order", "offer"} /\ g > p.qty) =>
       p.kind = "order" /\ p.tif = "GTC" /\ \E k \in 1..Len(res.fills) : res.fills[k].maker = BACKSTOP
  /\ res.outcome # "accepted" =>
       \/ g = 0
       \/ /\ p.kind = "order" /\ p.tif = "IOC" /\ p.post_only
          /\ OnlyBackstop(res.fills)
  /\ (res.outcome = "post_only_rejected" /\ stage = "backstop") => p.post_only /\ res.fills = <<>>
  /\ p.kind \in {"order", "offer"} => \A k \in 1..Len(res.fills) :
       res.fills[k].maker # BACKSTOP => Crosses(p.side, p.tick, res.fills[k].price)

Coherent(x) ==
  /\ Staged(payload[x], pc[x], result[x], response[x])
  /\ Asked(payload[x], pc[x], result[x], got[x])
  /\ Fair(payload[x], pc[x], result[x], got[x])

\* An order in the book is its request's, and can trade no more than is due.
Backed(e, side) ==
  LET p == payload[e.req] IN
  /\ p.kind \in {"order", "offer"} /\ p.side = side /\ p.tif = "GTC" /\ p.signer = e.owner
  /\ pc[e.req] \in {"rescue", "cancel", "record", "fold", "done"}
  /\ pc[e.req] = "done" => response[e.req] \in {"resting", "timed_out"}
  /\ result[e.req].outcome = "accepted" /\ result[e.req].resting_id = e.id
  /\ got[e.req] + e.qty <= p.qty

Slots == \A s \in Sides : \A i \in 1..Len(queue[s]) : Backed(queue[s][i], s)

Alone ==
  \A s, t \in Sides : \A i \in 1..Len(queue[s]) : \A j \in 1..Len(queue[t]) :
    queue[s][i].id = queue[t][j].id => s = t /\ i = j

\* Requests that cancelled, or were cancelled, have come in.
CancelsOwn ==
  \A c \in cancels :
    /\ pc[c[1]] # "new" /\ pc[c[2]] # "new"
    /\ payload[c[1]].kind = "cancel" => payload[c[1]].signer = payload[c[2]].signer

NoncesSeen ==
  \A x \in Requests :
    (payload[x] # NoPayload /\ response[x] # "nonce_replay")
      => payload[x].nonce <= last_nonce[payload[x].signer]

GatewayInv ==
  /\ Types /\ (\A x \in Requests : Coherent(x)) /\ Slots /\ Alone
  /\ CancelsOwn /\ NoncesSeen /\ NoReplay

LEMMA PostOnlyFlag ==
  ASSUME NEW p \in Payloads, p.kind \in {"order", "offer"}
  PROVE  p.post_only \in BOOLEAN
<1>1. PostOnly \subseteq BOOLEAN
  BY GatewayAssumption DEF GatewayAssumption
<1>2. CASE p \in OrderPayload
  BY <1>1, <1>2 DEF OrderPayload
<1>3. CASE p \in OfferPayload
  BY <1>3 DEF OfferPayload
<1>4. CASE p \in CancelPayload
  BY <1>4 DEF CancelPayload
<1> QED BY <1>2, <1>3, <1>4 DEF Payloads

LEMMA PayloadFields ==
  ASSUME NEW p \in Payloads
  PROVE  /\ p.kind \in {"order", "offer", "cancel"} /\ p # NoPayload
         /\ p.signer \in Signers /\ p.nonce \in Nonces /\ p.nonce \in Nat
         /\ p.kind \in {"order", "offer"} =>
              /\ p.side \in Sides /\ p.tick \in Nat /\ p.qty \in Nat
              /\ p.tif \in {"GTC", "IOC", "FOK"}
         /\ p.kind = "offer" => p.tif = "GTC"
         /\ p.kind = "cancel" => p.order_id \in Ids
<1>0. NoPayload.kind = "none"
  BY DEF NoPayload
<1>1. /\ Nonces \subseteq Nat /\ Ticks \subseteq Nat /\ Qtys \subseteq Nat
      /\ Tifs \subseteq {"GTC", "IOC", "FOK"}
  BY GatewayAssumption DEF GatewayAssumption
<1>2. CASE p \in OrderPayload
  <2>1. p.kind = "order" /\ p.signer \in Signers /\ p.nonce \in Nonces /\ p.side \in Sides
        /\ p.tick \in Ticks /\ p.qty \in Qtys /\ p.tif \in Tifs
    BY <1>2 DEF OrderPayload
  <2>2. p # NoPayload
    BY <1>0, <2>1
  <2>3. p.nonce \in Nat /\ p.tick \in Nat /\ p.qty \in Nat /\ p.tif \in {"GTC", "IOC", "FOK"}
    BY <1>1, <2>1, Zenon
  <2> QED BY <2>1, <2>2, <2>3
<1>3. CASE p \in OfferPayload
  <2>1. p.kind = "offer" /\ p.signer \in Signers /\ p.nonce \in Nonces /\ p.side \in Sides
        /\ p.tick \in Ticks /\ p.qty \in Qtys /\ p.tif = "GTC"
    BY <1>3 DEF OfferPayload
  <2>2. p # NoPayload
    BY <1>0, <2>1
  <2>3. p.nonce \in Nat /\ p.tick \in Nat /\ p.qty \in Nat
    BY <1>1, <2>1, Zenon
  <2> QED BY <2>1, <2>2, <2>3
<1>4. CASE p \in CancelPayload
  <2>1. p.kind = "cancel" /\ p.signer \in Signers /\ p.nonce \in Nonces /\ p.order_id \in Ids
    BY <1>4 DEF CancelPayload
  <2>2. p # NoPayload
    BY <1>0, <2>1
  <2>3. p.nonce \in Nat
    BY <1>1, <2>1, Zenon
  <2> QED BY <2>1, <2>2, <2>3
<1> QED BY <1>2, <1>3, <1>4 DEF Payloads

LEMMA PayloadIn ==
  ASSUME Types, NEW x \in Requests, payload[x].kind # "none" \/ payload[x] # NoPayload
  PROVE  payload[x] \in Payloads
BY DEF Types, NoPayload

LEMMA RequestsFinite ==
  /\ IsFiniteSet(Requests) /\ Requests \subseteq Nat /\ Requests \subseteq Int /\ MaxRequests \in Nat
  /\ Ids = Requests /\ 0 \notin Ids /\ 0 \notin Requests
<1>1. MaxRequests \in Nat
  BY GatewayAssumption DEF GatewayAssumption
<1> QED BY <1>1, FS_Interval DEF Requests, Ids

-----------------------------------------------------------------------------
(* A step of request r, seen from the others *)

Others(r) ==
  \A x \in Requests \ {r} :
    pc'[x] = pc[x] /\ result'[x] = result[x] /\ response'[x] = response[x]

LEMMA NoncesFrame ==
  ASSUME GatewayInv, NEW r \in Requests, payload' = payload, last_nonce' = last_nonce,
         pc[r] # "done", Others(r)
  PROVE  NoncesSeen' /\ NoReplay'
<1>1. \A x \in Requests : response[x] = "nonce_replay" => response'[x] = "nonce_replay"
  <2> TAKE x \in Requests
  <2>1. response[r] = "none"
    BY DEF GatewayInv, Coherent, Staged
  <2> QED BY <2>1 DEF Others
<1>2. NoncesSeen'
  BY <1>1 DEF GatewayInv, NoncesSeen
<1>3. NoReplay'
  BY <1>1 DEF GatewayInv, NoReplay
<1> QED BY <1>2, <1>3

LEMMA CancelsFrame ==
  ASSUME GatewayInv, NEW r \in Requests, payload' = payload, pc'[r] # "new", Others(r),
         cancels' = cancels
  PROVE  CancelsOwn'
<1>1. \A x \in Requests : pc[x] # "new" => pc'[x] # "new"
  BY DEF Others
<1>2. \A c \in cancels : c[1] \in Requests /\ c[2] \in Requests
  BY DEF GatewayInv, Types
<1> QED BY <1>1, <1>2 DEF GatewayInv, CancelsOwn

LEMMA CoherentFrame ==
  ASSUME GatewayInv, NEW r \in Requests, NEW x \in Requests, x # r, payload'[x] = payload[x],
         Others(r), got'[x] = got[x]
  PROVE  Coherent(x)'
<1>1. Coherent(x)
  BY DEF GatewayInv
<1>2. pc'[x] = pc[x] /\ result'[x] = result[x] /\ response'[x] = response[x]
  BY DEF Others
<1> QED BY <1>1, <1>2 DEF Coherent

LEMMA BackedFrame ==
  ASSUME GatewayInv, NEW r \in Requests, NEW e \in Entries, NEW s \in Sides, Backed(e, s),
         e.req # r, payload'[e.req] = payload[e.req], Others(r), got'[e.req] = got[e.req]
  PROVE  Backed(e, s)'
<1>1. e.req \in Requests \ {r}
  BY EntryFields
<1>2. /\ pc'[e.req] = pc[e.req] /\ result'[e.req] = result[e.req]
      /\ response'[e.req] = response[e.req]
  BY <1>1 DEF Others
<1> QED BY <1>2 DEF Backed

\* A step of r that leaves the book, and the quantities of the others, alone.
LEMMA QuietStep ==
  ASSUME GatewayInv, NEW r \in Requests, Types', queue' = queue, payload' = payload,
         last_nonce' = last_nonce, cancels' = cancels, Others(r), Coherent(r)',
         pc[r] # "done", pc'[r] # "new", \A x \in Requests \ {r} : got'[x] = got[x],
         \A s \in Sides : \A i \in 1..Len(queue[s]) :
           queue[s][i].req = r => Backed(queue[s][i], s)'
  PROVE  GatewayInv'
<1>1. \A x \in Requests : Coherent(x)'
  <2> TAKE x \in Requests
  <2>1. CASE x = r
    BY <2>1
  <2>2. CASE x # r
    BY <2>2, CoherentFrame
  <2> QED BY <2>1, <2>2
<1>2. Slots'
  <2>1. \A s \in Sides : \A i \in 1..Len(queue[s]) : Backed(queue[s][i], s)'
    <3> TAKE s \in Sides
    <3> TAKE i \in 1..Len(queue[s])
    <3>1. queue[s][i] \in Entries /\ Backed(queue[s][i], s)
      BY DEF GatewayInv, Types, Slots
    <3>2. PICK e \in Entries : e = queue[s][i] /\ Backed(e, s)
      BY <3>1
    <3>3. CASE e.req # r
      <4>1. e.req \in Requests \ {r}
        BY <3>3, EntryFields
      <4>2. Backed(e, s)'
        BY <3>2, <3>3, <4>1, BackedFrame
      <4> QED BY <3>2, <4>2
    <3> QED BY <3>2, <3>3
  <2> QED BY <2>1 DEF Slots
<1>3. Alone'
  BY DEF GatewayInv, Alone
<1> QED BY <1>1, <1>2, <1>3, NoncesFrame, CancelsFrame DEF GatewayInv

LEMMA FillAt ==
  ASSUME NEW fills \in Seq(Fill), NEW k \in 1..Len(fills)
  PROVE  /\ fills[k] \in Fill /\ fills[k].price \in Nat /\ fills[k].qty \in Nat /\ fills[k].qty > 0
         /\ fills[k].maker \in Requests \cup {BACKSTOP}
<1>1. fills[k] \in Fill
  OBVIOUS
<1>2. \A f \in Fill : /\ f.price \in Nat /\ f.qty \in Nat /\ f.qty > 0
                     /\ f.maker \in Requests \cup {BACKSTOP}
  BY DEF Fill
<1> QED BY <1>1, <1>2, Zenon

LEMMA EntryAt ==
  ASSUME GatewayInv, NEW s \in Sides, NEW i \in 1..Len(queue[s])
  PROVE  queue[s][i] \in Entries /\ Backed(queue[s][i], s)
BY DEF GatewayInv, Types, Slots

\* What the invariant says of a request that is being handled.
LEMMA HandledFacts ==
  ASSUME GatewayInv, NEW r \in Requests, pc[r] # "new"
  PROVE  /\ payload[r] \in Payloads /\ result[r] \in Results /\ got[r] \in Nat
         /\ Staged(payload[r], pc[r], result[r], response[r])
         /\ Asked(payload[r], pc[r], result[r], got[r])
         /\ Fair(payload[r], pc[r], result[r], got[r])
<1>1. /\ Staged(payload[r], pc[r], result[r], response[r])
      /\ Asked(payload[r], pc[r], result[r], got[r])
      /\ Fair(payload[r], pc[r], result[r], got[r])
  BY DEF GatewayInv, Coherent
<1>2. payload[r] # NoPayload
  BY <1>1 DEF Staged
<1> QED BY <1>1, <1>2 DEF GatewayInv, Types

\* A handler that waits on the chain answers.
LEMMA RespondKeeps ==
  ASSUME GatewayInv, NEW r \in Requests, pc[r] \in {"collateral", "fold"},
         NEW answer, Respond(r, answer), answer # "none", answer \in {"rejected", "filled", "resting"} =>
           pc[r] = "fold" /\ answer = Answer(result[r]),
         pc[r] = "fold" => answer \in {Answer(result[r]), "timed_out"},
         UNCHANGED <<queue, backstop, last_nonce, payload, result, got, cancels, polls>>
  PROVE  GatewayInv'
<1>1. pc' = [pc EXCEPT ![r] = "done"] /\ response' = [response EXCEPT ![r] = answer]
  BY DEF Respond
<1>2. Types'
  BY <1>1 DEF GatewayInv, Types, Stages
<1>3. Others(r) /\ pc'[r] = "done" /\ response'[r] = answer
  BY <1>1 DEF Others, GatewayInv, Types
<1>4. /\ payload[r] \in Payloads /\ result[r] \in Results /\ got[r] \in Nat
      /\ Staged(payload[r], pc[r], result[r], response[r])
      /\ Fair(payload[r], pc[r], result[r], got[r])
  BY HandledFacts
<1>5. payload[r] # NoPayload
  BY <1>4, PayloadFields
<1>6. answer = "rejected" => result[r].outcome # "accepted"
  BY DEF Answer
<1>7. Staged(payload[r], "done", result[r], answer)
  BY <1>4, <1>5, <1>6 DEF Staged
<1>8. Asked(payload[r], "done", result[r], got[r])
  BY DEF Asked
<1>9. Fair(payload[r], "done", result[r], got[r])
  <2>1. pc[r] = "collateral" => got[r] = 0
    BY <1>4 DEF Fair
  <2> QED BY <1>4, <2>1 DEF Fair
<1>10. Coherent(r)'
  BY <1>3, <1>7, <1>8, <1>9 DEF Coherent
<1>11. \A s \in Sides : \A i \in 1..Len(queue[s]) :
         queue[s][i].req = r => Backed(queue[s][i], s)'
  <2> SUFFICES ASSUME NEW s \in Sides, NEW i \in 1..Len(queue[s]), queue[s][i].req = r
               PROVE  Backed(queue[s][i], s)'
    OBVIOUS
  <2>1. PICK e \in Entries : e = queue[s][i] /\ Backed(e, s) /\ e.req = r
    BY EntryAt
  <2>2. e.id # NIL
    BY EntryFields, RequestsFinite DEF NIL
  <2>3. pc[r] = "fold" /\ result[r].outcome = "accepted" /\ result[r].resting_id = e.id
    BY <2>1 DEF Backed
  <2>4. answer \in {"resting", "timed_out"}
    BY <2>2, <2>3 DEF Answer
  <2>5. Backed(e, s)'
    BY <1>3, <2>1, <2>4 DEF Backed
  <2> QED BY <2>1, <2>5
<1> QED BY <1>2, <1>3, <1>10, <1>11, QuietStep

LEMMA CheckCollateralKeeps ==
  ASSUME GatewayInv, NEW r \in Requests, CheckCollateral(r)
  PROVE  GatewayInv'
<1>1. CASE Respond(r, "insufficient_collateral")
  BY <1>1, RespondKeeps DEF CheckCollateral
<1>2. CASE pc' = [pc EXCEPT ![r] = "books"] /\ UNCHANGED response
  <2>1. Types' /\ Others(r) /\ pc'[r] = "books"
    BY <1>2 DEF CheckCollateral, GatewayInv, Types, Stages, Others
  <2>2. /\ Staged(payload[r], pc[r], result[r], response[r])
        /\ Fair(payload[r], pc[r], result[r], got[r]) /\ pc[r] = "collateral"
    BY HandledFacts DEF CheckCollateral
  <2>3. /\ Staged(payload[r], "books", result[r], response[r])
        /\ Asked(payload[r], "books", result[r], got[r])
        /\ Fair(payload[r], "books", result[r], got[r])
    BY <2>2 DEF Staged, Asked, Fair
  <2>4. Coherent(r)'
    BY <1>2, <2>1, <2>3 DEF Coherent, CheckCollateral
  <2>5. \A s \in Sides : \A i \in 1..Len(queue[s]) : queue[s][i].req # r
    BY <2>2, EntryAt DEF Backed
  <2> QED BY <2>1, <2>2, <2>4, <2>5, QuietStep DEF CheckCollateral
<1> QED BY <1>1, <1>2 DEF CheckCollateral

LEMMA FoldKeeps ==
  ASSUME GatewayInv, NEW r \in Requests, Fold(r)
  PROVE  GatewayInv'
<1>1. Answer(result[r]) # "none" /\ Answer(result[r]) # "timed_out"
  BY DEF Answer
<1> QED BY <1>1, RespondKeeps DEF Fold

LEMMA TimeoutKeeps ==
  ASSUME GatewayInv, NEW r \in Requests, Timeout(r)
  PROVE  GatewayInv'
BY RespondKeeps DEF Timeout

LEMMA RecordFillsKeeps ==
  ASSUME GatewayInv, NEW r \in Requests, RecordFills(r)
  PROVE  GatewayInv'
<1> DEFINE prices == [k \in 1..Len(result[r].fills) |-> result[r].fills[k].price]
<1>1. /\ result[r] \in Results /\ pc[r] = "record"
      /\ Staged(payload[r], pc[r], result[r], response[r])
      /\ Fair(payload[r], pc[r], result[r], got[r])
  BY HandledFacts DEF RecordFills
<1>2. prices \in Seq(Nat)
  <2>1. PICK fills \in Seq(Fill) : fills = result[r].fills
    BY <1>1 DEF Results
  <2>2. \A k \in 1..Len(fills) : fills[k].price \in Nat
    BY FillAt
  <2>3. [k \in 1..Len(fills) |-> fills[k].price] \in Seq(Nat)
    BY <2>2
  <2> QED BY <2>1, <2>3
<1>3. backstop' = record_prices(backstop, prices) /\ pc' = [pc EXCEPT ![r] = "fold"]
  BY DEF RecordFills
<1> HIDE DEF prices
<1>4. backstop \in Makers
  BY DEF GatewayInv, Types
<1>5. backstop' \in Makers
  BY <1>2, <1>3, <1>4, PricesRecorded
<1>6. Types' /\ Others(r) /\ pc'[r] = "fold"
  BY <1>3, <1>5 DEF RecordFills, GatewayInv, Types, Stages, Others
<1>7. /\ Staged(payload[r], "fold", result[r], response[r])
      /\ Asked(payload[r], "fold", result[r], got[r])
      /\ Fair(payload[r], "fold", result[r], got[r])
  BY <1>1 DEF Staged, Asked, Fair
<1>8. Coherent(r)'
  BY <1>6, <1>7 DEF Coherent, RecordFills
<1>9. \A s \in Sides : \A i \in 1..Len(queue[s]) :
        queue[s][i].req = r => Backed(queue[s][i], s)'
  <2> SUFFICES ASSUME NEW s \in Sides, NEW i \in 1..Len(queue[s]), queue[s][i].req = r
               PROVE  Backed(queue[s][i], s)'
    OBVIOUS
  <2>1. PICK e \in Entries : e = queue[s][i] /\ Backed(e, s) /\ e.req = r
    BY EntryAt
  <2>2. Backed(e, s)'
    BY <1>6, <2>1 DEF Backed, RecordFills
  <2> QED BY <2>1, <2>2 DEF RecordFills
<1> QED BY <1>1, <1>6, <1>8, <1>9, QuietStep DEF RecordFills

LEMMA OraclePollKeeps ==
  ASSUME GatewayInv, NEW price \in Prices, OraclePoll(price)
  PROVE  GatewayInv'
<1>1. price \in Nat
  BY GatewayAssumption DEF GatewayAssumption
<1>2. MaxPolls \in Nat
  BY GatewayAssumption DEF GatewayAssumption
<1>3. backstop' \in Makers
  BY <1>1, PriceRecorded DEF OraclePoll, GatewayInv, Types
<1>4. Types'
  BY <1>2, <1>3 DEF OraclePoll, GatewayInv, Types
<1>5. \A x \in Requests : Coherent(x)'
  BY DEF OraclePoll, GatewayInv, Coherent
<1>6. Slots' /\ Alone'
  BY DEF OraclePoll, GatewayInv, Slots, Alone, Backed
<1>7. CancelsOwn' /\ NoncesSeen' /\ NoReplay'
  BY DEF OraclePoll, GatewayInv, CancelsOwn, NoncesSeen, NoReplay
<1> QED BY <1>4, <1>5, <1>6, <1>7 DEF GatewayInv

LEMMA PastMatchingFacts ==
  ASSUME GatewayInv, NEW r \in Requests, NEW res \in Results, PastMatching(r, res),
         NEW stage, stage = IF res.fills # <<>> THEN "record" ELSE "done",
         NEW answer, answer = IF res.fills # <<>> THEN response[r] ELSE Answer(res)
  PROVE  /\ result' \in [Requests -> Results] /\ pc' \in [Requests -> Stages] /\ DOMAIN response' = Requests
         /\ Others(r) /\ result'[r] = res /\ pc'[r] = stage /\ response'[r] = answer
<1>1. /\ result' = [result EXCEPT ![r] = res] /\ pc' = [pc EXCEPT ![r] = stage]
      /\ response' = IF res.fills # <<>> THEN response ELSE [response EXCEPT ![r] = Answer(res)]
  BY DEF PastMatching
<1>2. stage \in Stages
  BY DEF Stages
<1>3. /\ result \in [Requests -> Results] /\ pc \in [Requests -> Stages] /\ DOMAIN response = Requests
  BY DEF GatewayInv, Types
<1> QED BY <1>1, <1>2, <1>3 DEF Others

\* A result with one more fill of the backstop.
Pushed(new, res) ==
  /\ new \in Results /\ new.outcome = res.outcome /\ new.resting_id = res.resting_id
  /\ new.resting_qty = res.resting_qty /\ new.price = res.price
  /\ new.fills # <<>> /\ \E k \in 1..Len(new.fills) : new.fills[k].maker = BACKSTOP
  /\ \A k \in 1..Len(new.fills) :
       new.fills[k].maker = BACKSTOP \/ (k \in 1..Len(res.fills) /\ new.fills[k] = res.fills[k])

LEMMA BackstopFillAdded ==
  ASSUME NEW res \in Results, NEW price \in Nat, NEW qty \in Nat \ {0},
         NEW new, new = WithBackstopFill(res, price, qty)
  PROVE  Pushed(new, res)
<1> DEFINE fill == [price |-> price, qty |-> qty, maker |-> BACKSTOP]
           fills == Append(res.fills, fill)
<1>1. fill \in Fill /\ fill.maker = BACKSTOP
  BY DEF Fill
<1>2. /\ res.outcome \in Outcomes /\ res.fills \in Seq(Fill) /\ res.resting_id \in Ids \cup {NIL}
      /\ res.resting_qty \in Nat /\ res.price \in Int
  BY DEF Results
<1>3. new = [res EXCEPT !.fills = fills]
  BY DEF WithBackstopFill
<1> HIDE DEF fill
<1>4. /\ fills \in Seq(Fill) /\ Len(fills) = Len(res.fills) + 1 /\ Len(res.fills) \in Nat
      /\ fills[Len(res.fills) + 1] = fill /\ \A k \in 1..Len(res.fills) : fills[k] = res.fills[k]
      /\ fills # <<>>
  BY <1>1, <1>2
<1> HIDE DEF fills
<1>5. /\ new \in Results /\ new.outcome = res.outcome /\ new.resting_id = res.resting_id
      /\ new.resting_qty = res.resting_qty /\ new.price = res.price /\ new.fills = fills
  BY <1>3, <1>4 DEF Results
<1>6. Len(res.fills) + 1 \in 1..Len(fills)
  BY <1>4
<1>7. \A k \in 1..Len(fills) : k = Len(res.fills) + 1 \/ k \in 1..Len(res.fills)
  BY <1>4
<1> QED BY <1>1, <1>4, <1>5, <1>6, <1>7 DEF Pushed

LEMMA ResultOutcome ==
  ASSUME NEW res \in Results, NEW outcome \in Outcomes, NEW new, new = [res EXCEPT !.outcome = outcome]
  PROVE  /\ new \in Results /\ new.outcome = outcome /\ new.fills = res.fills
         /\ new.resting_id = res.resting_id /\ new.resting_qty = res.resting_qty
BY DEF Results

\* The backstop's turn on a leftover it takes.
LEMMA BackstopTakes ==
  ASSUME GatewayInv, NEW r \in Requests, pc[r] = "backstop",
         NEW requested, requested = IF result[r].outcome = "fill_or_kill_failed" THEN payload[r].qty
                                    ELSE payload[r].qty - FilledQty(result[r].fills),
         NEW offered, offered = Offered(backstop, payload[r].side, requested), offered > 0,
         result[r].outcome = "fill_or_kill_failed" => offered = requested
  PROVE  /\ offered \in Nat \ {0} /\ offered <= requested /\ quote(backstop, payload[r].side) \in Nat
         /\ got[r] + offered <= payload[r].qty
         /\ result[r].outcome = "fill_or_kill_failed" => got[r] + offered = payload[r].qty
<1>1. /\ payload[r] \in Payloads /\ result[r] \in Results /\ got[r] \in Nat
      /\ Staged(payload[r], pc[r], result[r], response[r])
      /\ Asked(payload[r], pc[r], result[r], got[r])
  BY HandledFacts
<1>2. payload[r].kind = "order"
  BY <1>1 DEF Staged
<1>3. payload[r].qty \in Nat /\ payload[r].side \in Sides
  BY <1>1, <1>2, PayloadFields
<1>4. requested = payload[r].qty - got[r]
  BY <1>1, <1>3 DEF Asked
<1>5. requested \in Nat
  BY <1>1, <1>3, <1>4 DEF Asked
<1>7. backstop \in Makers
  BY DEF GatewayInv, Types
<1>8. offered \in Int
  BY <1>5, <1>7, OfferedAtMost
<1>9. offered <= requested /\ quote(backstop, payload[r].side) \in Nat
  BY <1>5, <1>7, OfferedAtMost
<1> QED BY <1>1, <1>3, <1>4, <1>8, <1>9

\* At the end of the matching an order that has fills is not answered yet.
LEMMA PastMatchingStaged ==
  ASSUME NEW p \in Payloads, p.kind = "order", NEW res \in Results,
         NEW stage, stage = IF res.fills # <<>> THEN "record" ELSE "done",
         NEW before, before = "none",
         NEW answer, answer = IF res.fills # <<>> THEN before ELSE Answer(res)
  PROVE  Staged(p, stage, res, answer) /\ \A g : Asked(p, stage, res, g)
<1>1. p # NoPayload
  BY PayloadFields
<1>2. stage \in {"record", "done"} /\ (stage # "done" => answer = "none")
  OBVIOUS
<1>3. answer = "rejected" => res.outcome # "accepted"
  BY DEF Answer
<1>4. stage # "backstop"
  BY <1>2
<1> QED BY <1>1, <1>2, <1>3, <1>4 DEF Staged, Asked

LEMMA BackstopTakeKeeps ==
  ASSUME GatewayInv, NEW r \in Requests, BackstopTake(r)
  PROVE  GatewayInv'
<1> DEFINE p == payload[r]
           old == result[r]
           killed == old.outcome = "fill_or_kill_failed"
           requested == IF killed THEN p.qty ELSE p.qty - FilledQty(old.fills)
           offered == Offered(backstop, p.side, requested)
           price == quote(backstop, p.side)
           more == WithBackstopFill(old, price, offered)
           new == [more EXCEPT !.outcome = Revived(more.outcome)]
<1>1. /\ p \in Payloads /\ old \in Results /\ got[r] \in Nat /\ pc[r] = "backstop"
      /\ Staged(p, pc[r], old, response[r]) /\ Asked(p, pc[r], old, got[r]) /\ Fair(p, pc[r], old, got[r])
  BY HandledFacts DEF BackstopTake
<1>2. p.kind = "order" /\ response[r] = "none"
  BY <1>1 DEF Staged
<1>3. \A s \in Sides : \A i \in 1..Len(queue[s]) : queue[s][i].req # r
  BY <1>1, EntryAt DEF Backed
<1>4. /\ UNCHANGED <<queue, last_nonce, payload, cancels, polls>>
      /\ IF Accepts(killed, requested, offered)
         THEN /\ backstop' = commit_fill(backstop, p.side, offered)
              /\ got' = [got EXCEPT ![r] = got[r] + offered] /\ PastMatching(r, new)
         ELSE PastMatching(r, old) /\ UNCHANGED <<backstop, got>>
  BY DEF BackstopTake
<1>5. /\ got \in [Requests -> Nat] /\ backstop \in Makers
  BY DEF GatewayInv, Types
<1>6. CASE Accepts(killed, requested, offered)
  <2>1. /\ offered \in Nat \ {0} /\ price \in Nat /\ got[r] + offered <= p.qty
        /\ killed => got[r] + offered = p.qty
    <3>1. offered > 0 /\ (killed => offered = requested)
      BY <1>6 DEF Accepts
    <3>2. requested = IF old.outcome = "fill_or_kill_failed" THEN p.qty ELSE p.qty - FilledQty(old.fills)
      OBVIOUS
    <3>3. offered = Offered(backstop, p.side, requested)
      OBVIOUS
    <3> HIDE DEF offered, requested
    <3> QED BY <1>1, <3>1, <3>2, <3>3, BackstopTakes, Zenon
  <2>2. /\ backstop' = commit_fill(backstop, p.side, offered)
        /\ got' = [got EXCEPT ![r] = got[r] + offered] /\ PastMatching(r, new)
    BY <1>4, <1>6
  <2>3. backstop' \in Makers
    BY <1>5, <2>1, <2>2, FillCommitted
  <2>4. got' \in [Requests -> Nat] /\ got'[r] = got[r] + offered /\ \A x \in Requests \ {r} : got'[x] = got[x]
    BY <1>1, <1>5, <2>1, <2>2
  <2>5. killed => p.tif = "FOK"
    BY <1>1 DEF Asked
  <2>6. ~killed => p.tif = "IOC"
    BY <1>1 DEF Asked
  <2>7. old.outcome = "post_only_rejected" => p.post_only /\ old.fills = <<>>
    BY <1>1 DEF Fair
  <2>8. \A k \in 1..Len(old.fills) :
          old.fills[k].maker # BACKSTOP => Crosses(p.side, p.tick, old.fills[k].price)
    BY <1>1, <1>2 DEF Fair
  <2>9. old.outcome \in Outcomes
    BY <1>1 DEF Results
  <2> HIDE DEF offered, price, requested
  <2>10. /\ more \in Results /\ more.outcome = old.outcome /\ more.fills # <<>>
         /\ \E k \in 1..Len(more.fills) : more.fills[k].maker = BACKSTOP
         /\ \A k \in 1..Len(more.fills) :
              more.fills[k].maker = BACKSTOP \/ (k \in 1..Len(old.fills) /\ more.fills[k] = old.fills[k])
    <3>1. more = WithBackstopFill(old, price, offered)
      OBVIOUS
    <3> HIDE DEF more, old
    <3>2. Pushed(more, old)
      BY <1>1, <2>1, <3>1, BackstopFillAdded, Zenon
    <3> QED BY <3>2 DEF Pushed
  <2> HIDE DEF more
  <2>11. Revived(more.outcome) \in Outcomes
    BY <2>9, <2>10 DEF Revived, Outcomes
  <2>12. new \in Results /\ new.outcome = Revived(old.outcome) /\ new.fills = more.fills
    BY <2>10, <2>11, ResultOutcome
  <2> HIDE DEF new
  <2>13. /\ new.fills # <<>>
         /\ \A k \in 1..Len(new.fills) :
              new.fills[k].maker = BACKSTOP \/ (k \in 1..Len(old.fills) /\ new.fills[k] = old.fills[k])
    BY <2>10, <2>12
  <2>14. new.outcome # "accepted" => old.outcome = "post_only_rejected" /\ ~killed
    BY <2>9, <2>12 DEF Revived, Outcomes
  <2>15. /\ result' \in [Requests -> Results] /\ pc' \in [Requests -> Stages]
         /\ DOMAIN response' = Requests
         /\ Others(r) /\ result'[r] = new /\ pc'[r] = "record" /\ response'[r] = "none"
    BY <1>2, <2>2, <2>12, <2>13, PastMatchingFacts
  <2>16. Types'
    BY <1>4, <2>3, <2>4, <2>15 DEF GatewayInv, Types
  <2>17. Staged(p, "record", new, "none") /\ Asked(p, "record", new, got'[r])
    BY <1>1, <1>2, <2>12, <2>13, PastMatchingStaged
  <2> DEFINE g == got[r] + offered
  <2>18. p.qty \in Nat /\ g \in Nat /\ g <= p.qty
    BY <1>1, <1>2, <2>1, PayloadFields
  <2>19. \A k \in 1..Len(new.fills) :
           new.fills[k].maker # BACKSTOP => Crosses(p.side, p.tick, new.fills[k].price)
    BY <2>8, <2>13
  <2>20. new.outcome # "accepted" => p.kind = "order" /\ p.tif = "IOC" /\ p.post_only /\ OnlyBackstop(new.fills)
    <3> SUFFICES ASSUME new.outcome # "accepted"
                 PROVE  p.kind = "order" /\ p.tif = "IOC" /\ p.post_only /\ OnlyBackstop(new.fills)
      OBVIOUS
    <3>1. p.tif = "IOC" /\ p.post_only /\ old.fills = <<>>
      BY <2>6, <2>7, <2>14
    <3>2. OnlyBackstop(new.fills)
      BY <2>13, <3>1 DEF OnlyBackstop
    <3> QED BY <1>2, <3>1, <3>2
  <2>21. p.tif = "FOK" => g = p.qty
    BY <2>1, <2>6
  <2> HIDE DEF g, p, killed
  <2>22. Fair(p, "record", new, g)
    BY <2>18, <2>19, <2>20, <2>21 DEF Fair
  <2>23. Coherent(r)'
    BY <1>4, <2>4, <2>15, <2>17, <2>22 DEF Coherent, p, g
  <2> QED BY <1>1, <1>3, <1>4, <2>4, <2>15, <2>16, <2>23, QuietStep
<1>7. CASE ~Accepts(killed, requested, offered)
  <2>1. PastMatching(r, old) /\ UNCHANGED <<backstop, got>>
    BY <1>4, <1>7
  <2> DEFINE stage == IF old.fills # <<>> THEN "record" ELSE "done"
             answer == IF old.fills # <<>> THEN response[r] ELSE Answer(old)
  <2>2. /\ result' \in [Requests -> Results] /\ pc' \in [Requests -> Stages]
        /\ DOMAIN response' = Requests
        /\ Others(r) /\ result'[r] = old /\ pc'[r] = stage /\ response'[r] = answer
    BY <1>1, <2>1, PastMatchingFacts
  <2>3. Staged(p, stage, old, answer) /\ Asked(p, stage, old, got[r])
    BY <1>1, <1>2, PastMatchingStaged
  <2>4. stage \in {"record", "done"}
    OBVIOUS
  <2> HIDE DEF stage, answer
  <2>5. Types'
    BY <1>4, <2>1, <2>2 DEF GatewayInv, Types
  <2>6. p.tif = "FOK" => got[r] = 0
    BY <1>1 DEF Asked
  <2>7. Fair(p, stage, old, got[r])
    BY <1>1, <1>2, <2>4, <2>6 DEF Fair
  <2>8. Coherent(r)'
    BY <1>4, <2>1, <2>2, <2>3, <2>7 DEF Coherent
  <2>9. pc'[r] # "new"
    BY <2>2, <2>4
  <2> QED BY <1>1, <1>3, <1>4, <2>1, <2>2, <2>5, <2>8, <2>9, QuietStep
<1> QED BY <1>6, <1>7

LEMMA RescueQuoteKeeps ==
  ASSUME GatewayInv, NEW r \in Requests, RescueQuote(r)
  PROVE  GatewayInv'
<1> DEFINE p == payload[r]
           old == result[r]
           price == quote(backstop, p.side)
           offered == Offered(backstop, p.side, old.resting_qty)
           new == [old EXCEPT !.price = price]
<1>1. /\ p \in Payloads /\ old \in Results /\ got[r] \in Nat /\ pc[r] = "rescue"
      /\ Staged(p, pc[r], old, response[r]) /\ Asked(p, pc[r], old, got[r]) /\ Fair(p, pc[r], old, got[r])
  BY HandledFacts DEF RescueQuote
<1>2. p.kind = "order" /\ response[r] = "none" /\ p.tif = "GTC" /\ old.outcome = "accepted"
      /\ old.resting_qty > 0 /\ old.resting_id # NIL
  BY <1>1 DEF Staged
<1>3. old.resting_qty \in Nat /\ old.resting_id \in Ids
  BY <1>1, <1>2 DEF Results
<1>4. UNCHANGED <<queue, last_nonce, payload, got, cancels, polls>>
  BY DEF RescueQuote
<1>5. backstop \in Makers
  BY DEF GatewayInv, Types
<1>6. CASE offered = old.resting_qty
  <2>1. /\ backstop' = commit_fill(backstop, p.side, old.resting_qty)
        /\ result' = [result EXCEPT ![r] = new]
        /\ pc' = [pc EXCEPT ![r] = "cancel"] /\ response' = response
    BY <1>6 DEF RescueQuote
  <2>2. backstop' \in Makers
    BY <1>3, <1>5, <2>1, FillCommitted
  <2>3. price \in Nat
    BY <1>2, <1>3, <1>5, <1>6, OfferedAtMost
  <2> HIDE DEF price
  <2>4. /\ new \in Results /\ new.price = price /\ new.outcome = old.outcome /\ new.fills = old.fills
        /\ new.resting_id = old.resting_id /\ new.resting_qty = old.resting_qty
    BY <1>1, <2>3 DEF Results
  <2> HIDE DEF new
  <2>5. Types' /\ Others(r) /\ pc'[r] = "cancel" /\ result'[r] = new /\ response'[r] = "none"
    BY <1>2, <1>4, <2>1, <2>2, <2>4 DEF GatewayInv, Types, Stages, Others
  <2>6. Staged(p, "cancel", new, "none") /\ Asked(p, "cancel", new, got[r]) /\ Fair(p, "cancel", new, got[r])
    BY <1>1, <1>2, <2>3, <2>4 DEF Staged, Asked, Fair
  <2>7. Coherent(r)'
    BY <1>4, <2>5, <2>6 DEF Coherent
  <2>8. \A s \in Sides : \A i \in 1..Len(queue[s]) :
          queue[s][i].req = r => Backed(queue[s][i], s)'
    <3> SUFFICES ASSUME NEW s \in Sides, NEW i \in 1..Len(queue[s]), queue[s][i].req = r
                 PROVE  Backed(queue[s][i], s)'
      BY <1>4
    <3>1. PICK e \in Entries : e = queue[s][i] /\ Backed(e, s) /\ e.req = r
      BY EntryAt
    <3>2. Backed(e, s)'
      BY <1>4, <2>4, <2>5, <3>1 DEF Backed
    <3> QED BY <1>4, <3>1, <3>2
  <2> QED BY <1>1, <1>4, <2>5, <2>7, <2>8, QuietStep
<1>7. CASE offered # old.resting_qty
  <2>1. PastMatching(r, old) /\ backstop' = backstop
    BY <1>7 DEF RescueQuote
  <2> DEFINE stage == IF old.fills # <<>> THEN "record" ELSE "done"
             answer == IF old.fills # <<>> THEN response[r] ELSE Answer(old)
  <2>2. /\ result' \in [Requests -> Results] /\ pc' \in [Requests -> Stages]
        /\ DOMAIN response' = Requests
        /\ Others(r) /\ result'[r] = old /\ pc'[r] = stage /\ response'[r] = answer
    BY <1>1, <2>1, PastMatchingFacts
  <2>3. Staged(p, stage, old, answer) /\ Asked(p, stage, old, got[r])
    BY <1>1, <1>2, PastMatchingStaged
  <2>4. stage \in {"record", "done"} /\ (stage = "done" => answer = "resting")
    BY <1>2 DEF Answer
  <2> HIDE DEF stage, answer
  <2>5. Types'
    BY <1>4, <2>1, <2>2 DEF GatewayInv, Types
  <2>6. Fair(p, stage, old, got[r])
    BY <1>1, <1>2, <2>4 DEF Fair
  <2>7. Coherent(r)'
    BY <1>4, <2>1, <2>2, <2>3, <2>6 DEF Coherent
  <2>8. \A s \in Sides : \A i \in 1..Len(queue[s]) :
          queue[s][i].req = r => Backed(queue[s][i], s)'
    <3> SUFFICES ASSUME NEW s \in Sides, NEW i \in 1..Len(queue[s]), queue[s][i].req = r
                 PROVE  Backed(queue[s][i], s)'
      BY <1>4
    <3>1. PICK e \in Entries : e = queue[s][i] /\ Backed(e, s) /\ e.req = r
      BY EntryAt
    <3>2. Backed(e, s)'
      BY <1>4, <2>2, <2>4, <3>1 DEF Backed
    <3> QED BY <1>4, <3>1, <3>2
  <2>9. pc'[r] # "new" /\ pc[r] # "done"
    BY <1>1, <2>2, <2>4
  <2> QED BY <1>4, <2>2, <2>5, <2>7, <2>8, <2>9, QuietStep
<1> QED BY <1>6, <1>7

-----------------------------------------------------------------------------
(* Orders leave the book *)

\* Every order of the queues q was in the book, and no order twice.
Thinned(q) ==
  /\ q \in [Sides -> Seq(Entries)]
  /\ \A s \in Sides : \E at \in [1..Len(q[s]) -> 1..Len(queue[s])] :
       /\ \A j, k \in 1..Len(q[s]) : at[j] = at[k] => j = k
       /\ \A k \in 1..Len(q[s]) : q[s][k] = queue[s][at[k]]

LEMMA WithoutThins ==
  ASSUME queue \in [Sides -> Seq(Entries)], NEW id, NEW q, q = Without(id)
  PROVE  Thinned(q) /\ \A s \in Sides : \A k \in 1..Len(q[s]) : q[s][k].id # id
<1>1. \A s \in Sides :
        /\ q[s] \in Seq(Entries)
        /\ \E at \in [1..Len(q[s]) -> 1..Len(queue[s])] :
             /\ \A j, k \in 1..Len(q[s]) : at[j] = at[k] => j = k
             /\ \A k \in 1..Len(q[s]) : q[s][k] = queue[s][at[k]]
        /\ \A k \in 1..Len(q[s]) : q[s][k].id # id
  <2> TAKE s \in Sides
  <2> DEFINE S == {i \in 1..Len(queue[s]) : queue[s][i].id # id}
  <2>1. PICK old \in Seq(Entries) : old = queue[s]
    OBVIOUS
  <2>2. q[s] = Kept(old, S) /\ S \subseteq 1..Len(old)
    BY <2>1 DEF Without
  <2>3. \A i \in S : old[i].id # id
    BY <2>1
  <2> HIDE DEF S
  <2>4. Kept(old, S) \in Seq(Entries) /\ \E at : At(at, Kept(old, S), old, S)
    BY <2>2, KeptAt
  <2>5. PICK new, at : new \in Seq(Entries) /\ new = q[s] /\ At(at, new, old, S)
    BY <2>2, <2>4
  <2>6. /\ at \in [1..Len(new) -> S] /\ \A k \in 1..Len(new) : new[k] = old[at[k]]
        /\ \A j, k \in 1..Len(new) : j < k => at[j] < at[k]
    BY <2>5 DEF At
  <2>7. at \in [1..Len(new) -> 1..Len(old)]
    BY <2>2, <2>6
  <2>8. \A j, k \in 1..Len(new) : at[j] = at[k] => j = k
    <3> TAKE j, k \in 1..Len(new)
    <3>0. at[j] \in 1..Len(old) /\ at[k] \in 1..Len(old)
      BY <2>7
    <3>1. j \in Int /\ k \in Int /\ at[j] \in Int /\ at[k] \in Int
      BY <3>0
    <3>2. j < k => at[j] < at[k]
      BY <2>6
    <3>3. k < j => at[k] < at[j]
      BY <2>6
    <3> QED BY <3>1, <3>2, <3>3
  <2>9. \A k \in 1..Len(new) : new[k].id # id
    BY <2>3, <2>6
  <2> QED BY <2>1, <2>5, <2>6, <2>7, <2>8, <2>9
<1>2. q \in [Sides -> Seq(Entries)]
  BY <1>1 DEF Without
<1> QED BY <1>1, <1>2 DEF Thinned

LEMMA ThinnedAt ==
  ASSUME GatewayInv, NEW q, Thinned(q), NEW s \in Sides, NEW k \in 1..Len(q[s])
  PROVE  q[s][k] \in Entries /\ Backed(q[s][k], s)
<1>1. PICK at \in [1..Len(q[s]) -> 1..Len(queue[s])] :
        \A j \in 1..Len(q[s]) : q[s][j] = queue[s][at[j]]
  BY DEF Thinned
<1>2. at[k] \in 1..Len(queue[s]) /\ q[s][k] = queue[s][at[k]]
  BY <1>1
<1> QED BY <1>2, EntryAt

LEMMA ThinnedAlone ==
  ASSUME GatewayInv, NEW q, Thinned(q), NEW s \in Sides, NEW t \in Sides,
         NEW i \in 1..Len(q[s]), NEW j \in 1..Len(q[t]), q[s][i].id = q[t][j].id
  PROVE  s = t /\ i = j
<1>1. PICK at \in [1..Len(q[s]) -> 1..Len(queue[s])] :
        /\ \A m, k \in 1..Len(q[s]) : at[m] = at[k] => m = k
        /\ \A k \in 1..Len(q[s]) : q[s][k] = queue[s][at[k]]
  BY DEF Thinned
<1>2. PICK bt \in [1..Len(q[t]) -> 1..Len(queue[t])] :
        \A k \in 1..Len(q[t]) : q[t][k] = queue[t][bt[k]]
  BY DEF Thinned
<1>3. at[i] \in 1..Len(queue[s]) /\ bt[j] \in 1..Len(queue[t])
  BY <1>1, <1>2
<1>4. queue[s][at[i]].id = queue[t][bt[j]].id
  BY <1>1, <1>2
<1>5. s = t /\ at[i] = bt[j]
  BY <1>3, <1>4 DEF GatewayInv, Alone
<1>6. j \in 1..Len(q[s]) /\ q[s][j] = q[t][j]
  BY <1>5
<1>7. queue[s][at[i]].id = queue[s][at[j]].id /\ at[j] \in 1..Len(queue[s])
  BY <1>1, <1>6
<1>8. \A m, n \in 1..Len(queue[s]) : queue[s][m].id = queue[s][n].id => m = n
  BY DEF GatewayInv, Alone
<1> QED BY <1>1, <1>3, <1>5, <1>6, <1>7, <1>8

\* A step of r after which the book holds less, and nothing of r.
LEMMA ThinningStep ==
  ASSUME GatewayInv, NEW r \in Requests, Types', NEW q, Thinned(q), queue' = q, payload' = payload,
         last_nonce' = last_nonce, Others(r), Coherent(r)', CancelsOwn', pc[r] # "done",
         \A x \in Requests \ {r} : got'[x] = got[x],
         \A s \in Sides : \A k \in 1..Len(q[s]) : q[s][k].req # r
  PROVE  GatewayInv'
<1>1. \A x \in Requests : Coherent(x)'
  <2> TAKE x \in Requests
  <2>1. CASE x = r
    BY <2>1
  <2>2. CASE x # r
    BY <2>2, CoherentFrame
  <2> QED BY <2>1, <2>2
<1>2. Slots'
  <2>1. ASSUME NEW s \in Sides, NEW k \in 1..Len(q[s]) PROVE Backed(queue[s][k], s)'
    <3>1. PICK e \in Entries : e = q[s][k] /\ Backed(e, s) /\ e.req # r
      BY ThinnedAt
    <3>2. e.req \in Requests \ {r}
      BY <3>1, EntryFields
    <3>3. Backed(e, s)'
      BY <3>1, <3>2, BackedFrame
    <3> QED BY <3>1, <3>3
  <2> QED BY <2>1 DEF Slots
<1>3. Alone'
  <2>1. \A s, t \in Sides : \A i \in 1..Len(q[s]) : \A j \in 1..Len(q[t]) :
          q[s][i].id = q[t][j].id => s = t /\ i = j
    BY ThinnedAlone
  <2> QED BY <2>1 DEF Alone
<1> QED BY <1>1, <1>2, <1>3, NoncesFrame DEF GatewayInv

LEMMA InSlotFacts ==
  ASSUME GatewayInv, NEW id, NEW e \in InSlot(id)
  PROVE  /\ e \in Entries /\ e.req \in Requests /\ pc[e.req] # "new"
         /\ payload[e.req].signer = e.owner
<1>1. PICK s \in Sides : \E i \in 1..Len(queue[s]) : e = queue[s][i]
  BY DEF InSlot
<1>2. e \in Entries /\ Backed(e, s)
  BY <1>1, EntryAt
<1> QED BY <1>2, EntryFields DEF Backed

LEMMA RescueCancelKeeps ==
  ASSUME GatewayInv, NEW r \in Requests, RescueCancel(r)
  PROVE  GatewayInv'
<1> DEFINE p == payload[r]
           old == result[r]
           qty == old.resting_qty
           more == WithBackstopFill(old, old.price, qty)
           new == [more EXCEPT !.resting_id = NIL, !.resting_qty = 0]
           q == Without(old.resting_id)
           found == InSlot(old.resting_id)
<1>1. /\ p \in Payloads /\ old \in Results /\ got[r] \in Nat /\ pc[r] = "cancel"
      /\ Staged(p, pc[r], old, response[r]) /\ Asked(p, pc[r], old, got[r]) /\ Fair(p, pc[r], old, got[r])
  BY HandledFacts DEF RescueCancel
<1>2. p.kind = "order" /\ response[r] = "none" /\ p.tif = "GTC" /\ old.outcome = "accepted"
      /\ qty > 0 /\ old.price \in Nat
  BY <1>1 DEF Staged
<1>3. qty \in Nat \ {0} /\ p.qty \in Nat
  BY <1>1, <1>2, PayloadFields DEF Results
<1>4. /\ UNCHANGED <<backstop, last_nonce, payload, polls>>
      /\ queue' = q /\ cancels' = cancels \cup {<<r, e.req>> : e \in found}
      /\ got' = [got EXCEPT ![r] = got[r] + qty] /\ PastMatching(r, new)
  BY DEF RescueCancel
<1>5. /\ got \in [Requests -> Nat] /\ queue \in [Sides -> Seq(Entries)]
  BY DEF GatewayInv, Types
<1>6. got' \in [Requests -> Nat] /\ got'[r] = got[r] + qty /\ \A x \in Requests \ {r} : got'[x] = got[x]
  BY <1>1, <1>3, <1>4, <1>5
<1>7. Thinned(q) /\ \A s \in Sides : \A k \in 1..Len(q[s]) : q[s][k].id # old.resting_id
  BY <1>5, WithoutThins
<1> HIDE DEF q
<1>8. \A s \in Sides : \A k \in 1..Len(q[s]) : q[s][k].req # r
  BY <1>7, ThinnedAt DEF Backed
<1>9. \A c \in {<<r, e.req>> : e \in found} :
        c \in Requests \X Requests /\ c[1] = r /\ pc[c[2]] # "new"
  BY InSlotFacts
<1> HIDE DEF found
<1>10. /\ new \in Results /\ new.outcome = "accepted" /\ new.fills = more.fills
       /\ new.fills # <<>> /\ \E k \in 1..Len(new.fills) : new.fills[k].maker = BACKSTOP
       /\ \A k \in 1..Len(new.fills) :
            new.fills[k].maker = BACKSTOP \/ (k \in 1..Len(old.fills) /\ new.fills[k] = old.fills[k])
  <2>1. more = WithBackstopFill(old, old.price, qty)
    OBVIOUS
  <2> HIDE DEF more
  <2>2. Pushed(more, old)
    <3> HIDE DEF old, qty
    <3> QED BY <1>1, <1>2, <1>3, <2>1, BackstopFillAdded, Zenon
  <2>3. /\ new \in Results /\ new.outcome = more.outcome /\ new.fills = more.fills
    BY <2>2 DEF Pushed, Results
  <2> HIDE DEF new
  <2> QED BY <1>2, <2>2, <2>3 DEF Pushed
<1> HIDE DEF new, more
<1>11. /\ result' \in [Requests -> Results] /\ pc' \in [Requests -> Stages]
       /\ DOMAIN response' = Requests
       /\ Others(r) /\ result'[r] = new /\ pc'[r] = "record" /\ response'[r] = "none"
  BY <1>2, <1>4, <1>10, PastMatchingFacts
<1>12. cancels' \subseteq Requests \X Requests
  <2>1. cancels \subseteq Requests \X Requests
    BY DEF GatewayInv, Types
  <2> QED BY <1>4, <1>9, <2>1
<1>13. Types'
  <2>1. queue' \in [Sides -> Seq(Entries)]
    BY <1>4, <1>7 DEF Thinned
  <2> QED BY <1>4, <1>6, <1>11, <1>12, <2>1 DEF GatewayInv, Types
<1>14. Staged(p, "record", new, "none") /\ Asked(p, "record", new, got'[r])
  BY <1>1, <1>2, <1>10, PastMatchingStaged
<1>15. \A k \in 1..Len(new.fills) :
         new.fills[k].maker # BACKSTOP => Crosses(p.side, p.tick, new.fills[k].price)
  BY <1>1, <1>2, <1>10 DEF Fair
<1>16. Fair(p, "record", new, got'[r])
  BY <1>2, <1>10, <1>15 DEF Fair
<1>17. Coherent(r)'
  BY <1>4, <1>11, <1>14, <1>16 DEF Coherent
<1>18. CancelsOwn'
  <2>1. \A x \in Requests : pc[x] # "new" => pc'[x] # "new"
    BY <1>11 DEF Others
  <2>2. \A c \in cancels : c[1] \in Requests /\ c[2] \in Requests /\ pc[c[1]] # "new" /\ pc[c[2]] # "new"
    BY DEF GatewayInv, Types, CancelsOwn
  <2>3. \A c \in cancels : pc'[c[1]] # "new" /\ pc'[c[2]] # "new"
    BY <2>1, <2>2
  <2>4. \A c \in {<<r, e.req>> : e \in found} : pc'[c[1]] # "new" /\ pc'[c[2]] # "new" /\ payload[c[1]].kind # "cancel"
    BY <1>2, <1>9, <1>11, <2>1
  <2>5. \A c \in cancels : payload[c[1]].kind = "cancel" => payload[c[1]].signer = payload[c[2]].signer
    BY DEF GatewayInv, CancelsOwn
  <2> QED BY <1>4, <2>3, <2>4, <2>5 DEF CancelsOwn
<1> HIDE DEF p, old, qty
<1> QED BY <1>1, <1>4, <1>6, <1>7, <1>8, <1>11, <1>13, <1>17, <1>18, ThinningStep

LEMMA AllThin ==
  ASSUME queue \in [Sides -> Seq(Entries)]
  PROVE  Thinned(queue)
<1>1. \A s \in Sides : \E at \in [1..Len(queue[s]) -> 1..Len(queue[s])] :
        /\ \A j, k \in 1..Len(queue[s]) : at[j] = at[k] => j = k
        /\ \A k \in 1..Len(queue[s]) : queue[s][k] = queue[s][at[k]]
  <2> TAKE s \in Sides
  <2> WITNESS [k \in 1..Len(queue[s]) |-> k] \in [1..Len(queue[s]) -> 1..Len(queue[s])]
  <2> QED OBVIOUS
<1> QED BY <1>1 DEF Thinned

LEMMA CancelOrderKeeps ==
  ASSUME GatewayInv, NEW r \in Requests, CancelOrder(r)
  PROVE  GatewayInv'
<1> DEFINE p == payload[r]
           here == InSlot(p.order_id)
           mine == {e \in here : Owned(e, p.signer)}
           answer == IF here = {} THEN "not_found" ELSE IF mine = {} THEN "not_order_owner"
                     ELSE "cancelled"
           q == IF mine = {} THEN queue ELSE Without(p.order_id)
<1>1. /\ p \in Payloads /\ result[r] \in Results /\ pc[r] = "books" /\ p.kind = "cancel"
      /\ Staged(p, pc[r], result[r], response[r]) /\ Fair(p, pc[r], result[r], got[r])
  BY HandledFacts DEF CancelOrder
<1>2. /\ UNCHANGED <<backstop, last_nonce, payload, result, got, polls>>
      /\ queue' = q /\ cancels' = cancels \cup {<<r, e.req>> : e \in mine}
      /\ pc' = [pc EXCEPT ![r] = "done"] /\ response' = [response EXCEPT ![r] = answer]
  BY DEF CancelOrder, Respond
<1>3. queue \in [Sides -> Seq(Entries)]
  BY DEF GatewayInv, Types
<1>4. Thinned(q)
  BY <1>3, AllThin, WithoutThins
<1>5. answer \notin {"none", "rejected"}
  OBVIOUS
<1>6. \A c \in {<<r, e.req>> : e \in mine} :
        c \in Requests \X Requests /\ c[1] = r /\ pc[c[2]] # "new" /\ payload[c[2]].signer = p.signer
  BY InSlotFacts DEF Owned
<1> HIDE DEF q, answer, mine
<1>7. \A s \in Sides : \A k \in 1..Len(q[s]) : q[s][k].req # r
  BY <1>1, <1>4, ThinnedAt DEF Backed
<1>8. cancels' \subseteq Requests \X Requests
  <2>1. cancels \subseteq Requests \X Requests
    BY DEF GatewayInv, Types
  <2> QED BY <1>2, <1>6, <2>1
<1>9. Others(r) /\ pc'[r] = "done" /\ response'[r] = answer
  BY <1>2 DEF Others, GatewayInv, Types
<1>10. Types'
  <2>1. queue' \in [Sides -> Seq(Entries)]
    BY <1>2, <1>4 DEF Thinned
  <2> QED BY <1>2, <1>8, <2>1 DEF GatewayInv, Types, Stages
<1>11. p # NoPayload
  BY <1>1, PayloadFields
<1>12. /\ Staged(p, "done", result[r], answer) /\ Asked(p, "done", result[r], got[r])
       /\ Fair(p, "done", result[r], got[r])
  BY <1>1, <1>5, <1>11 DEF Staged, Asked, Fair
<1>13. Coherent(r)'
  BY <1>2, <1>9, <1>12 DEF Coherent
<1>14. CancelsOwn'
  <2>1. \A x \in Requests : pc[x] # "new" => pc'[x] # "new"
    BY <1>9 DEF Others
  <2>2. \A c \in cancels : c[1] \in Requests /\ c[2] \in Requests /\ pc[c[1]] # "new" /\ pc[c[2]] # "new"
    BY DEF GatewayInv, Types, CancelsOwn
  <2>3. \A c \in cancels : pc'[c[1]] # "new" /\ pc'[c[2]] # "new"
    BY <2>1, <2>2
  <2>4. \A c \in {<<r, e.req>> : e \in mine} :
          pc'[c[1]] # "new" /\ pc'[c[2]] # "new" /\ payload[c[1]].signer = payload[c[2]].signer
    BY <1>6, <1>9, <2>1
  <2>5. \A c \in cancels : payload[c[1]].kind = "cancel" => payload[c[1]].signer = payload[c[2]].signer
    BY DEF GatewayInv, CancelsOwn
  <2> QED BY <1>2, <2>3, <2>4, <2>5 DEF CancelsOwn
<1> HIDE DEF p
<1> QED BY <1>1, <1>2, <1>4, <1>7, <1>9, <1>10, <1>13, <1>14, ThinningStep

-----------------------------------------------------------------------------
(* A request comes in *)

LEMMA ReceiveKeeps ==
  ASSUME GatewayInv, NEW r \in Requests, NEW p \in Payloads, Receive(r, p)
  PROVE  GatewayInv'
<1>1. /\ pc[r] = "new" /\ payload' = [payload EXCEPT ![r] = p]
      /\ UNCHANGED <<queue, backstop, result, got, cancels, polls>>
  BY DEF Receive
<1>2. PICK stage \in {"collateral", "books", "done"},
            answer \in {"none", "nonce_replay", "invalid_tick"} :
        /\ pc' = [pc EXCEPT ![r] = stage] /\ DOMAIN response' = Requests
        /\ \A x \in Requests : response'[x] = IF x = r THEN answer ELSE response[x]
        /\ stage = "collateral" => p.kind = "order"
        /\ stage = "done" => answer \in {"nonce_replay", "invalid_tick"}
        /\ stage # "done" => answer = "none"
        /\ IF Replayed(p) THEN answer = "nonce_replay" /\ last_nonce' = last_nonce
           ELSE answer # "nonce_replay" /\ last_nonce' = [last_nonce EXCEPT ![p.signer] = p.nonce]
  <2>0. DOMAIN response = Requests /\ response[r] = "none"
    BY <1>1 DEF GatewayInv, Types, Coherent, Staged
  <2>1. CASE Replayed(p)
    <3>1. /\ pc' = [pc EXCEPT ![r] = "done"] /\ response' = [response EXCEPT ![r] = "nonce_replay"]
          /\ last_nonce' = last_nonce
      BY <2>1 DEF Receive, Respond
    <3>2. DOMAIN response' = Requests /\ \A x \in Requests : response'[x] = IF x = r THEN "nonce_replay" ELSE response[x]
      BY <2>0, <3>1
    <3> QED BY <2>1, <3>1, <3>2
  <2>2. CASE ~Replayed(p) /\ (p.kind # "cancel" /\ p.tick > MaxSaneTick)
    <3>1. /\ pc' = [pc EXCEPT ![r] = "done"] /\ response' = [response EXCEPT ![r] = "invalid_tick"]
          /\ last_nonce' = [last_nonce EXCEPT ![p.signer] = p.nonce]
      BY <2>2 DEF Receive, Respond
    <3>2. DOMAIN response' = Requests /\ \A x \in Requests : response'[x] = IF x = r THEN "invalid_tick" ELSE response[x]
      BY <2>0, <3>1
    <3> QED BY <2>2, <3>1, <3>2
  <2>3. CASE ~Replayed(p) /\ ~(p.kind # "cancel" /\ p.tick > MaxSaneTick)
    <3>1. /\ pc' = [pc EXCEPT ![r] = IF p.kind = "order" THEN "collateral" ELSE "books"]
          /\ response' = response /\ last_nonce' = [last_nonce EXCEPT ![p.signer] = p.nonce]
      BY <2>3 DEF Receive
    <3>2. DOMAIN response' = Requests /\ \A x \in Requests : response'[x] = IF x = r THEN "none" ELSE response[x]
      BY <2>0, <3>1
    <3> QED BY <2>3, <3>1, <3>2
  <2> QED BY <2>1, <2>2, <2>3
<1>3. /\ p.signer \in Signers /\ p.nonce \in Nonces /\ p.nonce \in Nat /\ p # NoPayload
      /\ Nonces \subseteq Nat
  BY PayloadFields, GatewayAssumption DEF GatewayAssumption
<1>4. /\ payload \in [Requests -> Payloads \cup {NoPayload}] /\ pc \in [Requests -> Stages]
      /\ last_nonce \in [Signers -> Nonces \cup {0}]
  BY DEF GatewayInv, Types
<1>5. /\ payload' \in [Requests -> Payloads \cup {NoPayload}] /\ pc' \in [Requests -> Stages]
      /\ last_nonce' \in [Signers -> Nonces \cup {0}]
  BY <1>1, <1>2, <1>3, <1>4 DEF Stages
<1>5a. \A s \in Signers : last_nonce[s] \in Nat /\ last_nonce'[s] \in Nat
  <2>1. \A v \in Nonces \cup {0} : v \in Nat
    BY <1>3
  <2>2. \A s \in Signers : last_nonce[s] \in Nonces \cup {0} /\ last_nonce'[s] \in Nonces \cup {0}
    BY <1>4, <1>5
  <2> QED BY <2>1, <2>2, Zenon
<1>6. Types'
  BY <1>1, <1>2, <1>5 DEF GatewayInv, Types
<1>7. Others(r) /\ pc'[r] = stage /\ response'[r] = answer /\ payload'[r] = p
      /\ \A x \in Requests \ {r} : payload'[x] = payload[x]
  BY <1>1, <1>2, <1>4 DEF Others
<1>8. Coherent(r)'
  <2>1. Staged(payload[r], "new", result[r], response[r]) /\ Fair(payload[r], "new", result[r], got[r])
    BY <1>1 DEF GatewayInv, Coherent
  <2>2. result[r] = NoResult /\ got[r] = 0
    BY <2>1 DEF Staged, Fair
  <2>3. NoResult.outcome = "accepted" /\ NoResult.fills = <<>> /\ Len(NoResult.fills) = 0
    BY DEF NoResult
  <2>4. Staged(p, stage, result[r], answer)
    BY <1>2, <1>3, <2>2, <2>3 DEF Staged
  <2>5. Asked(p, stage, result[r], got[r])
    BY DEF Asked
  <2>6. p.kind \in {"order", "offer"} => p.qty \in Nat
    BY PayloadFields
  <2>7. Fair(p, stage, result[r], got[r])
    BY <2>2, <2>3, <2>6 DEF Fair
  <2> QED BY <1>1, <1>7, <2>4, <2>5, <2>7 DEF Coherent
<1>9. \A x \in Requests : Coherent(x)'
  <2> TAKE x \in Requests
  <2>1. CASE x = r
    BY <1>8, <2>1
  <2>2. CASE x # r
    BY <1>1, <1>7, <2>2, CoherentFrame
  <2> QED BY <2>1, <2>2
<1>10. Slots'
  <2>1. ASSUME NEW s \in Sides, NEW i \in 1..Len(queue[s]) PROVE Backed(queue[s][i], s)'
    <3>1. PICK e \in Entries : e = queue[s][i] /\ Backed(e, s)
      BY EntryAt
    <3>2. e.req \in Requests /\ e.req # r
      BY <1>1, <3>1, EntryFields DEF Backed
    <3>3. Backed(e, s)'
      BY <1>1, <1>7, <3>1, <3>2, BackedFrame
    <3> QED BY <1>1, <3>1, <3>3
  <2> QED BY <1>1, <2>1 DEF Slots
<1>11. Alone'
  BY <1>1 DEF GatewayInv, Alone
<1>12. CancelsOwn'
  <2>1. \A x \in Requests : pc[x] # "new" => pc'[x] # "new" /\ payload'[x] = payload[x]
    BY <1>1, <1>2, <1>7 DEF Others
  <2>2. \A c \in cancels :
          /\ c[1] \in Requests /\ c[2] \in Requests /\ pc[c[1]] # "new" /\ pc[c[2]] # "new"
          /\ payload[c[1]].kind = "cancel" => payload[c[1]].signer = payload[c[2]].signer
    BY DEF GatewayInv, Types, CancelsOwn
  <2> QED BY <1>1, <2>1, <2>2 DEF CancelsOwn
<1>13. \A x \in Requests \ {r} : payload[x] # NoPayload => payload[x].signer \in Signers /\ payload[x].nonce \in Nat
  BY <1>4, PayloadFields
<1>14. NoncesSeen' /\ (~Replayed(p) => \A x \in Requests \ {r} :
         (payload[x] # NoPayload /\ response[x] # "nonce_replay" /\ payload[x].signer = p.signer)
           => payload[x].nonce # p.nonce)
  <2>1. \A x \in Requests : (payload[x] # NoPayload /\ response[x] # "nonce_replay")
          => payload[x].nonce <= last_nonce[payload[x].signer]
    BY DEF GatewayInv, NoncesSeen
  <2>2. last_nonce[p.signer] \in Nat
    BY <1>3, <1>5a
  <2>3. ~Replayed(p) => p.nonce > last_nonce[p.signer]
    BY <1>3, <2>2 DEF Replayed
  <2>4. \A x \in Requests \ {r} : payload[x] # NoPayload =>
          last_nonce[payload[x].signer] <= last_nonce'[payload[x].signer]
    <3> TAKE x \in Requests \ {r}
    <3>1. payload[x] # NoPayload => last_nonce[payload[x].signer] \in Nat
      BY <1>5a, <1>13
    <3> QED BY <1>2, <1>3, <1>4, <1>13, <2>2, <2>3, <3>1
  <2>5. \A x \in Requests \ {r} : payload[x] # NoPayload =>
          last_nonce[payload[x].signer] \in Nat /\ last_nonce'[payload[x].signer] \in Nat
    BY <1>5a, <1>13
  <2>6. NoncesSeen'
    <3>1. \A x \in Requests \ {r} : (payload[x] # NoPayload /\ response[x] # "nonce_replay")
            => payload[x].nonce <= last_nonce'[payload[x].signer]
      BY <1>13, <2>1, <2>4, <2>5
    <3>2. answer # "nonce_replay" => p.nonce <= last_nonce'[p.signer]
      BY <1>2, <1>3, <1>4
    <3> QED BY <1>7, <3>1, <3>2 DEF NoncesSeen, Others
  <2>7. ~Replayed(p) => \A x \in Requests \ {r} :
         (payload[x] # NoPayload /\ response[x] # "nonce_replay" /\ payload[x].signer = p.signer)
           => payload[x].nonce # p.nonce
    BY <1>3, <1>13, <2>1, <2>2, <2>3
  <2> QED BY <2>6, <2>7
<1>15. NoReplay'
  <2>1. NoPayload.kind = "none"
    BY DEF NoPayload
  <2>2. Replayed(p) => answer = "nonce_replay"
    BY <1>2
  <2>3. \A x \in Requests \ {r} :
          (payload[x].kind # "none" /\ payload[x].signer = p.signer /\ payload[x].nonce = p.nonce)
            => "nonce_replay" \in {answer, response[x]}
    BY <1>14, <2>1, <2>2
  <2>4. NoReplay
    BY DEF GatewayInv
  <2> QED BY <1>7, <2>3, <2>4 DEF NoReplay, Others
<1> QED BY <1>6, <1>9, <1>10, <1>11, <1>12, <1>14, <1>15 DEF GatewayInv

-----------------------------------------------------------------------------
(* A submit *)

LEMMA OppositeSide ==
  ASSUME NEW s \in Sides
  PROVE  Opposite(s) \in Sides /\ Opposite(s) # s /\ \A t \in Sides : t = s \/ t = Opposite(s)
BY DEF Sides, Opposite

\* A request has one order in the book at most.
LEMMA OneEntry ==
  ASSUME GatewayInv, NEW s \in Sides, NEW t \in Sides, NEW i \in 1..Len(queue[s]),
         NEW j \in 1..Len(queue[t]), queue[s][i].req = queue[t][j].req
  PROVE  s = t /\ i = j
<1>1. Backed(queue[s][i], s) /\ Backed(queue[t][j], t)
  BY EntryAt
<1>2. queue[s][i].id = queue[t][j].id
  BY <1>1 DEF Backed
<1> QED BY <1>2 DEF GatewayInv, Alone

LEMMA SumOne ==
  ASSUME NEW f, NEW i, f[i] \in Int
  PROVE  SumFunctionOnSet(f, {i}) = f[i]
<1>1. IsFiniteSet({i}) /\ {i} \ {i} = {}
  BY FS_Singleton
<1>2. SumFunctionOnSet(f, {i}) = f[i] + SumFunctionOnSet(f, {i} \ {i})
  BY <1>1, SumRemove
<1>3. SumFunctionOnSet(f, {}) = 0
  BY SumEmpty
<1> QED BY <1>1, <1>2, <1>3

\* What a submit of r trades for every request.
TradedBy(g, r, t, s) ==
  /\ g \in [Requests -> Nat]
  /\ \A i \in 1..Len(queue[t]) : queue[t][i].req # r =>
       g[queue[t][i].req] = got[queue[t][i].req] + s.taken[i]
  /\ \A x \in Requests : (\A i \in 1..Len(queue[t]) : queue[t][i].req # x) =>
       g[x] = got[x] + (IF x = r THEN s.filled ELSE 0)

LEMMA TradedFacts ==
  ASSUME GatewayInv, NEW r \in Requests, NEW t \in Sides, NEW s, s.makers = queue[t],
         s.taken \in [1..Len(queue[t]) -> Nat], s.filled \in Nat, NEW g, g = Traded(s, r)
  PROVE  TradedBy(g, r, t, s)
<1> DEFINE of(x) == {i \in 1..Len(queue[t]) : queue[t][i].req = x}
           sum(x) == SumFunctionOnSet(s.taken, of(x))
<1>1. got \in [Requests -> Nat] /\ queue[t] \in Seq(Entries)
  BY DEF GatewayInv, Types
<1>2. Len(queue[t]) \in Nat
  BY <1>1
<1>3. \A x \in Requests : sum(x) \in Nat
  <2> TAKE x \in Requests
  <2>1. of(x) \subseteq 1..Len(queue[t])
    OBVIOUS
  <2>2. \A i \in of(x) : s.taken[i] \in Nat
    OBVIOUS
  <2> HIDE DEF of
  <2>3. IsFiniteSet(of(x))
    BY <1>2, <2>1, FinitePart, Zenon
  <2> QED BY <2>2, <2>3, SumNat
<1>4. \A x \in Requests : g[x] = got[x] + (IF x = r THEN s.filled ELSE 0) + sum(x)
  BY DEF Traded
<1>5. g \in [Requests -> Nat]
  <2>1. g = [x \in Requests |-> got[x] + (IF x = r THEN s.filled ELSE 0) + sum(x)]
    BY DEF Traded
  <2> HIDE DEF sum
  <2> QED BY <1>1, <1>3, <2>1
<1>6. ASSUME NEW i \in 1..Len(queue[t]), queue[t][i].req # r
      PROVE  g[queue[t][i].req] = got[queue[t][i].req] + s.taken[i]
  <2>1. PICK x \in Requests : x = queue[t][i].req
    BY <1>1, EntryFields
  <2>2. of(x) = {i}
    BY <2>1, OneEntry
  <2>3. s.taken[i] \in Int
    OBVIOUS
  <2> HIDE DEF of
  <2>4. sum(x) = s.taken[i]
    BY <2>2, <2>3, SumOne
  <2> QED BY <1>1, <1>4, <1>6, <2>1, <2>3, <2>4
<1>7. ASSUME NEW x \in Requests, \A i \in 1..Len(queue[t]) : queue[t][i].req # x
      PROVE  g[x] = got[x] + (IF x = r THEN s.filled ELSE 0)
  <2>1. of(x) = {}
    BY <1>7
  <2>2. sum(x) = 0
    BY <2>1, SumEmpty
  <2> HIDE DEF sum
  <2> QED BY <1>1, <1>4, <2>2
<1> QED BY <1>5, <1>6, <1>7 DEF TradedBy

\* The order of request r that goes to the matching.
LEMMA SweepFacts ==
  ASSUME GatewayInv, NEW r \in Requests, pc[r] = "books", payload[r].kind \in {"order", "offer"},
         NEW s, s = Sweep(r), NEW o, o = AsNewOrder(payload[r])
  PROVE  /\ SweepOf(s, queue[Opposite(payload[r].side)], o) /\ SweepEnd(s, queue[Opposite(payload[r].side)], o)
         /\ o.side = payload[r].side /\ o.tick = payload[r].tick /\ o.qty = payload[r].qty
         /\ o.tif = payload[r].tif /\ o.post_only = payload[r].post_only
         /\ payload[r].side \in Sides /\ payload[r].tick \in Nat /\ payload[r].qty \in Nat
         /\ Opposite(payload[r].side) \in Sides
<1>1. payload[r] \in Payloads
  BY HandledFacts
<1>2. payload[r].side \in Sides /\ payload[r].tick \in Nat /\ payload[r].qty \in Nat
  BY <1>1, PayloadFields
<1>3. o.side = payload[r].side /\ o.tick = payload[r].tick /\ o.qty = payload[r].qty /\ o.tif = payload[r].tif
  BY DEF AsNewOrder
<1>4. o.post_only = payload[r].post_only
  BY DEF AsNewOrder
<1>5. payload[r].post_only \in BOOLEAN
  BY <1>1, PostOnlyFlag
<1>6. o.post_only \in BOOLEAN
  BY <1>4, <1>5, Zenon
<1>7. Opposite(payload[r].side) \in Sides
  BY <1>2, OppositeSide
<1>8. queue[Opposite(payload[r].side)] \in Seq(Entries)
  BY <1>7 DEF GatewayInv, Types
<1>9. s = Submitted(queue[Opposite(payload[r].side)], o)
  BY DEF Sweep
<1>10. o.qty \in Nat
  BY <1>2, <1>3
<1>11. SweepOf(s, queue[Opposite(payload[r].side)], o) /\ SweepEnd(s, queue[Opposite(payload[r].side)], o)
  BY <1>6, <1>8, <1>9, <1>10, SubmittedFacts, Zenon
<1> QED BY <1>2, <1>3, <1>4, <1>7, <1>11, Zenon

Newcomer(r, s, id) ==
  [id |-> id, tick |-> payload[r].tick, qty |-> payload[r].qty - s.filled,
   owner |-> payload[r].signer, expiry |-> Never, req |-> r]

\* Where the orders of the two queues stood before a submit of r.
Arranged(r, s, id, q, at, bt) ==
  LET side == payload[r].side
      opp  == Opposite(payload[r].side)
  IN
  /\ q \in [Sides -> Seq(Entries)] /\ q[opp] = s.left
  /\ LeftBy(at, q[opp], queue[opp], s.taken)
  /\ AddedBy(bt, q[side], queue[side], Newcomer(r, s, id))
  /\ \A k \in 1..Len(q[side]) : bt[k] = 0 => s.rests

LEMMA SubmitArranges ==
  ASSUME GatewayInv, NEW r \in Requests, pc[r] = "books", payload[r].kind \in {"order", "offer"},
         NEW s, s = Sweep(r), NEW id \in FreeSlots(r, s), SubmitBook(r, s, id)
  PROVE  /\ \E at, bt : Arranged(r, s, id, queue', at, bt)
         /\ s.rests => Newcomer(r, s, id) \in Entries /\ id \in Ids
<1> DEFINE p == payload[r]
           side == p.side
           opp == Opposite(p.side)
           o == AsNewOrder(p)
           e == Newcomer(r, s, id)
<1>1. /\ SweepOf(s, queue[opp], o) /\ SweepEnd(s, queue[opp], o)
      /\ o.qty = p.qty /\ side \in Sides /\ p.tick \in Nat /\ p.qty \in Nat /\ opp \in Sides
  BY SweepFacts
<1>2. opp # side /\ \A t \in Sides : t = side \/ t = opp
  BY <1>1, OppositeSide
<1>3. queue \in [Sides -> Seq(Entries)]
  BY DEF GatewayInv, Types
<1>4. queue' = [queue EXCEPT ![opp] = s.left,
                             ![side] = IF ~s.rests THEN queue[side] ELSE Queued(queue[side], side, e)]
  BY DEF SubmitBook, Newcomer
<1>5. s.rests => e \in Entries /\ id \in Ids
  <2> SUFFICES ASSUME s.rests PROVE e \in Entries /\ id \in Ids
    OBVIOUS
  <2>1. s.filled \in Nat /\ s.filled < p.qty
    BY <1>1 DEF SweepOf, SweepEnd
  <2>2. p.qty - s.filled \in Nat \ {0}
    BY <1>1, <2>1
  <2>3. id \in Ids
    BY DEF FreeSlots
  <2>4. p.signer \in Signers
    BY HandledFacts, PayloadFields
  <2> QED BY <1>1, <2>2, <2>3, <2>4 DEF Newcomer, Entries
<1>6. s.left \in Seq(Entries)
  BY <1>1 DEF SweepOf
<1>7. PICK at : LeftBy(at, s.left, queue[opp], s.taken)
  BY <1>1 DEF SweepOf
<1> HIDE DEF e, opp, side
<1>8. \E bt, own : /\ own = (IF ~s.rests THEN queue[side] ELSE Queued(queue[side], side, e))
                   /\ own \in Seq(Entries) /\ AddedBy(bt, own, queue[side], e)
                   /\ \A k \in 1..Len(own) : bt[k] = 0 => s.rests
  <2>1. PICK old \in Seq(Entries) : old = queue[side]
    BY <1>1, <1>3
  <2>2. CASE s.rests
    <3>1. PICK new : new = e /\ new \in Entries
      BY <1>5, <2>2
    <3>2. Queued(old, side, new) \in Seq(Entries) /\ \E bt : AddedBy(bt, Queued(old, side, new), old, new)
      BY <3>1, QueuedFacts
    <3> QED BY <2>1, <2>2, <3>1, <3>2
  <2>3. CASE ~s.rests
    <3> DEFINE bt == [k \in 1..Len(old) |-> k]
    <3>1. Len(old) \in Nat /\ \A k \in 1..Len(old) : bt[k] = k /\ k # 0
      OBVIOUS
    <3>2. bt \in [1..Len(old) -> 0..Len(old)]
      OBVIOUS
    <3> HIDE DEF bt
    <3>3. AddedBy(bt, old, old, e)
      BY <3>1, <3>2 DEF AddedBy
    <3> QED BY <2>1, <2>3, <3>1, <3>3
  <2> QED BY <2>2, <2>3
<1>9. PICK bt, own : /\ own = (IF ~s.rests THEN queue[side] ELSE Queued(queue[side], side, e))
                     /\ own \in Seq(Entries) /\ AddedBy(bt, own, queue[side], e)
                     /\ \A k \in 1..Len(own) : bt[k] = 0 => s.rests
  BY <1>8
<1>10. queue' = [queue EXCEPT ![opp] = s.left, ![side] = own]
  BY <1>4, <1>9
<1>11. queue' \in [Sides -> Seq(Entries)] /\ queue'[opp] = s.left /\ queue'[side] = own
  BY <1>1, <1>2, <1>3, <1>6, <1>9, <1>10
<1>12. Arranged(r, s, id, queue', at, bt)
  BY <1>7, <1>9, <1>11 DEF Arranged, e, opp, side
<1> QED BY <1>5, <1>12 DEF e

\* Where an order in the book after the submit comes from.
CutFrom(left, s, opp, at, k) ==
  /\ at[k] \in 1..Len(queue[opp])
  /\ s.taken[at[k]] \in Nat /\ s.taken[at[k]] <= queue[opp][at[k]].qty
  /\ left[k] \in Entries /\ left[k].id = queue[opp][at[k]].id
  /\ left[k].req = queue[opp][at[k]].req
  /\ left[k].owner = queue[opp][at[k]].owner
  /\ left[k].qty = queue[opp][at[k]].qty - s.taken[at[k]]

LEMMA ArrangedOpposite ==
  ASSUME GatewayInv, NEW r \in Requests, payload[r].side \in Sides,
         NEW opp, opp = Opposite(payload[r].side),
         NEW s, s.taken \in [1..Len(queue[opp]) -> Nat],
         NEW id, NEW q, NEW at, NEW bt, Arranged(r, s, id, q, at, bt), NEW k \in 1..Len(q[opp])
  PROVE  CutFrom(q[opp], s, opp, at, k)
<1>1. opp \in Sides
  BY OppositeSide
<1>2. queue[opp] \in Seq(Entries)
  BY <1>1 DEF GatewayInv, Types
<1>3. LeftBy(at, q[opp], queue[opp], s.taken)
  BY DEF Arranged
<1>4. /\ at[k] \in 1..Len(queue[opp]) /\ s.taken[at[k]] < queue[opp][at[k]].qty
      /\ q[opp][k] = [queue[opp][at[k]] EXCEPT !.qty = queue[opp][at[k]].qty - s.taken[at[k]]]
  BY <1>3 DEF LeftBy
<1>5. PICK old \in Entries : old = queue[opp][at[k]]
  BY <1>2, <1>4
<1>6. s.taken[at[k]] \in Nat
  BY <1>4
<1> DEFINE n == old.qty - s.taken[at[k]]
<1>7. n \in Nat \ {0} /\ n = old.qty - s.taken[at[k]] /\ s.taken[at[k]] <= old.qty
  BY <1>4, <1>5, <1>6, EntryFields
<1>8. q[opp][k] = [old EXCEPT !.qty = n]
  BY <1>4, <1>5
<1> HIDE DEF n
<1>9. /\ q[opp][k] \in Entries /\ q[opp][k].qty = n /\ q[opp][k].id = old.id
      /\ q[opp][k].owner = old.owner /\ q[opp][k].req = old.req
  BY <1>7, <1>8, EntryCut
<1> QED BY <1>4, <1>5, <1>6, <1>7, <1>9 DEF CutFrom

LEMMA ArrangedOwn ==
  ASSUME GatewayInv, NEW r \in Requests, NEW side \in Sides, side = payload[r].side,
         NEW s, NEW id, NEW q, NEW at, NEW bt, Arranged(r, s, id, q, at, bt), NEW k \in 1..Len(q[side])
  PROVE  \/ s.rests /\ q[side][k] = Newcomer(r, s, id) /\ bt[k] = 0
         \/ bt[k] \in 1..Len(queue[side]) /\ q[side][k] = queue[side][bt[k]]
<1>1. Len(queue[side]) \in Nat
  BY DEF GatewayInv, Types
<1>2. /\ AddedBy(bt, q[side], queue[side], Newcomer(r, s, id))
      /\ \A j \in 1..Len(q[side]) : bt[j] = 0 => s.rests
  BY DEF Arranged
<1>3. /\ bt[k] \in 0..Len(queue[side])
      /\ q[side][k] = IF bt[k] = 0 THEN Newcomer(r, s, id) ELSE queue[side][bt[k]]
  BY <1>2 DEF AddedBy
<1> QED BY <1>1, <1>2, <1>3

\* A slot that is free holds nobody else.
Distinct(q) ==
  \A t, u \in Sides : \A i \in 1..Len(q[t]) : \A j \in 1..Len(q[u]) :
    q[t][i].id = q[u][j].id => t = u /\ i = j

LEMMA SubmitAlone ==
  ASSUME GatewayInv, NEW r \in Requests, payload[r].side \in Sides,
         NEW s, s.taken \in [1..Len(queue[Opposite(payload[r].side)]) -> Nat],
         NEW id \in FreeSlots(r, s), s.rests => Newcomer(r, s, id) \in Entries,
         NEW q, NEW at, NEW bt, Arranged(r, s, id, q, at, bt)
  PROVE  Distinct(q)
<1> SUFFICES ASSUME NEW t \in Sides, NEW u \in Sides, NEW i \in 1..Len(q[t]), NEW j \in 1..Len(q[u]),
                    q[t][i].id = q[u][j].id
             PROVE  t = u /\ i = j
  BY DEF Distinct
<1> DEFINE side == payload[r].side
           opp == Opposite(payload[r].side)
<1>1. opp \in Sides /\ opp # side /\ \A v \in Sides : v = side \/ v = opp
  BY OppositeSide
<1>2. /\ \A m, n \in 1..Len(q[opp]) : at[m] = at[n] => m = n
      /\ \A m, n \in 1..Len(q[side]) : bt[m] = bt[n] => m = n
      /\ q[opp] = s.left
  BY DEF Arranged, LeftBy, AddedBy
<1>3. ASSUME NEW k \in 1..Len(q[opp])
      PROVE  at[k] \in 1..Len(queue[opp]) /\ q[opp][k].id = queue[opp][at[k]].id
  BY ArrangedOpposite DEF CutFrom
<1>4. ASSUME NEW k \in 1..Len(q[side])
      PROVE  \/ s.rests /\ q[side][k].id = id /\ bt[k] = 0
             \/ bt[k] \in 1..Len(queue[side]) /\ q[side][k].id = queue[side][bt[k]].id
  <2>1. \/ s.rests /\ q[side][k] = Newcomer(r, s, id) /\ bt[k] = 0
        \/ bt[k] \in 1..Len(queue[side]) /\ q[side][k] = queue[side][bt[k]]
    BY ArrangedOwn
  <2>2. Newcomer(r, s, id).id = id
    BY DEF Newcomer
  <2> QED BY <2>1, <2>2
<1>5. s.rests => /\ \A k \in 1..Len(q[opp]) : q[opp][k].id # id
                 /\ \A k \in 1..Len(queue[side]) : queue[side][k].id # id
  BY <1>2 DEF FreeSlots, IdsOf
<1>6. /\ \A m \in 1..Len(queue[opp]), n \in 1..Len(queue[opp]) : queue[opp][m].id = queue[opp][n].id => m = n
      /\ \A m \in 1..Len(queue[side]), n \in 1..Len(queue[side]) : queue[side][m].id = queue[side][n].id => m = n
      /\ \A m \in 1..Len(queue[opp]), n \in 1..Len(queue[side]) : queue[opp][m].id # queue[side][n].id
  <2>1. side \in Sides
    OBVIOUS
  <2> HIDE DEF side, opp
  <2>2. \A v, w \in Sides : \A m \in 1..Len(queue[v]) : \A n \in 1..Len(queue[w]) :
          queue[v][m].id = queue[w][n].id => v = w /\ m = n
    BY DEF GatewayInv, Alone
  <2>3. \A m \in 1..Len(queue[opp]), n \in 1..Len(queue[opp]) : queue[opp][m].id = queue[opp][n].id => m = n
    BY <1>1, <2>2
  <2>4. \A m \in 1..Len(queue[side]), n \in 1..Len(queue[side]) : queue[side][m].id = queue[side][n].id => m = n
    BY <2>1, <2>2
  <2>5. \A m \in 1..Len(queue[opp]), n \in 1..Len(queue[side]) : queue[opp][m].id # queue[side][n].id
    BY <1>1, <2>1, <2>2
  <2> QED BY <2>3, <2>4, <2>5
<1> HIDE DEF side, opp
<1>7. \A m, n \in 1..Len(q[opp]) : q[opp][m].id = q[opp][n].id => m = n
  <2> TAKE m, n \in 1..Len(q[opp])
  <2>1. /\ at[m] \in 1..Len(queue[opp]) /\ q[opp][m].id = queue[opp][at[m]].id
        /\ at[n] \in 1..Len(queue[opp]) /\ q[opp][n].id = queue[opp][at[n]].id
    BY <1>3
  <2> QED BY <1>2, <1>6, <2>1
<1>8. \A m \in 1..Len(q[opp]), n \in 1..Len(q[side]) : q[opp][m].id # q[side][n].id
  <2> TAKE m \in 1..Len(q[opp]), n \in 1..Len(q[side])
  <2>1. at[m] \in 1..Len(queue[opp]) /\ q[opp][m].id = queue[opp][at[m]].id
    BY <1>3
  <2>2. CASE s.rests /\ q[side][n].id = id
    BY <1>5, <2>2
  <2>3. CASE bt[n] \in 1..Len(queue[side]) /\ q[side][n].id = queue[side][bt[n]].id
    <3>1. queue[opp][at[m]].id # queue[side][bt[n]].id
      BY <1>6, <2>1, <2>3
    <3> QED BY <2>1, <2>3, <3>1
  <2> QED BY <1>4, <2>2, <2>3
<1>9. \A m, n \in 1..Len(q[side]) : q[side][m].id = q[side][n].id => m = n
  <2> TAKE m, n \in 1..Len(q[side])
  <2>1. CASE bt[m] = 0 /\ bt[n] = 0
    BY <1>2, <2>1
  <2>2. CASE bt[m] \in 1..Len(queue[side]) /\ bt[n] \in 1..Len(queue[side])
        /\ q[side][m].id = queue[side][bt[m]].id /\ q[side][n].id = queue[side][bt[n]].id
    BY <1>2, <1>6, <2>2
  <2>3. CASE /\ s.rests /\ q[side][m].id = id
             /\ bt[n] \in 1..Len(queue[side]) /\ q[side][n].id = queue[side][bt[n]].id
    BY <1>5, <2>3
  <2>4. CASE /\ s.rests /\ q[side][n].id = id
             /\ bt[m] \in 1..Len(queue[side]) /\ q[side][m].id = queue[side][bt[m]].id
    BY <1>5, <2>4
  <2> QED BY <1>4, <2>1, <2>2, <2>3, <2>4
<1>10. CASE t = opp /\ u = opp
  BY <1>7, <1>10
<1>11. CASE t = opp /\ u = side
  BY <1>8, <1>11
<1>12. CASE t = side /\ u = opp
  <2>1. q[u][j].id # q[t][i].id
    BY <1>8, <1>12
  <2> QED BY <2>1
<1>13. CASE t = side /\ u = side
  BY <1>9, <1>13
<1> QED BY <1>1, <1>10, <1>11, <1>12, <1>13

\* A maker that gave part of its order still has at most the rest to give.
LEMMA MakerTraded ==
  ASSUME GatewayInv, NEW r \in Requests, NEW e \in Entries, NEW t \in Sides, Backed(e, t), e.req # r,
         Others(r), payload' = payload, NEW n \in Nat, n <= e.qty, got'[e.req] = got[e.req] + n
  PROVE  /\ Coherent(e.req)'
         /\ \A c \in Entries : (c.id = e.id /\ c.req = e.req /\ c.owner = e.owner /\ c.qty = e.qty - n)
              => Backed(c, t)'
<1> DEFINE x == e.req
           p == payload[e.req]
<1>1. x \in Requests /\ x # r /\ e.qty \in Nat
  BY EntryFields
<1>2. pc'[x] = pc[x] /\ result'[x] = result[x] /\ response'[x] = response[x] /\ payload'[x] = p
  BY <1>1 DEF Others
<1>3. /\ p.kind \in {"order", "offer"} /\ p.side = t /\ p.tif = "GTC" /\ p.signer = e.owner
      /\ pc[x] \in {"rescue", "cancel", "record", "fold", "done"}
      /\ pc[x] = "done" => response[x] \in {"resting", "timed_out"}
      /\ result[x].outcome = "accepted" /\ result[x].resting_id = e.id
      /\ got[x] + e.qty <= p.qty
  BY DEF Backed
<1>4. p \in Payloads /\ got[x] \in Nat
  BY <1>1, <1>3, HandledFacts
<1>5. p.qty \in Nat
  BY <1>3, <1>4, PayloadFields
<1>6. Staged(p, pc[x], result[x], response[x]) /\ Fair(p, pc[x], result[x], got[x])
  BY <1>1, <1>3, HandledFacts
<1>7. Asked(p, pc[x], result[x], got'[x])
  BY <1>3 DEF Asked
<1>8. got'[x] \in Nat /\ got'[x] <= p.qty /\ got'[x] + (e.qty - n) <= p.qty
  BY <1>1, <1>3, <1>4, <1>5
<1>9. Fair(p, pc[x], result[x], got'[x])
  BY <1>3, <1>5, <1>6, <1>8 DEF Fair
<1>10. Coherent(x)'
  BY <1>2, <1>6, <1>7, <1>9 DEF Coherent
<1>11. ASSUME NEW c \in Entries, c.id = e.id, c.req = e.req, c.owner = e.owner, c.qty = e.qty - n
       PROVE  Backed(c, t)'
  BY <1>2, <1>3, <1>8, <1>11 DEF Backed
<1> QED BY <1>10, <1>11

\* What a handler that submits is left with, beside the book.
Submitting(r, s, id) ==
  /\ result' \in [Requests -> Results] /\ pc' \in [Requests -> Stages] /\ DOMAIN response' = Requests
  /\ Others(r) /\ pc'[r] # "new"
  /\ s.rests => /\ payload[r].tif = "GTC" /\ pc'[r] \in {"rescue", "done"}
                /\ pc'[r] = "done" => response'[r] = "resting"
                /\ result'[r].outcome = "accepted" /\ result'[r].resting_id = id

LEMMA NoEntryYet ==
  ASSUME GatewayInv, NEW r \in Requests, pc[r] = "books", NEW s \in Sides, NEW i \in 1..Len(queue[s])
  PROVE  queue[s][i].req # r
BY EntryAt DEF Backed

\* The traded quantities after a submit.
LEMMA SubmitTraded ==
  ASSUME GatewayInv, NEW r \in Requests, pc[r] = "books", payload[r].kind \in {"order", "offer"},
         NEW s, s = Sweep(r), NEW id \in FreeSlots(r, s), SubmitBook(r, s, id),
         NEW opp, opp = Opposite(payload[r].side)
  PROVE  /\ got' \in [Requests -> Nat] /\ got'[r] = s.filled
         /\ \A i \in 1..Len(queue[opp]) :
              got'[queue[opp][i].req] = got[queue[opp][i].req] + s.taken[i]
         /\ \A x \in Requests \ {r} : (\A i \in 1..Len(queue[opp]) : queue[opp][i].req # x) =>
              got'[x] = got[x]
<1>1. SweepOf(s, queue[opp], AsNewOrder(payload[r])) /\ opp \in Sides
  BY SweepFacts
<1>2. s.makers = queue[opp] /\ s.taken \in [1..Len(queue[opp]) -> Nat] /\ s.filled \in Nat
  BY <1>1 DEF SweepOf
<1>3. \A i \in 1..Len(queue[opp]) : queue[opp][i].req # r
  BY <1>1, NoEntryYet
<1>4. PICK g : g = Traded(s, r) /\ g = got'
  BY DEF SubmitBook
<1>5. /\ g \in [Requests -> Nat]
      /\ \A i \in 1..Len(queue[opp]) : queue[opp][i].req # r =>
           g[queue[opp][i].req] = got[queue[opp][i].req] + s.taken[i]
      /\ \A x \in Requests : (\A i \in 1..Len(queue[opp]) : queue[opp][i].req # x) =>
           g[x] = got[x] + (IF x = r THEN s.filled ELSE 0)
  <2>1. TradedBy(g, r, opp, s)
    BY <1>1, <1>2, <1>4, TradedFacts, Zenon
  <2> QED BY <2>1 DEF TradedBy
<1>6. Fair(payload[r], pc[r], result[r], got[r]) /\ got \in [Requests -> Nat]
  BY HandledFacts DEF GatewayInv, Types
<1>7. got[r] = 0
  BY <1>6 DEF Fair
<1>8. g[r] = s.filled
  BY <1>2, <1>3, <1>5, <1>7
<1>9. \A x \in Requests \ {r} : (\A i \in 1..Len(queue[opp]) : queue[opp][i].req # x) => g[x] = got[x]
  BY <1>5, <1>6
<1> QED BY <1>3, <1>4, <1>5, <1>8, <1>9

LEMMA SubmitStep ==
  ASSUME GatewayInv, NEW r \in Requests, pc[r] = "books", payload[r].kind \in {"order", "offer"},
         NEW s, s = Sweep(r), NEW id \in FreeSlots(r, s), SubmitBook(r, s, id),
         UNCHANGED <<backstop, last_nonce, payload, cancels, polls>>,
         Submitting(r, s, id), Coherent(r)'
  PROVE  GatewayInv'
<1>1. PICK p, side, opp : p = payload[r] /\ side = p.side /\ opp = Opposite(side)
  OBVIOUS
<1>2. /\ SweepOf(s, queue[opp], AsNewOrder(p)) /\ SweepEnd(s, queue[opp], AsNewOrder(p))
      /\ AsNewOrder(p).qty = p.qty
      /\ side \in Sides /\ opp \in Sides /\ p.qty \in Nat
  BY <1>1, SweepFacts
<1>3. /\ s.taken \in [1..Len(queue[opp]) -> Nat] /\ s.filled \in Nat /\ s.filled <= p.qty
      /\ \A i \in 1..Len(queue[opp]) : s.taken[i] <= queue[opp][i].qty
  BY <1>2 DEF SweepOf
<1>4. opp # side /\ \A t \in Sides : t = side \/ t = opp
  BY <1>1, <1>2, OppositeSide
<1>5. PICK at, bt : Arranged(r, s, id, queue', at, bt)
  BY SubmitArranges
<1>6. s.rests => Newcomer(r, s, id) \in Entries /\ id \in Ids
  BY SubmitArranges
<1>7. PICK q : q = queue' /\ q \in [Sides -> Seq(Entries)] /\ Arranged(r, s, id, q, at, bt)
  BY <1>5 DEF Arranged
<1>8. /\ got' \in [Requests -> Nat] /\ got'[r] = s.filled
      /\ \A i \in 1..Len(queue[opp]) :
           got'[queue[opp][i].req] = got[queue[opp][i].req] + s.taken[i]
      /\ \A x \in Requests \ {r} : (\A i \in 1..Len(queue[opp]) : queue[opp][i].req # x) =>
           got'[x] = got[x]
  BY <1>1, SubmitTraded
<1>9. Types'
  BY <1>7, <1>8 DEF GatewayInv, Types, Submitting
<1>10. Others(r)
  BY DEF Submitting
<1>11. \A t \in Sides : \A i \in 1..Len(queue[t]) :
         queue[t][i] \in Entries /\ Backed(queue[t][i], t) /\ queue[t][i].req # r
  BY EntryAt, NoEntryYet
<1>12. ASSUME NEW x \in Requests PROVE Coherent(x)'
  <2>1. CASE x = r
    BY <2>1
  <2>2. CASE x # r /\ \A i \in 1..Len(queue[opp]) : queue[opp][i].req # x
    BY <1>8, <1>10, <2>2, CoherentFrame
  <2>3. CASE \E i \in 1..Len(queue[opp]) : queue[opp][i].req = x
    <3>1. PICK i \in 1..Len(queue[opp]) : queue[opp][i].req = x
      BY <2>3
    <3>2. PICK e \in Entries : e = queue[opp][i] /\ Backed(e, opp) /\ e.req # r
      BY <1>2, <1>11
    <3>3. PICK n \in Nat : n = s.taken[i] /\ n <= e.qty
      BY <1>3, <3>2
    <3>4. got'[e.req] = got[e.req] + n
      BY <1>8, <3>2, <3>3
    <3>5. Coherent(e.req)'
      BY <1>2, <1>10, <3>2, <3>3, <3>4, MakerTraded
    <3> QED BY <3>1, <3>2, <3>5
  <2> QED BY <2>1, <2>2, <2>3
<1>13. ASSUME NEW k \in 1..Len(q[opp]) PROVE Backed(q[opp][k], opp)'
  <2>1. /\ at[k] \in 1..Len(queue[opp]) /\ s.taken[at[k]] \in Nat
        /\ s.taken[at[k]] <= queue[opp][at[k]].qty
        /\ q[opp][k] \in Entries /\ q[opp][k].id = queue[opp][at[k]].id
        /\ q[opp][k].req = queue[opp][at[k]].req
        /\ q[opp][k].owner = queue[opp][at[k]].owner
        /\ q[opp][k].qty = queue[opp][at[k]].qty - s.taken[at[k]]
    <3>1. payload[r].side \in Sides /\ opp = Opposite(payload[r].side)
      BY <1>1, <1>2
    <3>2. CutFrom(q[opp], s, opp, at, k)
      BY <1>3, <1>7, <3>1, ArrangedOpposite, Zenon
    <3> QED BY <3>2 DEF CutFrom
  <2>2. PICK e \in Entries : e = queue[opp][at[k]] /\ Backed(e, opp) /\ e.req # r
    BY <1>2, <1>11, <2>1
  <2>3. PICK n \in Nat : n = s.taken[at[k]] /\ n <= e.qty
    BY <2>1, <2>2
  <2>4. got'[e.req] = got[e.req] + n
    BY <1>8, <2>1, <2>2, <2>3
  <2>5. PICK c \in Entries : /\ c = q[opp][k] /\ c.id = e.id /\ c.req = e.req /\ c.owner = e.owner
                             /\ c.qty = e.qty - n
    BY <2>1, <2>2, <2>3
  <2>6. Backed(c, opp)'
    BY <1>2, <1>10, <2>2, <2>3, <2>4, <2>5, MakerTraded
  <2> QED BY <2>5, <2>6
<1>14. ASSUME NEW k \in 1..Len(q[side]) PROVE Backed(q[side][k], side)'
  <2>1. CASE bt[k] \in 1..Len(queue[side]) /\ q[side][k] = queue[side][bt[k]]
    <3>1. PICK e \in Entries : e = queue[side][bt[k]] /\ Backed(e, side) /\ e.req # r
      BY <1>2, <1>11, <2>1
    <3>2. \A i \in 1..Len(queue[opp]) : queue[opp][i].req # e.req
      BY <1>2, <1>4, <2>1, <3>1, OneEntry
    <3>3. got'[e.req] = got[e.req]
      BY <1>8, <3>1, <3>2, EntryFields
    <3>4. Backed(e, side)'
      BY <1>2, <1>10, <3>1, <3>3, BackedFrame
    <3> QED BY <2>1, <3>1, <3>4
  <2>2. CASE s.rests /\ q[side][k] = Newcomer(r, s, id)
    <3>1. PICK e : e = Newcomer(r, s, id)
      OBVIOUS
    <3>2. e.id = id /\ e.qty = p.qty - s.filled /\ e.owner = p.signer /\ e.req = r
      BY <1>1, <3>1 DEF Newcomer
    <3>3. got'[r] + e.qty <= p.qty
      BY <1>2, <1>3, <1>8, <3>2
    <3>4. /\ p.tif = "GTC" /\ pc'[r] \in {"rescue", "done"}
          /\ pc'[r] = "done" => response'[r] = "resting"
          /\ result'[r].outcome = "accepted" /\ result'[r].resting_id = id
      BY <1>1, <2>2 DEF Submitting
    <3>5. payload'[r] = p
      BY <1>1
    <3>6. Backed(e, side)'
      BY <1>1, <3>2, <3>3, <3>4, <3>5 DEF Backed
    <3> QED BY <2>2, <3>1, <3>6
  <2> QED BY <1>1, <1>2, <1>7, <2>1, <2>2, ArrangedOwn
<1>15. Slots'
  <2>1. \A t \in Sides : \A k \in 1..Len(q[t]) : Backed(q[t][k], t)'
    BY <1>4, <1>13, <1>14
  <2> QED BY <1>7, <2>1 DEF Slots
<1>16. Alone'
  <2>1. payload[r].side \in Sides /\ s.taken \in [1..Len(queue[Opposite(payload[r].side)]) -> Nat]
    BY <1>1, <1>2, <1>3
  <2>2. Distinct(q)
    BY <1>6, <1>7, <2>1, SubmitAlone, Zenon
  <2> QED BY <1>7, <2>2 DEF Alone, Distinct
<1>17. NoncesSeen' /\ NoReplay' /\ CancelsOwn'
  BY <1>10, NoncesFrame, CancelsFrame DEF Submitting
<1> QED BY <1>9, <1>12, <1>15, <1>16, <1>17 DEF GatewayInv

\* The fills of a submit are its makers', at their prices.
LEMMA FillsFacts ==
  ASSUME NEW q \in Seq(Entries), NEW o, NEW s, SweepOf(s, q, o), NEW fills, fills = FillsOf(s)
  PROVE  /\ fills \in Seq(Fill) /\ FilledQty(fills) = s.filled
         /\ \A k \in 1..Len(fills) :
              fills[k].maker # BACKSTOP /\ Crosses(o.side, o.tick, fills[k].price)
         /\ (\A i \in 1..Len(q) : s.taken[i] = 0) => fills = <<>>
<1> DEFINE N == Len(q)
           f == s.taken
           all == [i \in 1..N |-> [price |-> q[i].tick, qty |-> f[i], maker |-> q[i].req]]
           S == {i \in 1..N : f[i] > 0}
           T == [price : Nat, qty : Nat, maker : Requests]
<1>1. /\ s.makers = q /\ f \in [1..N -> Nat] /\ SumFunctionOnSet(f, 1..N) = s.filled
      /\ \A i \in 1..N : f[i] > 0 => Crosses(o.side, o.tick, q[i].tick)
  BY DEF SweepOf
<1>2. fills = Kept(all, S)
  BY <1>1 DEF FillsOf
<1>3. N \in Nat
  OBVIOUS
<1>4. ASSUME NEW i \in 1..N
      PROVE  all[i] \in T /\ all[i].price = q[i].tick /\ all[i].qty = f[i] /\ all[i].maker = q[i].req
  <2>1. q[i].tick \in Nat /\ q[i].req \in Requests /\ f[i] \in Nat
    BY <1>1, EntryFields
  <2> QED BY <2>1
<1>5. all \in Seq(T) /\ Len(all) = N
  <2>1. all \in [1..N -> T]
    BY <1>4
  <2> HIDE DEF all, T, N
  <2> QED BY <1>3, <2>1
<1>6. \A i \in S : all[i] \in Fill
  <2> TAKE i \in S
  <2>1. i \in 1..N /\ f[i] \in Nat \ {0} /\ q[i].tick \in Nat /\ q[i].req \in Requests
    BY <1>1, EntryFields
  <2> QED BY <2>1 DEF Fill
<1>7. S \subseteq 1..Len(all) /\ \A i \in S : i \in 1..N /\ f[i] > 0
  BY <1>5
<1>8. \A i \in 1..Len(all) : IF i \in S THEN all[i].qty = f[i] ELSE f[i] = 0
  <2> TAKE i \in 1..Len(all)
  <2>1. i \in 1..N /\ f[i] \in Nat
    BY <1>1, <1>5
  <2>2. i \notin S => f[i] = 0
    BY <2>1
  <2> QED BY <1>4, <2>1, <2>2
<1> HIDE DEF all, S, T, N
<1>9. f \in [1..Len(all) -> Nat]
  BY <1>1, <1>5
<1>10. FilledQty(Kept(all, S)) = SumFunctionOnSet(f, 1..Len(all))
  BY <1>5, <1>7, <1>8, <1>9, KeptSum
<1>11. Kept(all, S) \in Seq(T) /\ \E at : At(at, Kept(all, S), all, S)
  BY <1>5, <1>7, KeptAt
<1>12. PICK at : At(at, fills, all, S) /\ fills \in Seq(T)
  BY <1>2, <1>11
<1>13. \A k \in 1..Len(fills) : at[k] \in S /\ fills[k] = all[at[k]]
  BY <1>12 DEF At
<1>14. fills \in Seq(Fill)
  <2>1. \A k \in 1..Len(fills) : fills[k] \in Fill
    BY <1>6, <1>13
  <2>2. Len(fills) \in Nat /\ fills \in [1..Len(fills) -> T]
    BY <1>12
  <2>3. fills \in [1..Len(fills) -> Fill]
    BY <2>1, <2>2
  <2> QED BY <2>2, <2>3
<1>15. \A k \in 1..Len(fills) : fills[k].maker # BACKSTOP /\ Crosses(o.side, o.tick, fills[k].price)
  <2> TAKE k \in 1..Len(fills)
  <2>1. PICK i \in S : i = at[k] /\ fills[k] = all[i] /\ i \in 1..N /\ f[i] > 0
    BY <1>7, <1>13
  <2>2. fills[k].price = q[i].tick /\ fills[k].maker = q[i].req
    BY <1>4, <2>1
  <2>3. q[i].req \in Requests
    BY <2>1, EntryFields DEF N
  <2> QED BY <1>1, <2>1, <2>2, <2>3, RequestsFinite DEF BACKSTOP
<1>16. (\A i \in 1..N : f[i] = 0) => fills = <<>>
  <2> SUFFICES ASSUME \A i \in 1..N : f[i] = 0, fills # <<>> PROVE FALSE
    OBVIOUS
  <2>1. S = {}
    BY <1>7
  <2>2. 1 \in 1..Len(fills)
    BY <1>14
  <2> QED BY <1>13, <2>1, <2>2
<1> QED BY <1>1, <1>2, <1>5, <1>10, <1>14, <1>15, <1>16 DEF N

LEMMA NoResultFields ==
  /\ NoResult \in Results /\ NoResult.outcome = "accepted" /\ NoResult.fills = <<>>
  /\ NoResult.resting_id = NIL /\ NoResult.resting_qty = 0
<1>1. <<>> \in Seq(Fill) /\ NoPrice \in Int
  BY DEF NoPrice
<1> QED BY <1>1 DEF NoResult, Results, Outcomes

\* A result that says what the submit s did.
Sent(res, r, s, id) ==
  /\ res \in Results /\ res.outcome = s.outcome /\ res.resting_id = id
  /\ s.rests => res.resting_qty > 0 /\ id # NIL
  /\ FilledQty(res.fills) = s.filled
  /\ \A k \in 1..Len(res.fills) :
       /\ res.fills[k].maker # BACKSTOP
       /\ Crosses(payload[r].side, payload[r].tick, res.fills[k].price)
  /\ s.outcome # "accepted" => res.fills = <<>>

\* The handler's result, as the submit leaves it.
LEMMA SubmitResult ==
  ASSUME GatewayInv, NEW r \in Requests, pc[r] = "books", payload[r].kind \in {"order", "offer"},
         NEW s, s = Sweep(r), NEW id \in FreeSlots(r, s), NEW left \in Nat, s.rests => left > 0,
         NEW res, res = [NoResult EXCEPT !.outcome = s.outcome, !.fills = FillsOf(s),
                           !.resting_id = id, !.resting_qty = left]
  PROVE  Sent(res, r, s, id)
<1> DEFINE o == AsNewOrder(payload[r])
           q == queue[Opposite(payload[r].side)]
           fills == FillsOf(s)
<1>1. /\ SweepOf(s, q, o) /\ SweepEnd(s, q, o) /\ Opposite(payload[r].side) \in Sides
      /\ o.side = payload[r].side /\ o.tick = payload[r].tick
  BY SweepFacts
<1>2. q \in Seq(Entries)
  BY <1>1 DEF GatewayInv, Types
<1>3. /\ s.outcome \in Outcomes /\ (s.outcome # "accepted" => \A i \in 1..Len(q) : s.taken[i] = 0)
  BY <1>1 DEF SweepOf, SweepEnd, Outcomes
<1> HIDE DEF q, o, fills
<1>4. /\ fills \in Seq(Fill) /\ FilledQty(fills) = s.filled
      /\ \A k \in 1..Len(fills) :
           fills[k].maker # BACKSTOP /\ Crosses(o.side, o.tick, fills[k].price)
      /\ (\A i \in 1..Len(q) : s.taken[i] = 0) => fills = <<>>
  BY <1>1, <1>2, FillsFacts DEF fills
<1>5. id \in Ids \cup {NIL} /\ (s.rests => id \in Ids /\ id # NIL)
  BY RequestsFinite DEF FreeSlots, NIL
<1>6. /\ res \in Results /\ res.outcome = s.outcome /\ res.fills = fills
      /\ res.resting_id = id /\ res.resting_qty = left
  <2>1. res = [NoResult EXCEPT !.outcome = s.outcome, !.fills = fills, !.resting_id = id, !.resting_qty = left]
    BY DEF fills
  <2> QED BY <1>3, <1>4, <1>5, <2>1, NoResultFields DEF Results
<1> QED BY <1>1, <1>3, <1>4, <1>5, <1>6 DEF Sent

\* Where the handler of an order goes from the book.
OnFromBook(r, s, res) ==
  LET p == payload[r] IN
  IF (p.tif = "IOC" /\ s.filled < p.qty) \/ s.outcome = "fill_or_kill_failed"
  THEN /\ result' = [result EXCEPT ![r] = res]
       /\ pc' = [pc EXCEPT ![r] = "backstop"] /\ UNCHANGED response
  ELSE IF s.rests
  THEN /\ result' = [result EXCEPT ![r] = res]
       /\ pc' = [pc EXCEPT ![r] = "rescue"] /\ UNCHANGED response
  ELSE PastMatching(r, res)

SweepDone(p, s) ==
  /\ s.filled \in Nat /\ s.filled <= p.qty /\ s.rests \in BOOLEAN
  /\ s.outcome \in Outcomes
  /\ s.outcome # "accepted" => s.filled = 0 /\ ~s.rests
  /\ s.rests => s.filled < p.qty /\ p.tif = "GTC" /\ s.outcome = "accepted"
  /\ s.outcome = "post_only_rejected" => p.post_only
  /\ s.outcome = "fill_or_kill_failed" => p.tif = "FOK"
  /\ (s.outcome = "accepted" /\ p.tif = "FOK") => s.filled = p.qty

LEMMA SweepIsDone ==
  ASSUME GatewayInv, NEW r \in Requests, pc[r] = "books", payload[r].kind \in {"order", "offer"},
         NEW s, s = Sweep(r)
  PROVE  SweepDone(payload[r], s) /\ payload[r].qty \in Nat
<1> DEFINE o == AsNewOrder(payload[r])
           q == queue[Opposite(payload[r].side)]
<1>1. /\ SweepOf(s, q, o) /\ SweepEnd(s, q, o)
      /\ o.qty = payload[r].qty /\ o.tif = payload[r].tif /\ payload[r].qty \in Nat
  BY SweepFacts
<1>2. o.post_only = payload[r].post_only
  BY DEF AsNewOrder
<1>3. payload[r].tif \in {"GTC", "IOC", "FOK"}
  BY HandledFacts, PayloadFields
<1> HIDE DEF o, q
<1>4. /\ s.filled \in Nat /\ s.filled <= payload[r].qty /\ s.rests \in BOOLEAN /\ s.outcome \in Outcomes
  BY <1>1 DEF SweepOf, Outcomes
<1>5. /\ s.outcome # "accepted" => s.filled = 0 /\ ~s.rests
      /\ s.rests => s.filled < o.qty /\ o.tif \in {"GTC", "GTT"} /\ s.outcome = "accepted"
      /\ s.outcome = "fill_or_kill_failed" => o.tif = "FOK"
      /\ (s.outcome = "accepted" /\ o.tif = "FOK") => s.filled = o.qty
  BY <1>1 DEF SweepEnd
<1>6. s.outcome = "post_only_rejected" => payload[r].post_only
  BY <1>1, <1>2, Zenon DEF SweepEnd
<1>7. s.rests => s.filled < payload[r].qty /\ payload[r].tif = "GTC" /\ s.outcome = "accepted"
  BY <1>1, <1>3, <1>5
<1> QED BY <1>1, <1>4, <1>5, <1>6, <1>7 DEF SweepDone

LEMMA OrderSent ==
  ASSUME GatewayInv, NEW r \in Requests, pc[r] = "books", payload[r].kind = "order",
         NEW s, NEW id, SweepDone(payload[r], s), payload[r].qty \in Nat,
         NEW res, Sent(res, r, s, id), OnFromBook(r, s, res),
         payload' = payload, got'[r] = s.filled
  PROVE  Submitting(r, s, id) /\ Coherent(r)'
<1>1. PICK p, g : p = payload[r] /\ g = got'[r] /\ p \in Payloads
  BY HandledFacts
<1>2. response[r] = "none" /\ DOMAIN response = Requests
      /\ result \in [Requests -> Results] /\ pc \in [Requests -> Stages]
  BY HandledFacts DEF Staged, GatewayInv, Types
<1>3. /\ g = s.filled /\ g \in Nat /\ g <= p.qty /\ p.qty \in Nat /\ p.kind = "order" /\ p # NoPayload
      /\ res \in Results /\ res.outcome = s.outcome /\ res.resting_id = id /\ FilledQty(res.fills) = g
      /\ s.outcome \in Outcomes
  BY <1>1, PayloadFields DEF Sent, SweepDone
<1>4. /\ s.outcome # "accepted" => g = 0 /\ ~s.rests /\ res.fills = <<>>
      /\ s.rests => p.tif = "GTC" /\ s.outcome = "accepted" /\ res.resting_qty > 0 /\ id # NIL
      /\ s.outcome = "fill_or_kill_failed" => p.tif = "FOK"
      /\ (s.outcome = "accepted" /\ p.tif = "FOK") => g = p.qty
  BY <1>1, <1>3 DEF Sent, SweepDone
<1>5. s.outcome = "post_only_rejected" => p.post_only
  BY <1>1, Zenon DEF SweepDone
<1>6. \A k \in 1..Len(res.fills) : res.fills[k].maker # BACKSTOP => Crosses(p.side, p.tick, res.fills[k].price)
  BY <1>1 DEF Sent
<1>7. \A stage : stage \in Stages => Fair(p, stage, res, g) \/ stage \in {"new", "collateral", "books"}
  <2> SUFFICES ASSUME NEW stage \in Stages, stage \notin {"new", "collateral", "books"}
               PROVE  Fair(p, stage, res, g)
    OBVIOUS
  <2>1. (p.kind = "order" /\ p.tif = "FOK" /\ stage \in {"record", "fold", "done"}) => g \in {0, p.qty}
    BY <1>4
  <2>2. res.outcome # "accepted" => g = 0
    BY <1>3, <1>4
  <2>3. ~(g > p.qty)
    BY <1>3
  <2>4. (res.outcome = "post_only_rejected" /\ stage = "backstop") => p.post_only /\ res.fills = <<>>
    <3>1. res.outcome = "post_only_rejected" => res.fills = <<>>
      BY <1>3, <1>4
    <3> QED BY <1>3, <1>5, <3>1, Zenon
  <2> QED BY <1>6, <2>1, <2>2, <2>3, <2>4 DEF Fair
<1>8. CASE (p.tif = "IOC" /\ s.filled < p.qty) \/ s.outcome = "fill_or_kill_failed"
  <2>1. /\ result' = [result EXCEPT ![r] = res]
        /\ pc' = [pc EXCEPT ![r] = "backstop"] /\ response' = response
    BY <1>1, <1>8 DEF OnFromBook
  <2>2. /\ result' \in [Requests -> Results] /\ pc' \in [Requests -> Stages] /\ DOMAIN response' = Requests
        /\ Others(r) /\ pc'[r] = "backstop" /\ result'[r] = res /\ response'[r] = "none"
    BY <1>2, <1>3, <2>1 DEF Others, Stages
  <2>3. ~s.rests
    BY <1>4, <1>8
  <2>4. Staged(p, "backstop", res, "none") /\ Asked(p, "backstop", res, g)
    BY <1>3, <1>4, <1>8 DEF Staged, Asked
  <2>5. Fair(p, "backstop", res, g)
    BY <1>7 DEF Stages
  <2>6. Coherent(r)'
    BY <1>1, <2>2, <2>4, <2>5 DEF Coherent
  <2> QED BY <2>2, <2>3, <2>6 DEF Submitting
<1>9. CASE ~((p.tif = "IOC" /\ s.filled < p.qty) \/ s.outcome = "fill_or_kill_failed") /\ s.rests
  <2>1. /\ result' = [result EXCEPT ![r] = res]
        /\ pc' = [pc EXCEPT ![r] = "rescue"] /\ response' = response
    BY <1>1, <1>9 DEF OnFromBook
  <2>2. /\ result' \in [Requests -> Results] /\ pc' \in [Requests -> Stages] /\ DOMAIN response' = Requests
        /\ Others(r) /\ pc'[r] = "rescue" /\ result'[r] = res /\ response'[r] = "none"
    BY <1>2, <1>3, <2>1 DEF Others, Stages
  <2>3. Staged(p, "rescue", res, "none") /\ Asked(p, "rescue", res, g)
    BY <1>3, <1>4, <1>9 DEF Staged, Asked
  <2>4. Fair(p, "rescue", res, g)
    BY <1>7 DEF Stages
  <2>5. Coherent(r)'
    BY <1>1, <2>2, <2>3, <2>4 DEF Coherent
  <2> QED BY <1>1, <1>3, <1>4, <1>9, <2>2, <2>5 DEF Submitting
<1>10. CASE ~((p.tif = "IOC" /\ s.filled < p.qty) \/ s.outcome = "fill_or_kill_failed") /\ ~s.rests
  <2>1. PastMatching(r, res)
    BY <1>1, <1>10 DEF OnFromBook
  <2>2. PICK stage, answer : /\ stage = IF res.fills # <<>> THEN "record" ELSE "done"
                             /\ answer = IF res.fills # <<>> THEN response[r] ELSE Answer(res)
    OBVIOUS
  <2>3. /\ result' \in [Requests -> Results] /\ pc' \in [Requests -> Stages] /\ DOMAIN response' = Requests
        /\ Others(r) /\ result'[r] = res /\ pc'[r] = stage /\ response'[r] = answer
    BY <1>3, <2>1, <2>2, PastMatchingFacts
  <2>4. Staged(p, stage, res, answer) /\ Asked(p, stage, res, g)
    BY <1>1, <1>2, <1>3, <2>2, PastMatchingStaged
  <2>5. stage \in {"record", "done"}
    BY <2>2
  <2>6. Fair(p, stage, res, g)
    BY <1>7, <2>5 DEF Stages
  <2>7. Coherent(r)'
    BY <1>1, <2>3, <2>4, <2>6 DEF Coherent
  <2> QED BY <1>10, <2>3, <2>5, <2>7 DEF Submitting
<1> QED BY <1>8, <1>9, <1>10

LEMMA SubmitOrderKeeps ==
  ASSUME GatewayInv, NEW r \in Requests, SubmitOrder(r)
  PROVE  GatewayInv'
<1>1. pc[r] = "books" /\ payload[r].kind = "order" /\ UNCHANGED <<backstop, last_nonce, payload, cancels, polls>>
  BY DEF SubmitOrder
<1>2. PICK s : s = Sweep(r)
  OBVIOUS
<1>3. SweepDone(payload[r], s) /\ payload[r].qty \in Nat
  BY <1>1, <1>2, SweepIsDone
<1>4. PICK left \in Nat : /\ left = IF s.rests THEN payload[r].qty - s.filled ELSE 0
                          /\ s.rests => left > 0
  BY <1>3 DEF SweepDone
<1>5. PICK id \in FreeSlots(r, s) :
        /\ SubmitBook(r, s, id)
        /\ OnFromBook(r, s, [NoResult EXCEPT !.outcome = s.outcome, !.fills = FillsOf(s),
                               !.resting_id = id,
                               !.resting_qty = IF s.rests THEN payload[r].qty - s.filled ELSE 0])
  BY <1>2, Zenon DEF SubmitOrder, OnFromBook
<1>6. PICK res : res = [NoResult EXCEPT !.outcome = s.outcome, !.fills = FillsOf(s),
                          !.resting_id = id, !.resting_qty = left]
  OBVIOUS
<1>7. OnFromBook(r, s, res)
  BY <1>4, <1>5, <1>6
<1>8. Sent(res, r, s, id)
  <2>1. payload[r].kind \in {"order", "offer"}
    BY <1>1
  <2> QED BY <1>1, <1>2, <1>4, <1>6, <2>1, SubmitResult, Zenon
<1>9. got'[r] = s.filled
  BY <1>1, <1>2, <1>5, SubmitTraded
<1>10. Submitting(r, s, id) /\ Coherent(r)'
  BY <1>1, <1>3, <1>7, <1>8, <1>9, OrderSent
<1> QED BY <1>1, <1>2, <1>5, <1>10, SubmitStep

LEMMA SubmitOfferKeeps ==
  ASSUME GatewayInv, NEW r \in Requests, SubmitOffer(r)
  PROVE  GatewayInv'
<1>1. pc[r] = "books" /\ payload[r].kind = "offer" /\ UNCHANGED <<backstop, last_nonce, payload, cancels, polls>>
  BY DEF SubmitOffer
<1>2. PICK s : s = Sweep(r)
  OBVIOUS
<1>3. SweepDone(payload[r], s) /\ payload[r].qty \in Nat
  BY <1>1, <1>2, SweepIsDone
<1>4. PICK id \in FreeSlots(r, s) :
        /\ SubmitBook(r, s, id)
        /\ result' = [result EXCEPT ![r].outcome = s.outcome, ![r].resting_id = id]
        /\ IF s.outcome = "post_only_rejected" THEN Respond(r, "rejected")
           ELSE IF s.rests THEN Respond(r, "resting")
           ELSE Respond(r, "panicked")
  BY <1>2, Zenon DEF SubmitOffer
<1>5. /\ payload[r] \in Payloads /\ Staged(payload[r], pc[r], result[r], response[r])
  BY <1>1, HandledFacts
<1>6. result[r] = NoResult /\ payload[r] # NoPayload
  BY <1>1, <1>5, PayloadFields DEF Staged
<1>7. PICK res : res = [NoResult EXCEPT !.outcome = s.outcome, !.resting_id = id]
  OBVIOUS
<1>8. id \in Ids \cup {NIL} /\ s.outcome \in Outcomes
  BY <1>3 DEF FreeSlots, NIL, SweepDone
<1>9. res \in Results /\ res.outcome = s.outcome /\ res.resting_id = id /\ res.fills = <<>>
  BY <1>7, <1>8, NoResultFields DEF Results
<1>10. /\ DOMAIN response = Requests /\ result \in [Requests -> Results] /\ pc \in [Requests -> Stages]
  BY DEF GatewayInv, Types
<1>11. result' = [result EXCEPT ![r] = res]
  BY <1>4, <1>6, <1>7, <1>10
<1>12. PICK answer :
         /\ pc' = [pc EXCEPT ![r] = "done"] /\ response' = [response EXCEPT ![r] = answer]
         /\ answer # "none" /\ (answer = "rejected" => s.outcome # "accepted")
         /\ s.rests => answer = "resting"
  BY <1>3, <1>4 DEF Respond, SweepDone
<1>13. /\ result' \in [Requests -> Results] /\ pc' \in [Requests -> Stages] /\ DOMAIN response' = Requests
       /\ Others(r) /\ pc'[r] = "done" /\ result'[r] = res /\ response'[r] = answer
  BY <1>9, <1>10, <1>11, <1>12 DEF Others, Stages
<1>14. got'[r] = s.filled
  BY <1>1, <1>2, <1>4, SubmitTraded
<1>15. Staged(payload[r], "done", res, answer) /\ Asked(payload[r], "done", res, s.filled)
  BY <1>6, <1>9, <1>12 DEF Staged, Asked
<1>16. Fair(payload[r], "done", res, s.filled)
  <2>1. s.filled <= payload[r].qty /\ s.filled \in Nat /\ (s.outcome # "accepted" => s.filled = 0)
    BY <1>3 DEF SweepDone
  <2>2. ~(s.filled > payload[r].qty)
    BY <1>3, <2>1
  <2>3. \A k \in 1..Len(res.fills) : FALSE
    BY <1>9
  <2> QED BY <1>1, <1>9, <2>1, <2>2, <2>3 DEF Fair
<1>17. Coherent(r)'
  BY <1>1, <1>13, <1>14, <1>15, <1>16 DEF Coherent
<1>18. Submitting(r, s, id)
  <2>1. s.rests => payload[r].tif = "GTC" /\ s.outcome = "accepted"
    BY <1>3 DEF SweepDone
  <2> QED BY <1>9, <1>12, <1>13, <2>1 DEF Submitting
<1> QED BY <1>1, <1>2, <1>4, <1>17, <1>18, SubmitStep

-----------------------------------------------------------------------------
(* The invariant *)

LEMMA NewMakerTyped ==
  NewMaker \in Makers
<1>1. <<>> \in Seq(Nat) /\ 0 \in Int
  OBVIOUS
<1> QED BY <1>1 DEF NewMaker, Makers

LEMMA GatewayInit ==
  Init => GatewayInv
<1> SUFFICES ASSUME Init PROVE GatewayInv
  OBVIOUS
<1>1. /\ MaxPolls \in Nat /\ Warm \subseteq Nat
  BY GatewayAssumption DEF GatewayAssumption
<1>2. backstop \in Makers
  BY <1>1, NewMakerTyped, PriceRecorded DEF Init
<1>3. queue \in [Sides -> Seq(Entries)] /\ \A s \in Sides : queue[s] = <<>>
  <2>1. <<>> \in Seq(Entries)
    OBVIOUS
  <2> QED BY <2>1 DEF Init
<1>4. result \in [Requests -> Results]
  BY NoResultFields DEF Init
<1>5. Types
  BY <1>1, <1>2, <1>3, <1>4 DEF Init, Types, Stages
<1>6. \A x \in Requests : Coherent(x)
  <2> TAKE x \in Requests
  <2>1. pc[x] = "new" /\ payload[x] = NoPayload /\ result[x] = NoResult /\ response[x] = "none" /\ got[x] = 0
    BY DEF Init
  <2>2. NoPayload.kind = "none"
    BY DEF NoPayload
  <2>3. Staged(NoPayload, "new", NoResult, "none")
    BY NoResultFields DEF Staged
  <2>4. Asked(NoPayload, "new", NoResult, 0)
    BY DEF Asked
  <2>5. Fair(NoPayload, "new", NoResult, 0)
    BY <2>2, NoResultFields DEF Fair
  <2> QED BY <2>1, <2>3, <2>4, <2>5 DEF Coherent
<1>7. \A s \in Sides : 1..Len(queue[s]) = {}
  BY <1>3
<1>8. Slots /\ Alone
  BY <1>7 DEF Slots, Alone
<1>9. CancelsOwn
  BY DEF Init, CancelsOwn
<1>10. NoncesSeen /\ NoReplay
  <2>1. \A x \in Requests : payload[x] = NoPayload /\ NoPayload.kind = "none"
    BY DEF Init, NoPayload
  <2> QED BY <2>1 DEF NoncesSeen, NoReplay
<1> QED BY <1>5, <1>6, <1>8, <1>9, <1>10 DEF GatewayInv

LEMMA GatewayStutters ==
  ASSUME GatewayInv, UNCHANGED vars
  PROVE  GatewayInv'
<1>1. /\ queue' = queue /\ backstop' = backstop /\ last_nonce' = last_nonce /\ pc' = pc
      /\ payload' = payload /\ result' = result /\ response' = response /\ got' = got
      /\ cancels' = cancels /\ polls' = polls
  BY DEF vars
<1>2. Types'
  BY <1>1 DEF GatewayInv, Types
<1>3. \A x \in Requests : Coherent(x)'
  BY <1>1 DEF GatewayInv, Coherent
<1>4. Slots' /\ Alone'
  BY <1>1 DEF GatewayInv, Slots, Alone, Backed
<1>5. CancelsOwn' /\ NoncesSeen' /\ NoReplay'
  BY <1>1 DEF GatewayInv, CancelsOwn, NoncesSeen, NoReplay
<1> QED BY <1>2, <1>3, <1>4, <1>5 DEF GatewayInv

LEMMA GatewayNext ==
  GatewayInv /\ [Next]_vars => GatewayInv'
<1> SUFFICES ASSUME GatewayInv, [Next]_vars PROVE GatewayInv'
  OBVIOUS
<1>1. ASSUME NEW r \in Requests, NEW p \in Payloads, Receive(r, p) PROVE GatewayInv'
  BY <1>1, ReceiveKeeps
<1>2. ASSUME NEW r \in Requests, CheckCollateral(r) \/ Fold(r) \/ Timeout(r) PROVE GatewayInv'
  BY <1>2, CheckCollateralKeeps, FoldKeeps, TimeoutKeeps
<1>3. ASSUME NEW r \in Requests, Local(r) PROVE GatewayInv'
  BY <1>3, SubmitOrderKeeps, SubmitOfferKeeps, CancelOrderKeeps, BackstopTakeKeeps,
     RescueQuoteKeeps, RescueCancelKeeps, RecordFillsKeeps DEF Local
<1>4. ASSUME NEW price \in Prices, OraclePoll(price) PROVE GatewayInv'
  BY <1>4, OraclePollKeeps
<1>5. CASE UNCHANGED vars
  BY <1>5, GatewayStutters
<1> QED BY <1>1, <1>2, <1>3, <1>4, <1>5 DEF Next

LEMMA GatewayAlways ==
  Spec => []GatewayInv
<1>1. Init => GatewayInv
  BY GatewayInit
<1>2. GatewayInv /\ [Next]_vars => GatewayInv'
  BY GatewayNext
<1> QED BY <1>1, <1>2, PTL DEF Spec

-----------------------------------------------------------------------------
(* What the traders hold, against the backstop *)

\* What request p holds: what it bought or sold, and what the backstop has
\* committed to a remainder of it that still rests.
Held(stage, res, g) == g + IF stage = "cancel" THEN res.resting_qty ELSE 0

Due(p, stage, res, g) ==
  IF p.kind \notin {"order", "offer"} THEN 0
  ELSE IF p.side = "Long" THEN Held(stage, res, g) ELSE 0 - Held(stage, res, g)

DueOf(x) == Due(payload[x], pc[x], result[x], got[x])
Dues == [x \in Requests |-> DueOf(x)]

Balanced == backstop.inventory + SumFunctionOnSet(Dues, Requests) = 0

LEMMA DueTyped ==
  ASSUME NEW p, NEW stage, NEW res \in Results, NEW g \in Nat
  PROVE  Due(p, stage, res, g) \in Int
<1>1. res.resting_qty \in Nat
  BY DEF Results
<1> QED BY <1>1 DEF Due, Held

LEMMA DueInt ==
  ASSUME GatewayInv, NEW x \in Requests
  PROVE  DueOf(x) \in Int
BY DueTyped DEF DueOf, GatewayInv, Types

LEMMA InventoryInt ==
  ASSUME GatewayInv
  PROVE  backstop \in Makers /\ backstop.inventory \in Int
BY MakerFields DEF GatewayInv, Types

\* A step of r that gives it what it takes from the backstop.
LEMMA DueMoves ==
  ASSUME GatewayInv, GatewayInv', Balanced, NEW r \in Requests,
         \A x \in Requests \ {r} : DueOf(x)' = DueOf(x),
         backstop'.inventory = backstop.inventory - (DueOf(r)' - DueOf(r))
  PROVE  Balanced'
<1>1. PICK f : f = Dues
  OBVIOUS
<1>2. PICK h : h = Dues'
  OBVIOUS
<1>3. \A x \in Requests : f[x] \in Int /\ f[x] = DueOf(x)
  BY <1>1, DueInt DEF Dues
<1>4. \A x \in Requests : h[x] \in Int /\ h[x] = DueOf(x)'
  <2> TAKE x \in Requests
  <2>1. got'[x] \in Nat /\ result'[x] \in Results
    BY DEF GatewayInv, Types
  <2>2. DueOf(x)' \in Int
    BY <2>1, DueTyped DEF DueOf
  <2>3. h[x] = DueOf(x)'
    BY <1>2 DEF Dues
  <2> QED BY <2>2, <2>3
<1>5. \A x \in Requests \ {r} : h[x] = f[x]
  BY <1>3, <1>4
<1>6. SumFunctionOnSet(h, Requests) = SumFunctionOnSet(f, Requests) + h[r] - f[r]
  <2>1. (\A x \in Requests : f[x] \in Int) /\ h[r] \in Int /\ IsFiniteSet(Requests)
    BY <1>3, <1>4, RequestsFinite
  <2> QED BY <1>5, <2>1, SumChange
<1>7. SumFunctionOnSet(f, Requests) \in Int
  BY <1>3, RequestsFinite, SumInt
<1>8. backstop.inventory + SumFunctionOnSet(f, Requests) = 0 /\ backstop.inventory \in Int
  BY <1>1, InventoryInt DEF Balanced
<1>9. backstop'.inventory = backstop.inventory - (h[r] - f[r])
  BY <1>3, <1>4
<1>10. backstop'.inventory + SumFunctionOnSet(h, Requests) = 0
  BY <1>3, <1>4, <1>6, <1>7, <1>8, <1>9
<1> QED BY <1>2, <1>10 DEF Balanced

\* A request that neither trades nor has the backstop's word keeps its due.
LEMMA DueKept ==
  ASSUME NEW x \in Requests, payload'[x] = payload[x], got'[x] = got[x],
         (pc[x] # "cancel" /\ pc'[x] # "cancel") \/ (pc'[x] = pc[x] /\ result'[x] = result[x])
  PROVE  DueOf(x)' = DueOf(x)
BY DEF DueOf, Due, Held

\* A step of r that trades nothing.
LEMMA QuietDue ==
  ASSUME GatewayInv, GatewayInv', Balanced, NEW r \in Requests, payload' = payload, got' = got,
         backstop'.inventory = backstop.inventory, pc[r] # "cancel", pc'[r] # "cancel",
         \A x \in Requests \ {r} : pc'[x] = pc[x] /\ result'[x] = result[x]
  PROVE  Balanced'
<1>1. \A x \in Requests \ {r} : DueOf(x)' = DueOf(x)
  BY DueKept
<1>2. DueOf(r)' = DueOf(r)
  BY DueKept
<1>3. DueOf(r) \in Int /\ backstop.inventory \in Int
  BY DueInt, InventoryInt
<1>4. backstop'.inventory = backstop.inventory - (DueOf(r)' - DueOf(r))
  BY <1>2, <1>3
<1> QED BY <1>1, <1>4, DueMoves

LEMMA PastMatchingPc ==
  ASSUME GatewayInv, NEW r \in Requests, NEW res, PastMatching(r, res)
  PROVE  /\ pc'[r] \in {"record", "done"} /\ result'[r] = res
         /\ \A x \in Requests \ {r} : pc'[x] = pc[x] /\ result'[x] = result[x]
BY DEF PastMatching, GatewayInv, Types

LEMMA RespondPc ==
  ASSUME GatewayInv, NEW r \in Requests, NEW answer, Respond(r, answer)
  PROVE  pc'[r] = "done" /\ \A x \in Requests \ {r} : pc'[x] = pc[x]
BY DEF Respond, GatewayInv, Types

\* The steps in which nobody trades.
LEMMA QuietBalance ==
  ASSUME GatewayInv, GatewayInv', Balanced, NEW r \in Requests,
         CheckCollateral(r) \/ Fold(r) \/ Timeout(r) \/ CancelOrder(r) \/ RecordFills(r)
  PROVE  Balanced'
<1>1. CASE CheckCollateral(r)
  <2>1. pc'[r] \in {"books", "done"} /\ \A x \in Requests \ {r} : pc'[x] = pc[x]
    BY <1>1, RespondPc DEF CheckCollateral, GatewayInv, Types
  <2> QED BY <1>1, <2>1, QuietDue DEF CheckCollateral
<1>2. CASE Fold(r)
  BY <1>2, RespondPc, QuietDue DEF Fold
<1>3. CASE Timeout(r)
  BY <1>3, RespondPc, QuietDue DEF Timeout
<1>4. CASE CancelOrder(r)
  <2>1. pc'[r] = "done" /\ \A x \in Requests \ {r} : pc'[x] = pc[x]
    BY <1>4, RespondPc DEF CancelOrder
  <2>2. pc[r] = "books" /\ UNCHANGED <<backstop, last_nonce, payload, result, got, polls>>
    BY <1>4 DEF CancelOrder
  <2> QED BY <2>1, <2>2, QuietDue
<1>5. CASE RecordFills(r)
  <2> DEFINE prices == [k \in 1..Len(result[r].fills) |-> result[r].fills[k].price]
  <2>1. pc[r] = "record" /\ UNCHANGED <<queue, last_nonce, payload, result, response, got, cancels, polls>>
        /\ pc' = [pc EXCEPT ![r] = "fold"] /\ backstop' = record_prices(backstop, prices)
    BY <1>5 DEF RecordFills
  <2>2. pc'[r] = "fold" /\ \A x \in Requests \ {r} : pc'[x] = pc[x]
    BY <2>1 DEF GatewayInv, Types
  <2>3. prices \in Seq(Nat)
    <3>1. result[r] \in Results
      BY DEF GatewayInv, Types
    <3>2. PICK fills \in Seq(Fill) : fills = result[r].fills
      BY <3>1 DEF Results
    <3>3. \A k \in 1..Len(fills) : fills[k].price \in Nat
      BY FillAt
    <3>4. [k \in 1..Len(fills) |-> fills[k].price] \in Seq(Nat)
      BY <3>3
    <3> QED BY <3>2, <3>4
  <2> HIDE DEF prices
  <2>4. backstop'.inventory = backstop.inventory
    BY <2>1, <2>3, InventoryInt, PricesRecorded
  <2> QED BY <2>1, <2>2, <2>4, QuietDue
<1> QED BY <1>1, <1>2, <1>3, <1>4, <1>5

LEMMA ReceiveBalance ==
  ASSUME GatewayInv, GatewayInv', Balanced, NEW r \in Requests, NEW p \in Payloads, Receive(r, p)
  PROVE  Balanced'
<1>1. /\ pc[r] = "new" /\ payload' = [payload EXCEPT ![r] = p]
      /\ UNCHANGED <<queue, backstop, result, got, cancels, polls>>
  BY DEF Receive
<1>2. pc'[r] # "cancel" /\ \A x \in Requests \ {r} : pc'[x] = pc[x]
  BY RespondPc DEF Receive, GatewayInv, Types
<1>3. \A x \in Requests \ {r} : DueOf(x)' = DueOf(x)
  <2>1. \A x \in Requests \ {r} : payload'[x] = payload[x]
    BY <1>1 DEF GatewayInv, Types
  <2> QED BY <1>1, <1>2, <2>1, DueKept
<1>4. got[r] = 0
  BY <1>1 DEF GatewayInv, Coherent, Fair
<1>5. DueOf(r) = 0 /\ DueOf(r)' = 0
  <2>1. Held(pc[r], result[r], got[r]) = 0 /\ Held(pc'[r], result'[r], got'[r]) = 0
    BY <1>1, <1>2, <1>4 DEF Held
  <2>2. ASSUME NEW q, NEW stage, NEW res, NEW g, Held(stage, res, g) = 0
        PROVE  Due(q, stage, res, g) = 0
    BY <2>2 DEF Due
  <2> QED BY <2>1, <2>2, Zenon DEF DueOf
<1>6. backstop'.inventory = backstop.inventory - (DueOf(r)' - DueOf(r))
  BY <1>1, <1>5, InventoryInt
<1> QED BY <1>3, <1>6, DueMoves

LEMMA BackstopTakeBalance ==
  ASSUME GatewayInv, GatewayInv', Balanced, NEW r \in Requests, BackstopTake(r)
  PROVE  Balanced'
<1> DEFINE p == payload[r]
           old == result[r]
           killed == old.outcome = "fill_or_kill_failed"
           requested == IF killed THEN p.qty ELSE p.qty - FilledQty(old.fills)
           offered == Offered(backstop, p.side, requested)
           new == [WithBackstopFill(old, quote(backstop, p.side), offered)
                     EXCEPT !.outcome = Revived(WithBackstopFill(old, quote(backstop, p.side), offered).outcome)]
<1>1. pc[r] = "backstop" /\ payload' = payload
  BY DEF BackstopTake
<1>2. CASE Accepts(killed, requested, offered)
  <2>1. /\ backstop' = commit_fill(backstop, p.side, offered)
        /\ got' = [got EXCEPT ![r] = got[r] + offered] /\ PastMatching(r, new)
    BY <1>2 DEF BackstopTake
  <2>2. pc'[r] \in {"record", "done"} /\ \A x \in Requests \ {r} : pc'[x] = pc[x] /\ result'[x] = result[x]
    BY <2>1, PastMatchingPc
  <2>3. offered \in Nat \ {0}
    <3>1. offered > 0 /\ (killed => offered = requested)
      BY <1>2 DEF Accepts
    <3>2. requested = IF old.outcome = "fill_or_kill_failed" THEN p.qty ELSE p.qty - FilledQty(old.fills)
      OBVIOUS
    <3>3. offered = Offered(backstop, p.side, requested)
      OBVIOUS
    <3> HIDE DEF offered, requested
    <3> QED BY <1>1, <3>1, <3>2, <3>3, BackstopTakes, Zenon
  <2> HIDE DEF offered, new
  <2>4. got[r] \in Nat /\ got'[r] = got[r] + offered /\ \A x \in Requests \ {r} : got'[x] = got[x]
    BY <2>1 DEF GatewayInv, Types
  <2>5. \A x \in Requests \ {r} : DueOf(x)' = DueOf(x)
    BY <1>1, <2>2, <2>4, DueKept
  <2>6. p.kind = "order" /\ p.side \in Sides
    <3>1. p.kind = "order" /\ p \in Payloads
      BY <1>1, HandledFacts DEF Staged
    <3> QED BY <3>1, PayloadFields
  <2>7. backstop'.inventory = IF p.side = "Long" THEN backstop.inventory - offered
                              ELSE backstop.inventory + offered
    BY <2>1, <2>3, InventoryInt, FillCommitted
  <2>8. /\ DueOf(r) = IF p.side = "Long" THEN got[r] ELSE -got[r]
        /\ DueOf(r)' = IF p.side = "Long" THEN got[r] + offered ELSE -(got[r] + offered)
    BY <1>1, <2>2, <2>3, <2>4, <2>6 DEF DueOf, Due, Held
  <2>9. backstop'.inventory = backstop.inventory - (DueOf(r)' - DueOf(r))
    BY <2>3, <2>4, <2>7, <2>8, InventoryInt
  <2> QED BY <2>5, <2>9, DueMoves
<1>3. CASE ~Accepts(killed, requested, offered)
  <2>1. PastMatching(r, old) /\ UNCHANGED <<backstop, got>>
    BY <1>3 DEF BackstopTake
  <2> QED BY <1>1, <2>1, PastMatchingPc, QuietDue
<1> QED BY <1>2, <1>3

LEMMA RescueQuoteBalance ==
  ASSUME GatewayInv, GatewayInv', Balanced, NEW r \in Requests, RescueQuote(r)
  PROVE  Balanced'
<1> DEFINE p == payload[r]
           qty == result[r].resting_qty
<1>1. pc[r] = "rescue" /\ payload' = payload /\ got' = got
  BY DEF RescueQuote
<1>2. p.kind = "order" /\ p.side \in Sides /\ qty \in Nat /\ got[r] \in Nat
  <2>1. p.kind = "order" /\ p \in Payloads /\ result[r] \in Results /\ got[r] \in Nat
    BY <1>1, HandledFacts DEF Staged
  <2> QED BY <2>1, PayloadFields DEF Results
<1>3. CASE Offered(backstop, p.side, qty) = qty
  <2>1. /\ backstop' = commit_fill(backstop, p.side, qty)
        /\ result' = [result EXCEPT ![r].price = quote(backstop, p.side)]
        /\ pc' = [pc EXCEPT ![r] = "cancel"]
    BY <1>3 DEF RescueQuote
  <2>2. /\ pc'[r] = "cancel" /\ result'[r].resting_qty = qty
        /\ \A x \in Requests \ {r} : pc'[x] = pc[x] /\ result'[x] = result[x]
    BY <2>1 DEF GatewayInv, Types, Results
  <2>3. \A x \in Requests \ {r} : DueOf(x)' = DueOf(x)
    BY <1>1, <2>2, DueKept
  <2>4. backstop'.inventory = IF p.side = "Long" THEN backstop.inventory - qty
                              ELSE backstop.inventory + qty
    BY <1>2, <2>1, InventoryInt, FillCommitted
  <2>5. /\ DueOf(r) = IF p.side = "Long" THEN got[r] ELSE -got[r]
        /\ DueOf(r)' = IF p.side = "Long" THEN got[r] + qty ELSE -(got[r] + qty)
    BY <1>1, <1>2, <2>2 DEF DueOf, Due, Held
  <2>6. backstop'.inventory = backstop.inventory - (DueOf(r)' - DueOf(r))
    BY <1>2, <2>4, <2>5, InventoryInt
  <2> QED BY <2>3, <2>6, DueMoves
<1>4. CASE Offered(backstop, p.side, qty) # qty
  <2>1. PastMatching(r, result[r]) /\ backstop' = backstop
    BY <1>4 DEF RescueQuote
  <2> QED BY <1>1, <2>1, PastMatchingPc, QuietDue
<1> QED BY <1>3, <1>4

LEMMA RescueCancelBalance ==
  ASSUME GatewayInv, GatewayInv', Balanced, NEW r \in Requests, RescueCancel(r)
  PROVE  Balanced'
<1> DEFINE p == payload[r]
           qty == result[r].resting_qty
<1>1. /\ pc[r] = "cancel" /\ payload' = payload /\ backstop' = backstop
      /\ got' = [got EXCEPT ![r] = got[r] + qty]
      /\ \E res : PastMatching(r, res)
  BY DEF RescueCancel
<1>2. pc'[r] \in {"record", "done"} /\ \A x \in Requests \ {r} : pc'[x] = pc[x] /\ result'[x] = result[x]
  BY <1>1, PastMatchingPc
<1>3. got'[r] = got[r] + qty /\ \A x \in Requests \ {r} : got'[x] = got[x]
  BY <1>1 DEF GatewayInv, Types
<1>4. got[r] \in Nat /\ qty \in Nat
  <2>1. got[r] \in Nat /\ result[r] \in Results
    BY DEF GatewayInv, Types
  <2> QED BY <2>1 DEF Results
<1>5. \A x \in Requests \ {r} : DueOf(x)' = DueOf(x)
  BY <1>1, <1>2, <1>3, DueKept
<1>6. DueOf(r)' = DueOf(r)
  BY <1>1, <1>2, <1>3, <1>4 DEF DueOf, Due, Held
<1>7. backstop'.inventory = backstop.inventory - (DueOf(r)' - DueOf(r))
  BY <1>1, <1>6, DueInt, InventoryInt
<1> QED BY <1>5, <1>7, DueMoves

\* A submit: what the taker gains, the makers on the other side give.
LEMMA SubmitBalance ==
  ASSUME GatewayInv, GatewayInv', Balanced, NEW r \in Requests, pc[r] = "books",
         payload[r].kind \in {"order", "offer"}, NEW s, s = Sweep(r), got' = Traded(s, r),
         payload' = payload, backstop' = backstop, pc'[r] # "cancel", Others(r)
  PROVE  Balanced'
<1> DEFINE side == payload[r].side
           opp == Opposite(side)
           N == Len(queue[opp])
           key == [i \in 1..N |-> queue[opp][i].req]
           A == GroupSums(s.taken, key, N, Requests)
           Signed(t, n) == IF t = "Long" THEN n ELSE 0 - n
           old == Dues
           move == [x \in Requests |-> Signed(opp, A[x])]
           mine == [x \in Requests |-> IF x = r THEN Signed(side, s.filled) ELSE 0]
           both == [x \in Requests |-> move[x] + mine[x]]
           new == [x \in Requests |-> old[x] + both[x]]
<1>1. /\ SweepOf(s, queue[opp], AsNewOrder(payload[r])) /\ side \in Sides /\ opp \in Sides
  BY SweepFacts
<1>2. /\ s.makers = queue[opp] /\ s.taken \in [1..N -> Nat] /\ s.filled \in Nat
      /\ SumFunctionOnSet(s.taken, 1..N) = s.filled
  BY <1>1 DEF SweepOf
<1>3. queue[opp] \in Seq(Entries) /\ N \in Nat /\ got \in [Requests -> Nat] /\ result \in [Requests -> Results]
  BY <1>1 DEF GatewayInv, Types
<1>4. \A i \in 1..N : /\ key[i] \in Requests /\ key[i] # r
                      /\ payload[key[i]].kind \in {"order", "offer"} /\ payload[key[i]].side = opp
  <2> TAKE i \in 1..N
  <2>1. queue[opp][i] \in Entries /\ Backed(queue[opp][i], opp) /\ queue[opp][i].req # r
    BY <1>1, EntryAt, NoEntryYet
  <2>2. key[i] = queue[opp][i].req
    OBVIOUS
  <2> QED BY <2>1, <2>2, EntryFields DEF Backed
<1>5. IsFiniteSet(Requests)
  BY RequestsFinite
<1>6. SumFunctionOnSet(A, Requests) = s.filled
  <2>1. \A i \in 1..N : s.taken[i] \in Int
    BY <1>2
  <2>2. \A i \in 1..N : key[i] \in Requests
    BY <1>4
  <2> HIDE DEF key, N
  <2>3. SumFunctionOnSet(GroupSums(s.taken, key, N, Requests), Requests) = SumFunctionOnSet(s.taken, 1..N)
    BY <1>3, <1>5, <2>1, <2>2, SumGroups, Zenon
  <2> QED BY <1>2, <2>3
<1>7. \A x \in Requests : A[x] = SumFunctionOnSet(s.taken, GroupOf(key, N, x)) /\ A[x] \in Nat
  <2> TAKE x \in Requests
  <2>1. GroupOf(key, N, x) \subseteq 1..N /\ A[x] = SumFunctionOnSet(s.taken, GroupOf(key, N, x))
    BY DEF GroupOf, GroupSums
  <2>2. \A i \in GroupOf(key, N, x) : s.taken[i] \in Nat
    BY <1>2, <2>1
  <2>3. IsFiniteSet(GroupOf(key, N, x))
    BY <1>3, <2>1, FinitePart
  <2> HIDE DEF A, key, N
  <2> QED BY <2>1, <2>2, <2>3, SumNat
<1>8. \A x \in Requests : GroupOf(key, N, x) = {i \in 1..Len(s.makers) : s.makers[i].req = x}
  BY <1>2 DEF GroupOf
<1>9. \A x \in Requests : got'[x] = got[x] + (IF x = r THEN s.filled ELSE 0) + A[x]
  <2> HIDE DEF A, key, N
  <2> QED BY <1>7, <1>8 DEF Traded
<1>10. \A x \in Requests : A[x] # 0 =>
         x # r /\ payload[x].kind \in {"order", "offer"} /\ payload[x].side = opp
  <2> TAKE x \in Requests
  <2>1. CASE \E i \in 1..N : key[i] = x
    BY <1>4, <2>1
  <2>2. CASE ~\E i \in 1..N : key[i] = x
    <3>1. GroupOf(key, N, x) = {}
      BY <2>2 DEF GroupOf
    <3> QED BY <1>7, <3>1, SumEmpty
  <2> QED BY <2>1, <2>2
<1> HIDE DEF A, key, N
<1>11. \A x \in Requests : move[x] \in Int /\ mine[x] \in Int /\ both[x] \in Int /\ old[x] = DueOf(x) /\ old[x] \in Int
  BY <1>2, <1>7, DueInt DEF Dues
<1>12. \A x \in Requests : DueOf(x)' = new[x]
  <2> SUFFICES ASSUME NEW x \in Requests PROVE DueOf(x)' = DueOf(x) + (move[x] + mine[x])
    BY <1>11
  <2>1. got[x] \in Nat /\ A[x] \in Nat /\ s.filled \in Nat /\ result[x].resting_qty \in Nat
    BY <1>2, <1>3, <1>7 DEF Results
  <2>2. CASE x = r
    <3>1. A[x] = 0 /\ move[x] = 0
      BY <1>10, <2>2
    <3>2. got'[x] = got[x] + s.filled
      BY <1>9, <2>1, <2>2, <3>1
    <3>3. /\ DueOf(x) = Signed(side, got[x]) /\ DueOf(x)' = Signed(side, got'[x])
      <4>1. Held(pc[x], result[x], got[x]) = got[x]
        BY <2>1, <2>2 DEF Held
      <4>2. Held(pc'[x], result'[x], got'[x]) = got'[x]
        BY <2>1, <2>2, <3>2 DEF Held
      <4> QED BY <2>2, <4>1, <4>2 DEF DueOf, Due
    <3>4. mine[x] = Signed(side, s.filled)
      BY <2>2
    <3> QED BY <2>1, <3>1, <3>2, <3>3, <3>4
  <2>3. CASE x # r
    <3>1. pc'[x] = pc[x] /\ result'[x] = result[x] /\ mine[x] = 0 /\ got'[x] = got[x] + A[x]
      BY <1>9, <2>1, <2>3 DEF Others
    <3>2. CASE A[x] = 0
      <4>1. got'[x] = got[x] /\ move[x] = 0
        BY <2>1, <3>1, <3>2
      <4>2. DueOf(x)' = DueOf(x)
        BY <3>1, <4>1, DueKept
      <4> QED BY <1>11, <3>1, <4>1, <4>2
    <3>3. CASE A[x] # 0
      <4>1. payload[x].kind \in {"order", "offer"} /\ payload[x].side = opp
        BY <1>10, <3>3
      <4>2. /\ DueOf(x) = Signed(opp, Held(pc[x], result[x], got[x]))
            /\ DueOf(x)' = Signed(opp, Held(pc[x], result[x], got'[x]))
        BY <3>1, <4>1 DEF DueOf, Due
      <4>3. Held(pc[x], result[x], got'[x]) = Held(pc[x], result[x], got[x]) + A[x]
            /\ Held(pc[x], result[x], got[x]) \in Int
        BY <2>1, <3>1 DEF Held
      <4> QED BY <2>1, <3>1, <4>2, <4>3
    <3> QED BY <3>2, <3>3
  <2> QED BY <2>2, <2>3
<1>13. SumFunctionOnSet(move, Requests) = Signed(opp, s.filled)
  <2>1. CASE opp = "Long"
    <3>1. \A x \in Requests : A[x] \in Int /\ move[x] = A[x]
      BY <1>7, <2>1
    <3> HIDE DEF move
    <3>2. SumFunctionOnSet(move, Requests) = SumFunctionOnSet(A, Requests)
      BY <1>5, <3>1, SumSame
    <3> QED BY <1>6, <2>1, <3>2
  <2>2. CASE opp # "Long"
    <3> DEFINE none == [x \in Requests |-> 0]
    <3>1. \A x \in Requests : A[x] \in Int /\ move[x] \in Int /\ none[x] = A[x] + move[x]
      BY <1>7, <2>2
    <3>2. \A x \in Requests : none[x] = 0
      OBVIOUS
    <3> HIDE DEF move, none
    <3>3. SumFunctionOnSet(none, Requests) = SumFunctionOnSet(A, Requests) + SumFunctionOnSet(move, Requests)
      BY <1>5, <3>1, SumPlus
    <3>4. SumFunctionOnSet(none, Requests) = 0
      BY <1>5, <3>2, SumZero
    <3>5. SumFunctionOnSet(move, Requests) \in Int
      BY <1>5, <3>1, SumInt
    <3> QED BY <1>2, <1>6, <2>2, <3>3, <3>4, <3>5
  <2> QED BY <2>1, <2>2
<1>14. SumFunctionOnSet(mine, Requests) = Signed(side, s.filled)
  <2>1. \A x \in Requests : mine[x] \in Int
    BY <1>11
  <2>2. (\A x \in Requests \ {r} : mine[x] = 0) /\ mine[r] = Signed(side, s.filled)
    OBVIOUS
  <2> HIDE DEF mine, Signed
  <2>3. \A x \in {r} : mine[x] = mine[x]
    OBVIOUS
  <2>4. \A x \in Requests \ {r} : mine[x] = 0
    BY <2>2
  <2>5. SumFunctionOnSet(mine, {r}) = SumFunctionOnSet(mine, Requests)
    BY <1>5, <2>1, <2>3, <2>4, SumWithin
  <2>6. SumFunctionOnSet(mine, {r}) = mine[r]
    BY <2>1, SumOne
  <2> QED BY <2>2, <2>5, <2>6
<1>15. SumFunctionOnSet(both, Requests) = 0
  <2>1. \A x \in Requests : move[x] \in Int /\ mine[x] \in Int /\ both[x] = move[x] + mine[x]
    BY <1>11
  <2>2. Signed(opp, s.filled) + Signed(side, s.filled) = 0
    BY <1>1, <1>2 DEF Opposite, Sides
  <2> HIDE DEF move, mine, both, Signed
  <2> QED BY <1>5, <1>13, <1>14, <2>1, <2>2, SumPlus
<1>16. SumFunctionOnSet(new, Requests) = SumFunctionOnSet(old, Requests)
  <2>1. \A x \in Requests : old[x] \in Int /\ both[x] \in Int /\ new[x] = old[x] + both[x]
    BY <1>11
  <2> HIDE DEF old, both, new
  <2>2. SumFunctionOnSet(new, Requests) = SumFunctionOnSet(old, Requests) + SumFunctionOnSet(both, Requests)
    BY <1>5, <2>1, SumPlus
  <2>3. SumFunctionOnSet(old, Requests) \in Int
    BY <1>5, <2>1, SumInt
  <2> QED BY <1>15, <2>2, <2>3
<1>17. Dues' = new
  <2>1. Dues' = [x \in Requests |-> DueOf(x)'] /\ new = [x \in Requests |-> new[x]]
    BY DEF Dues
  <2> HIDE DEF new
  <2> QED BY <1>12, <2>1
<1> HIDE DEF new
<1>18. backstop'.inventory + SumFunctionOnSet(old, Requests) = 0
  BY DEF Balanced
<1> QED BY <1>16, <1>17, <1>18 DEF Balanced

LEMMA SubmitOrderBalance ==
  ASSUME GatewayInv, GatewayInv', Balanced, NEW r \in Requests, SubmitOrder(r)
  PROVE  Balanced'
<1>1. pc[r] = "books" /\ payload[r].kind = "order" /\ payload' = payload /\ backstop' = backstop
  BY DEF SubmitOrder
<1>2. PICK s : s = Sweep(r)
  OBVIOUS
<1>3. PICK id \in FreeSlots(r, s) :
        /\ SubmitBook(r, s, id)
        /\ OnFromBook(r, s, [NoResult EXCEPT !.outcome = s.outcome, !.fills = FillsOf(s),
                               !.resting_id = id,
                               !.resting_qty = IF s.rests THEN payload[r].qty - s.filled ELSE 0])
  BY <1>2, Zenon DEF SubmitOrder, OnFromBook
<1>4. PICK res : OnFromBook(r, s, res)
  BY <1>3
<1>5. pc'[r] # "cancel" /\ Others(r)
  <2>1. CASE PastMatching(r, res)
    BY <2>1 DEF PastMatching, Others, GatewayInv, Types
  <2>2. CASE /\ result' = [result EXCEPT ![r] = res] /\ response' = response
             /\ pc' = [pc EXCEPT ![r] = "backstop"] \/ pc' = [pc EXCEPT ![r] = "rescue"]
    BY <2>2 DEF Others, GatewayInv, Types
  <2> QED BY <1>4, <2>1, <2>2 DEF OnFromBook
<1>6. got' = Traded(s, r)
  BY <1>3 DEF SubmitBook
<1> QED BY <1>1, <1>2, <1>5, <1>6, SubmitBalance

LEMMA SubmitOfferBalance ==
  ASSUME GatewayInv, GatewayInv', Balanced, NEW r \in Requests, SubmitOffer(r)
  PROVE  Balanced'
<1>1. pc[r] = "books" /\ payload[r].kind = "offer" /\ payload' = payload /\ backstop' = backstop
  BY DEF SubmitOffer
<1>2. PICK s : s = Sweep(r)
  OBVIOUS
<1>3. PICK id \in FreeSlots(r, s) :
        /\ SubmitBook(r, s, id)
        /\ result' = [result EXCEPT ![r].outcome = s.outcome, ![r].resting_id = id]
        /\ IF s.outcome = "post_only_rejected" THEN Respond(r, "rejected")
           ELSE IF s.rests THEN Respond(r, "resting")
           ELSE Respond(r, "panicked")
  BY <1>2, Zenon DEF SubmitOffer
<1>4. pc'[r] # "cancel" /\ Others(r)
  <2>1. PICK answer : Respond(r, answer)
    BY <1>3
  <2> QED BY <1>3, <2>1 DEF Respond, Others, GatewayInv, Types
<1>5. got' = Traded(s, r)
  BY <1>3 DEF SubmitBook
<1> QED BY <1>1, <1>2, <1>4, <1>5, SubmitBalance

LEMMA BalanceNext ==
  GatewayInv /\ GatewayInv' /\ Balanced /\ [Next]_vars => Balanced'
<1> SUFFICES ASSUME GatewayInv, GatewayInv', Balanced, [Next]_vars PROVE Balanced'
  OBVIOUS
<1>1. ASSUME NEW r \in Requests, NEW p \in Payloads, Receive(r, p) PROVE Balanced'
  BY <1>1, ReceiveBalance
<1>2. ASSUME NEW r \in Requests, CheckCollateral(r) \/ Fold(r) \/ Timeout(r) PROVE Balanced'
  BY <1>2, QuietBalance
<1>3. ASSUME NEW r \in Requests, Local(r) PROVE Balanced'
  BY <1>3, SubmitOrderBalance, SubmitOfferBalance, QuietBalance, BackstopTakeBalance,
     RescueQuoteBalance, RescueCancelBalance DEF Local
<1>4. ASSUME NEW price \in Prices, OraclePoll(price) PROVE Balanced'
  <2>1. price \in Nat /\ backstop \in Makers
    BY GatewayAssumption, InventoryInt DEF GatewayAssumption
  <2>2. backstop'.inventory = backstop.inventory
    BY <1>4, <2>1, PriceRecorded DEF OraclePoll
  <2>3. Dues' = Dues
    BY <1>4 DEF OraclePoll, Dues, DueOf
  <2> QED BY <2>2, <2>3 DEF Balanced
<1>5. CASE UNCHANGED vars
  BY <1>5 DEF vars, Balanced, Dues, DueOf
<1> QED BY <1>1, <1>2, <1>3, <1>4, <1>5 DEF Next

LEMMA BalanceInit ==
  Init => Balanced
<1> SUFFICES ASSUME Init PROVE Balanced
  OBVIOUS
<1>1. GatewayInv
  BY GatewayInit
<1>2. backstop.inventory = 0
  <2>1. NewMaker.inventory = 0 /\ NewMaker \in Makers /\ Warm \subseteq Nat
    BY NewMakerTyped, GatewayAssumption DEF NewMaker, GatewayAssumption
  <2>2. backstop = NewMaker \/ \E w \in Warm : backstop = record_price(NewMaker, w)
    BY DEF Init
  <2> QED BY <2>1, <2>2, PriceRecorded
<1>3. \A x \in Requests : Dues[x] = 0
  <2>1. \A x \in Requests : payload[x].kind = "none"
    BY DEF Init, NoPayload
  <2> QED BY <2>1 DEF Dues, DueOf, Due
<1>4. SumFunctionOnSet(Dues, Requests) = 0
  BY <1>3, RequestsFinite, SumZero
<1> QED BY <1>2, <1>4 DEF Balanced

LEMMA BalanceAlways ==
  Spec => []Balanced
<1>1. Init => Balanced
  BY BalanceInit
<1>2. GatewayInv /\ GatewayInv' /\ Balanced /\ [Next]_vars => Balanced'
  BY BalanceNext
<1> QED BY <1>1, <1>2, GatewayAlways, PTL DEF Spec

LEMMA BalanceFollows ==
  GatewayInv /\ Balanced => ZeroSum
<1> SUFFICES ASSUME GatewayInv, Balanced PROVE ZeroSum
  OBVIOUS
<1> DEFINE Pending == {x \in Traders : pc[x] = "cancel"}
           traded == [r \in Traders |-> SignedQty(r, got[r])]
           pending == [r \in Pending |-> SignedQty(r, result[r].resting_qty)]
           a == [r \in Requests |-> IF r \in Traders THEN SignedQty(r, got[r]) ELSE 0]
           b == [r \in Requests |-> IF r \in Pending THEN SignedQty(r, result[r].resting_qty) ELSE 0]
<1>1. Traders \subseteq Requests /\ Pending \subseteq Requests /\ IsFiniteSet(Requests)
  BY RequestsFinite DEF Traders
<1>2. \A r \in Requests : a[r] \in Int /\ b[r] \in Int /\ Dues[r] = a[r] + b[r]
  <2> TAKE r \in Requests
  <2>1. got[r] \in Nat /\ result[r] \in Results
    BY DEF GatewayInv, Types
  <2>2. result[r].resting_qty \in Nat
    BY <2>1 DEF Results
  <2> QED BY <2>1, <2>2 DEF Dues, DueOf, Due, Held, SignedQty, Traders
<1>3. /\ \A r \in Requests \ Traders : a[r] = 0
      /\ \A r \in Traders : traded[r] = a[r]
      /\ \A r \in Requests \ Pending : b[r] = 0
      /\ \A r \in Pending : pending[r] = b[r]
  BY <1>1
<1>4. DOMAIN traded = Traders /\ DOMAIN pending = Pending
  OBVIOUS
<1>5. ZeroSum <=> backstop.inventory = -(SumFunction(traded) + SumFunction(pending))
  BY Zenon DEF ZeroSum
<1> HIDE DEF a, b, traded, pending, Pending
<1>6. SumFunctionOnSet(traded, Traders) = SumFunctionOnSet(a, Requests)
  BY <1>1, <1>2, <1>3, SumWithin
<1>7. SumFunctionOnSet(pending, Pending) = SumFunctionOnSet(b, Requests)
  BY <1>1, <1>2, <1>3, SumWithin
<1>8. SumFunctionOnSet(Dues, Requests) = SumFunctionOnSet(a, Requests) + SumFunctionOnSet(b, Requests)
  BY <1>1, <1>2, SumPlus
<1>9. /\ SumFunction(traded) = SumFunctionOnSet(traded, Traders)
      /\ SumFunction(pending) = SumFunctionOnSet(pending, Pending)
  BY <1>4 DEF SumFunction
<1>10. SumFunctionOnSet(a, Requests) \in Int /\ SumFunctionOnSet(b, Requests) \in Int
  BY <1>1, <1>2, SumInt
<1> QED BY <1>5, <1>6, <1>7, <1>8, <1>9, <1>10, InventoryInt DEF Balanced

-----------------------------------------------------------------------------
(* What it says *)

LEMMA RestingAt ==
  ASSUME GatewayInv, NEW e \in Resting
  PROVE  e \in Entries /\ \E s \in Sides : Backed(e, s) /\ \E i \in 1..Len(queue[s]) : e = queue[s][i]
<1>1. PICK s \in Sides : \E i \in 1..Len(queue[s]) : e = queue[s][i]
  BY DEF Resting
<1> QED BY <1>1, EntryAt

LEMMA OwnersFollow ==
  GatewayInv => OrdersStayWithOwners
<1> SUFFICES ASSUME GatewayInv PROVE OrdersStayWithOwners
  OBVIOUS
<1>1. NoGhostOrders
  <2> SUFFICES ASSUME NEW e \in Resting, pc[e.req] = "done", response[e.req] # "timed_out"
               PROVE  response[e.req] = "resting" /\ result[e.req].resting_id = e.id
    BY DEF NoGhostOrders
  <2> QED BY RestingAt DEF Backed
<1>2. PostCancelsOwnOrder
  BY DEF GatewayInv, CancelsOwn, PostCancelsOwnOrder
<1> QED BY <1>1, <1>2 DEF OrdersStayWithOwners

LEMMA OverfilledFollows ==
  GatewayInv => OverfilledOnlyByRescue
<1> SUFFICES ASSUME GatewayInv, NEW r \in Traders, got[r] > payload[r].qty
             PROVE  /\ payload[r].kind = "order" /\ payload[r].tif = "GTC"
                    /\ \E k \in 1..Len(result[r].fills) : result[r].fills[k].maker = BACKSTOP
  BY DEF OverfilledOnlyByRescue
<1>1. r \in Requests /\ payload[r].kind \in {"order", "offer"}
  BY DEF Traders
<1>2. Fair(payload[r], pc[r], result[r], got[r])
  BY <1>1 DEF GatewayInv, Coherent
<1> QED BY <1>1, <1>2 DEF Fair

LEMMA PromisesFollow ==
  GatewayInv => OutcomeAsPromised
<1> SUFFICES ASSUME GatewayInv PROVE OutcomeAsPromised
  OBVIOUS
<1>1. TypeOK
  <2>1. /\ last_nonce \in [Signers -> Nonces \cup {0}] /\ got \in [Requests -> Nat] /\ polls \in 0..MaxPolls
        /\ pc \in [Requests -> Stages]
    BY DEF GatewayInv, Types
  <2>2. ASSUME NEW r \in Requests
        PROVE  /\ payload[r] \in Payloads \cup {NoPayload}
               /\ result[r].resting_id \in Ids \cup {NIL} /\ result[r].resting_qty \in Nat
               /\ \A k \in 1..Len(result[r].fills) :
                    result[r].fills[k].qty > 0 /\ result[r].fills[k].maker \in Requests \cup {BACKSTOP}
    <3>1. payload[r] \in Payloads \cup {NoPayload} /\ result[r] \in Results
      BY DEF GatewayInv, Types
    <3>2. PICK fills \in Seq(Fill) :
            /\ fills = result[r].fills /\ result[r].resting_id \in Ids \cup {NIL}
            /\ result[r].resting_qty \in Nat
      BY <3>1 DEF Results
    <3>3. \A k \in 1..Len(fills) : fills[k].qty > 0 /\ fills[k].maker \in Requests \cup {BACKSTOP}
      BY FillAt
    <3> QED BY <3>1, <3>2, <3>3
  <2>3. \A e \in Resting : e.qty > 0
    BY RestingAt, EntryFields
  <2>4. ASSUME NEW e \in Resting, NEW f \in Resting, e.id = f.id PROVE e = f
    <3>1. PICK s \in Sides : \E i \in 1..Len(queue[s]) : e = queue[s][i]
      BY RestingAt
    <3>2. PICK t \in Sides : \E i \in 1..Len(queue[t]) : f = queue[t][i]
      BY RestingAt
    <3> QED BY <2>4, <3>1, <3>2 DEF GatewayInv, Alone
  <2> QED BY <2>1, <2>2, <2>3, <2>4 DEF TypeOK, Stages
<1>2. \A r \in Requests : /\ Staged(payload[r], pc[r], result[r], response[r])
                          /\ Fair(payload[r], pc[r], result[r], got[r])
  BY DEF GatewayInv, Coherent
<1>3. FillOrKillWhole
  BY <1>2 DEF FillOrKillWhole, Traders, Fair
<1>4. RejectedUnlessPostOnlyIoc
  <2> SUFFICES ASSUME NEW r \in Traders, response[r] = "rejected", got[r] # 0
               PROVE  /\ payload[r].kind = "order" /\ payload[r].tif = "IOC" /\ payload[r].post_only
                      /\ \A k \in 1..Len(result[r].fills) : result[r].fills[k].maker = BACKSTOP
    BY DEF RejectedUnlessPostOnlyIoc
  <2>1. r \in Requests
    BY DEF Traders
  <2>2. result[r].outcome # "accepted"
    BY <1>2, <2>1 DEF Staged
  <2>3. /\ payload[r].kind = "order" /\ payload[r].tif = "IOC" /\ payload[r].post_only
        /\ OnlyBackstop(result[r].fills)
    BY <1>2, <2>1, <2>2 DEF Fair
  <2> QED BY <2>3 DEF OnlyBackstop
<1>5. BookFillsWithinLimit
  BY <1>2 DEF BookFillsWithinLimit, Traders, Fair
<1>6. NoReplay
  BY DEF GatewayInv
<1> QED BY <1>1, <1>3, <1>4, <1>5, <1>6 DEF OutcomeAsPromised

\* Whatever handlers run in between, and wherever a slot is handed on: an order
\* rests for the signer who sent it, an answered signer knows its id, and only
\* that signer's post_cancel takes it out.
THEOREM OrdersAlwaysWithOwners == Spec => []OrdersStayWithOwners
BY GatewayAlways, OwnersFollow, PTL

\* What post_order answers is what happened to the order: Fill-or-Kill over the
\* book and the backstop together, the limit in the book, no trade behind a
\* rejection (but for a post-only order that is IOC), one run for a payload.
THEOREM OutcomeAlwaysAsPromised == Spec => []OutcomeAsPromised
BY GatewayAlways, PromisesFollow, PTL

\* No order trades more than its quantity but one that the backstop filled
\* between the rescue's quote and its cancel.
THEOREM OnlyRescueOverfills == Spec => []OverfilledOnlyByRescue
BY GatewayAlways, OverfilledFollows, PTL

\* What the longs bought less what the shorts sold is what the backstop is short
\* of, whichever handlers were between their steps or dropped at the time limit:
\* no fill has one side only.
THEOREM TradesSumToZero == Spec => []ZeroSum
BY GatewayAlways, BalanceAlways, BalanceFollows, PTL
=============================================================================
