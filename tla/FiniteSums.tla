----------------------------- MODULE FiniteSums -----------------------------
(***************************************************************************)
(* Facts the proofs of the other modules share: induction on the naturals, *)
(* the smaller and larger of two numbers, and sums over finite sets: what  *)
(* SumFunctionOnSet, a fold that picks the elements in an order nobody     *)
(* knows, returns when an element is added, removed or given another       *)
(* value.  Induction is over the size of the set, through the least        *)
(* element of the sizes for which a statement would fail.                  *)
(***************************************************************************)
EXTENDS Integers, FiniteSets, FiniteSetsExt, Functions, FiniteSetTheorems, WellFoundedInduction, TLAPS

-----------------------------------------------------------------------------
(* Induction on the naturals, with the statement as a set *)

\* A nonempty set of naturals has a least element.
LEMMA LeastOf ==
  ASSUME NEW T, T \subseteq Nat, T # {}
  PROVE  \E x \in T : \A y \in T : x <= y
<1>1. PICK x \in T : \A y \in T : ~(<<y, x>> \in OpToRel(<, Nat))
  BY NatLessThanWellFounded, WFMin
<1>2. OpToRel(<, Nat) = {r \in Nat \X Nat : r[1] < r[2]}
  BY Zenon DEF OpToRel
<1>3. \A y \in T : ~(y < x)
  <2> SUFFICES ASSUME NEW y \in T, y < x PROVE FALSE
    OBVIOUS
  <2> DEFINE p == <<y, x>>
  <2>1. p \in Nat \X Nat /\ p[1] < p[2]
    OBVIOUS
  <2> HIDE DEF p
  <2>2. p \in OpToRel(<, Nat)
    BY <2>1, <1>2, Zenon
  <2> QED BY <2>2, <1>1, Zenon DEF p
<1> QED BY <1>3

\* A set that holds 0 and the successor of each of its numbers holds every
\* natural.
LEMMA Induction ==
  ASSUME NEW G, 0 \in G, \A n \in Nat : n \in G => n + 1 \in G
  PROVE  Nat \subseteq G
<1> DEFINE B == Nat \ G
<1> SUFFICES ASSUME B # {} PROVE FALSE
  OBVIOUS
<1>1. PICK x \in B : \A y \in B : x <= y
  <2>1. B \subseteq Nat
    OBVIOUS
  <2> HIDE DEF B
  <2> QED BY <2>1, LeastOf
<1>2. x \in Nat /\ x # 0 /\ x \notin G
  OBVIOUS
<1>3. x - 1 \in Nat /\ x - 1 \in G
  BY <1>1, <1>2
<1> QED BY <1>2, <1>3

\* A value built in N steps from a first one, each step from the value before.
StepsOf(V, N) == [V \X (1..N) -> V]

RunOf(run, V, N, a, step) ==
  run \in [0..N -> V] /\ run[0] = a /\ \A n \in 1..N : run[n] = step[<<run[n - 1], n>>]

LEMMA RunExists ==
  ASSUME NEW V, NEW N \in Nat, NEW a \in V, NEW step \in StepsOf(V, N)
  PROVE  \E run : RunOf(run, V, N, a, step)
<1> USE DEF StepsOf
<1> DEFINE Runs(run, n) == /\ run \in [0..n -> V] /\ run[0] = a
                           /\ \A k \in 1..n : run[k] = step[<<run[k - 1], k>>]
           Good(n) == \E run : Runs(run, n)
           G == {n \in Nat : n <= N => Good(n)}
<1>1. 0 \in G
  <2>1. Runs([k \in 0..0 |-> a], 0)
    OBVIOUS
  <2> QED BY <2>1
<1>2. \A n \in Nat : n \in G => n + 1 \in G
  <2> SUFFICES ASSUME NEW n \in Nat, n + 1 <= N, Good(n) PROVE Good(n + 1)
    <3> HIDE DEF Good
    <3> QED OBVIOUS
  <2>1. PICK run : Runs(run, n)
    OBVIOUS
  <2> DEFINE m == n + 1
             next == step[<<run[n], m>>]
             longer == [k \in 0..m |-> IF k = m THEN next ELSE run[k]]
  <2>2. n \in 0..n /\ run[n] \in V /\ m \in 1..N
    BY <2>1
  <2>3. next \in V
    BY <2>2
  <2>4. /\ longer \in [0..m -> V] /\ longer[m] = next /\ \A k \in 0..n : longer[k] = run[k]
    <3> HIDE DEF next
    <3> QED BY <2>1, <2>3
  <2> HIDE DEF longer, next
  <2>5. 0 \in 0..n /\ m - 1 = n /\ \A k \in 1..m : k = m \/ (k \in 1..n /\ k \in 0..n /\ k - 1 \in 0..n)
    OBVIOUS
  <2>6. \A k \in 1..m : longer[k] = step[<<longer[k - 1], k>>]
    <3> TAKE k \in 1..m
    <3>1. CASE k = m
      BY <2>2, <2>4, <2>5, <3>1 DEF next
    <3>2. CASE k # m
      BY <2>1, <2>4, <2>5, <3>2
    <3> QED BY <3>1, <3>2
  <2>7. Runs(longer, m)
    BY <2>1, <2>4, <2>5, <2>6
  <2> QED BY <2>7
<1> HIDE DEF G
<1>3. Nat \subseteq G
  BY <1>1, <1>2, Induction
<1> USE DEF G
<1>4. Good(N)
  <2>1. N <= N
    OBVIOUS
  <2> HIDE DEF Good
  <2> QED BY <1>3, <2>1
<1> QED BY <1>4 DEF RunOf

-----------------------------------------------------------------------------
(* The fold *)

Some(s) == CHOOSE x \in s : TRUE

\* g sums f over every subset of S, taking one element at a time.
SumsUp(g, f, S) ==
  g = [s \in SUBSET S |-> IF s = {} THEN 0 ELSE f[Some(s)] + g[s \ {Some(s)}]]

UpTo(S, n) == {s \in SUBSET S : Cardinality(s) <= n}

LEMMA SomeIn ==
  ASSUME NEW s, s # {}
  PROVE  Some(s) \in s
BY DEF Some

\* Taking the chosen element away leaves a subset one smaller.
LEMMA Smaller ==
  ASSUME NEW S, IsFiniteSet(S), NEW n \in Nat, NEW s \in SUBSET S, NEW x \in s
  PROVE  /\ s \in UpTo(S, n + 1) => s \ {x} \in UpTo(S, n)
         /\ s \in UpTo(S, n) => s \ {x} \in UpTo(S, n)
<1>1. IsFiniteSet(s)
  BY FS_Subset
<1>2. Cardinality(s \ {x}) = Cardinality(s) - 1 /\ Cardinality(s) \in Nat
  BY <1>1, FS_RemoveElement, FS_CardinalityType
<1> QED BY <1>2 DEF UpTo


\* A finite set of naturals has a greatest one.
LEMMA GreatestOf ==
  ASSUME NEW T, IsFiniteSet(T), T \subseteq Nat, T # {}
  PROVE  \E x \in T : \A y \in T : y <= x
<1> DEFINE Has(s) == s = {} \/ \E x \in s : \A y \in s : y <= x
           G == {n \in Nat : \A s \in UpTo(T, n) : Has(s)}
<1>1. 0 \in G
  <2>1. \A s \in UpTo(T, 0) : s = {}
    <3> TAKE s \in UpTo(T, 0)
    <3>1. s \subseteq T /\ Cardinality(s) <= 0
      BY DEF UpTo
    <3>2. IsFiniteSet(s)
      BY <3>1, FS_Subset
    <3> QED BY <3>1, <3>2, FS_EmptySet, FS_CardinalityType
  <2> QED BY <2>1
<1>2. \A n \in Nat : n \in G => n + 1 \in G
  <2> SUFFICES ASSUME NEW n \in Nat, n \in G, NEW s \in UpTo(T, n + 1), s # {}
               PROVE  \E x \in s : \A y \in s : y <= x
    OBVIOUS
  <2>1. s \subseteq T /\ s \subseteq Nat
    BY DEF UpTo
  <2>2. PICK e \in s : TRUE
    OBVIOUS
  <2>3. s \ {e} \in UpTo(T, n)
    BY <2>1, Smaller
  <2>4. CASE s \ {e} = {}
    BY <2>1, <2>2, <2>4
  <2>5. CASE s \ {e} # {}
    <3>1. PICK x \in s \ {e} : \A y \in s \ {e} : y <= x
      BY <2>3, <2>5
    <3>2. CASE e <= x
      BY <3>1, <3>2
    <3>3. CASE ~(e <= x)
      <4>1. \A y \in s : y <= e
        BY <2>1, <3>1, <3>3
      <4> QED BY <4>1
    <3> QED BY <3>2, <3>3
  <2> QED BY <2>4, <2>5
<1> HIDE DEF G
<1>3. Nat \subseteq G
  BY <1>1, <1>2, Induction
<1> USE DEF G
<1>4. T \in UpTo(T, Cardinality(T)) /\ Cardinality(T) \in Nat
  BY FS_CardinalityType DEF UpTo
<1> QED BY <1>3, <1>4

\* Whatever values f gives, some g sums f over every subset.
LEMMA SumsExist ==
  ASSUME NEW S, IsFiniteSet(S), NEW f, \A x \in S : f[x] \in Int
  PROVE  \E g \in [SUBSET S -> Int] : SumsUp(g, f, S)
<1> DEFINE Body(g, s) == IF s = {} THEN 0 ELSE f[Some(s)] + g[s \ {Some(s)}]
           Good(n) == \E g \in [UpTo(S, n) -> Int] : \A s \in UpTo(S, n) : g[s] = Body(g, s)
           G == {n \in Nat : Good(n)}
<1>1. 0 \in G
  <2> DEFINE g == [s \in UpTo(S, 0) |-> 0]
  <2>1. \A s \in UpTo(S, 0) : s = {}
    BY FS_Subset, FS_EmptySet, FS_CardinalityType DEF UpTo
  <2>2. g \in [UpTo(S, 0) -> Int] /\ \A s \in UpTo(S, 0) : g[s] = Body(g, s)
    BY <2>1
  <2> QED BY <2>2
<1>2. \A n \in Nat : Good(n) => Good(n + 1)
  <2> TAKE n \in Nat
  <2> HAVE Good(n)
  <2>1. PICK g \in [UpTo(S, n) -> Int] : \A s \in UpTo(S, n) : g[s] = Body(g, s)
    OBVIOUS
  <2> DEFINE h == [s \in UpTo(S, n + 1) |-> Body(g, s)]
  <2>2. \A s \in UpTo(S, n + 1) : s # {} => /\ Some(s) \in S
                                           /\ s \ {Some(s)} \in UpTo(S, n)
    BY SomeIn, Smaller DEF UpTo
  <2>3. h \in [UpTo(S, n + 1) -> Int]
    BY <2>2
  <2>4. UpTo(S, n) \subseteq UpTo(S, n + 1)
    BY FS_Subset, FS_CardinalityType DEF UpTo
  <2>5. \A s \in UpTo(S, n) : h[s] = g[s]
    BY <2>1, <2>4
  <2>6. \A s \in UpTo(S, n + 1) : h[s] = Body(h, s)
    BY <2>2, <2>5
  <2> QED BY <2>3, <2>6
<1>3. Good(Cardinality(S))
  <2>1. Cardinality(S) \in Nat
    BY FS_CardinalityType
  <2>2. \A n \in Nat : n \in G => n + 1 \in G
    <3> HIDE DEF Good
    <3> QED BY <1>2
  <2>3. Nat \subseteq G
    <3> HIDE DEF G
    <3> QED BY <1>1, <2>2, Induction
  <2> QED BY <2>1, <2>3
<1>4. UpTo(S, Cardinality(S)) = SUBSET S
  BY FS_Subset DEF UpTo
<1>5. PICK g \in [SUBSET S -> Int] : \A s \in SUBSET S : g[s] = Body(g, s)
  BY <1>3, <1>4
<1>6. g = [s \in SUBSET S |-> Body(g, s)]
  BY <1>5
<1> QED BY <1>6 DEF SumsUp

\* Two sums over the subsets of S and of T agree where f and h do.
LEMMA SumsAgree ==
  ASSUME NEW S, NEW T, IsFiniteSet(S), NEW U, U \subseteq S, U \subseteq T,
         NEW f, NEW h, \A x \in U : f[x] = h[x],
         NEW g, SumsUp(g, f, S), NEW k, SumsUp(k, h, T)
  PROVE  g[U] = k[U]
<1> DEFINE G == {n \in Nat : \A s \in UpTo(U, n) : g[s] = k[s]}
<1>0. IsFiniteSet(U)
  BY FS_Subset
<1>1. 0 \in G
  <2>1. \A s \in UpTo(U, 0) : s = {}
    BY <1>0, FS_Subset, FS_EmptySet, FS_CardinalityType DEF UpTo
  <2>2. g[{}] = 0 /\ k[{}] = 0
    BY DEF SumsUp
  <2> QED BY <2>1, <2>2
<1>2. \A n \in Nat : n \in G => n + 1 \in G
  <2> SUFFICES ASSUME NEW n \in Nat, n \in G, NEW s \in UpTo(U, n + 1) PROVE g[s] = k[s]
    OBVIOUS
  <2>1. CASE s = {}
    BY <2>1 DEF SumsUp
  <2>2. CASE s # {}
    <3>1. s \in SUBSET U /\ Some(s) \in U /\ s \ {Some(s)} \in UpTo(U, n)
      BY <1>0, <2>2, SomeIn, Smaller DEF UpTo
    <3>2. g[s] = f[Some(s)] + g[s \ {Some(s)}] /\ k[s] = h[Some(s)] + k[s \ {Some(s)}]
      BY <2>2, <3>1 DEF SumsUp
    <3> QED BY <3>1, <3>2
  <2> QED BY <2>1, <2>2
<1>3. Cardinality(U) \in G
  <2>1. Cardinality(U) \in Nat
    BY <1>0, FS_CardinalityType
  <2> HIDE DEF G
  <2> QED BY <1>1, <1>2, <2>1, Induction
<1>4. U \in UpTo(U, Cardinality(U))
  BY <1>0, FS_CardinalityType DEF UpTo
<1> QED BY <1>3, <1>4

-----------------------------------------------------------------------------
(* SumFunctionOnSet *)

\* The sum is the value of such a g.
LEMMA SumIsThat ==
  ASSUME NEW S, IsFiniteSet(S), NEW f, \A x \in S : f[x] \in Int
  PROVE  \E g \in [SUBSET S -> Int] : SumsUp(g, f, S) /\ SumFunctionOnSet(f, S) = g[S]
<1> DEFINE it == CHOOSE g : SumsUp(g, f, S)
<1>1. PICK k \in [SUBSET S -> Int] : SumsUp(k, f, S)
  BY SumsExist
<1>2. SumsUp(it, f, S)
  BY <1>1
<1>3. SumFunctionOnSet(f, S) = it[S]
  BY Zenon DEF SumFunctionOnSet, FoldFunctionOnSet, MapThenFoldSet, SumsUp, Some
<1>4. it = k
  <2> HIDE DEF it
  <2>1. \A s \in SUBSET S : it[s] = k[s]
    BY <1>1, <1>2, SumsAgree
  <2>2. it = [s \in SUBSET S |-> it[s]]
    BY <1>2 DEF SumsUp
  <2> QED BY <2>1, <2>2
<1> QED BY <1>1, <1>3, <1>4

\* The sum of integers is one.
LEMMA SumInt ==
  ASSUME NEW S, IsFiniteSet(S), NEW f, \A x \in S : f[x] \in Int
  PROVE  SumFunctionOnSet(f, S) \in Int
<1>1. PICK g \in [SUBSET S -> Int] : SumsUp(g, f, S) /\ SumFunctionOnSet(f, S) = g[S]
  BY SumIsThat
<1> QED BY <1>1

LEMMA SumNat ==
  ASSUME NEW S, IsFiniteSet(S), NEW f, \A x \in S : f[x] \in Nat
  PROVE  SumFunctionOnSet(f, S) \in Nat
<1>0. \A x \in S : f[x] \in Int
  OBVIOUS
<1>1. PICK g \in [SUBSET S -> Int] : SumsUp(g, f, S) /\ SumFunctionOnSet(f, S) = g[S]
  BY <1>0, SumIsThat
<1> DEFINE G == {n \in Nat : \A s \in UpTo(S, n) : g[s] \in Nat}
<1>2. 0 \in G
  <2>1. \A s \in UpTo(S, 0) : s = {}
    BY FS_Subset, FS_EmptySet, FS_CardinalityType DEF UpTo
  <2>2. g[{}] = 0
    BY <1>1 DEF SumsUp
  <2>3. \A s \in UpTo(S, 0) : g[s] = 0
    BY <2>1, <2>2, Zenon
  <2> QED BY <2>3
<1>3. \A n \in Nat : n \in G => n + 1 \in G
  <2> SUFFICES ASSUME NEW n \in Nat, n \in G, NEW s \in UpTo(S, n + 1) PROVE g[s] \in Nat
    OBVIOUS
  <2>1. CASE s = {}
    BY <1>1, <2>1 DEF SumsUp
  <2>2. CASE s # {}
    <3>1. s \in SUBSET S /\ Some(s) \in S /\ s \ {Some(s)} \in UpTo(S, n)
      BY <2>2, SomeIn, Smaller DEF UpTo
    <3>2. g[s] = f[Some(s)] + g[s \ {Some(s)}]
      BY <1>1, <2>2, <3>1 DEF SumsUp
    <3> QED BY <3>1, <3>2
  <2> QED BY <2>1, <2>2
<1>4. Cardinality(S) \in G
  <2>1. Cardinality(S) \in Nat
    BY FS_CardinalityType
  <2> HIDE DEF G
  <2> QED BY <1>2, <1>3, <2>1, Induction
<1>5. S \in UpTo(S, Cardinality(S))
  BY FS_CardinalityType DEF UpTo
<1> QED BY <1>1, <1>4, <1>5

LEMMA SumEmpty ==
  ASSUME NEW f
  PROVE  SumFunctionOnSet(f, {}) = 0
<1>1. PICK g \in [SUBSET {} -> Int] : SumsUp(g, f, {}) /\ SumFunctionOnSet(f, {}) = g[{}]
  BY SumIsThat, FS_EmptySet
<1> QED BY <1>1 DEF SumsUp

\* Only the values on S count.
LEMMA SumSame ==
  ASSUME NEW S, IsFiniteSet(S), NEW f, NEW h,
         \A x \in S : f[x] \in Int, \A x \in S : h[x] = f[x]
  PROVE  SumFunctionOnSet(h, S) = SumFunctionOnSet(f, S)
<1>1. PICK g \in [SUBSET S -> Int] : SumsUp(g, f, S) /\ SumFunctionOnSet(f, S) = g[S]
  BY SumIsThat
<1>2. PICK k \in [SUBSET S -> Int] : SumsUp(k, h, S) /\ SumFunctionOnSet(h, S) = k[S]
  BY SumIsThat
<1> QED BY <1>1, <1>2, SumsAgree

\* An element can be taken out of the sum, whichever the fold would pick.
LEMMA SumRemove ==
  ASSUME NEW S, IsFiniteSet(S), NEW f, \A x \in S : f[x] \in Int, NEW e \in S
  PROVE  SumFunctionOnSet(f, S) = f[e] + SumFunctionOnSet(f, S \ {e})
<1>0. PICK g \in [SUBSET S -> Int] : SumsUp(g, f, S) /\ SumFunctionOnSet(f, S) = g[S]
  BY SumIsThat
<1> DEFINE Good(n) == \A s \in UpTo(S, n) : \A x \in s : g[s] = f[x] + g[s \ {x}]
           G == {n \in Nat : Good(n)}
<1>1. 0 \in G
  <2>1. \A s \in UpTo(S, 0) : s = {}
    BY FS_Subset, FS_EmptySet, FS_CardinalityType DEF UpTo
  <2> QED BY <2>1
<1>2. \A n \in Nat : Good(n) => Good(n + 1)
  <2> TAKE n \in Nat
  <2> HAVE Good(n)
  <2> TAKE s \in UpTo(S, n + 1)
  <2> TAKE x \in s
  <2> DEFINE y == Some(s)
  <2>1. s \in SUBSET S /\ x \in S /\ y \in s /\ y \in S
    BY SomeIn DEF UpTo
  <2>2. s \ {x} \in UpTo(S, n) /\ s \ {y} \in UpTo(S, n)
    BY <2>1, Smaller
  <2>3. g[s] = f[y] + g[s \ {y}]
    BY <2>1, <1>0 DEF SumsUp
  <2> HIDE DEF y
  <2>4. CASE x = y
    BY <2>3, <2>4
  <2>5. CASE x # y
    <3>1. x \in s \ {y} /\ y \in s \ {x} /\ (s \ {y}) \ {x} = (s \ {x}) \ {y}
      BY <2>1, <2>5
    <3>2. g[s \ {y}] = f[x] + g[(s \ {y}) \ {x}] /\ g[s \ {x}] = f[y] + g[(s \ {x}) \ {y}]
      BY <2>2, <3>1
    <3>3. f[x] \in Int /\ f[y] \in Int /\ g[(s \ {x}) \ {y}] \in Int
      BY <2>1
    <3>4. g[s] = f[y] + (f[x] + g[(s \ {x}) \ {y}])
      BY <2>3, <3>1, <3>2
    <3>5. f[x] + g[s \ {x}] = f[x] + (f[y] + g[(s \ {x}) \ {y}])
      BY <3>2
    <3> DEFINE rest == g[(s \ {x}) \ {y}]
    <3> HIDE DEF rest
    <3>6. \A i, j, r \in Int : i + (j + r) = j + (i + r)
      OBVIOUS
    <3> QED BY <3>3, <3>4, <3>5, <3>6, Zenon
  <2> QED BY <2>4, <2>5
<1>3. Good(Cardinality(S))
  <2>1. Cardinality(S) \in Nat
    BY FS_CardinalityType
  <2>2. \A n \in Nat : n \in G => n + 1 \in G
    <3> HIDE DEF Good
    <3> QED BY <1>2
  <2>3. Nat \subseteq G
    <3> HIDE DEF G
    <3> QED BY <1>1, <2>2, Induction
  <2> QED BY <2>1, <2>3
<1>4. S \in UpTo(S, Cardinality(S))
  BY FS_CardinalityType DEF UpTo
<1>5. g[S] = f[e] + g[S \ {e}]
  BY <1>3, <1>4
<1> HIDE DEF Good, G
<1>6. IsFiniteSet(S \ {e}) /\ \A x \in S \ {e} : f[x] \in Int
  BY FS_RemoveElement
<1>7. PICK k \in [SUBSET (S \ {e}) -> Int] :
        SumsUp(k, f, S \ {e}) /\ SumFunctionOnSet(f, S \ {e}) = k[S \ {e}]
  BY <1>6, SumIsThat
<1>8. k[S \ {e}] = g[S \ {e}]
  BY <1>0, <1>6, <1>7, SumsAgree
<1> QED BY <1>0, <1>5, <1>7, <1>8

\* Another element adds its value.
LEMMA SumAdd ==
  ASSUME NEW S, IsFiniteSet(S), NEW e, e \notin S, NEW f, NEW h,
         \A x \in S : f[x] \in Int, \A x \in S : h[x] = f[x], h[e] \in Int
  PROVE  SumFunctionOnSet(h, S \cup {e}) = SumFunctionOnSet(f, S) + h[e]
<1>1. IsFiniteSet(S \cup {e}) /\ (S \cup {e}) \ {e} = S /\ \A x \in S \cup {e} : h[x] \in Int
  BY FS_AddElement
<1>2. SumFunctionOnSet(h, S \cup {e}) = h[e] + SumFunctionOnSet(h, S)
  BY <1>1, SumRemove
<1>3. SumFunctionOnSet(h, S) = SumFunctionOnSet(f, S) /\ SumFunctionOnSet(f, S) \in Int
  BY SumSame, SumInt
<1> QED BY <1>2, <1>3

\* A changed value changes the sum by as much.
LEMMA SumChange ==
  ASSUME NEW S, IsFiniteSet(S), NEW e \in S, NEW f, NEW h,
         \A x \in S : f[x] \in Int, \A x \in S \ {e} : h[x] = f[x], h[e] \in Int
  PROVE  SumFunctionOnSet(h, S) = SumFunctionOnSet(f, S) + h[e] - f[e]
<1>1. IsFiniteSet(S \ {e}) /\ \A x \in S : h[x] \in Int
  BY FS_RemoveElement
<1>2. SumFunctionOnSet(h, S) = h[e] + SumFunctionOnSet(h, S \ {e})
  BY <1>1, SumRemove
<1>3. SumFunctionOnSet(f, S) = f[e] + SumFunctionOnSet(f, S \ {e})
  BY SumRemove
<1>4. SumFunctionOnSet(h, S \ {e}) = SumFunctionOnSet(f, S \ {e})
  BY <1>1, SumSame
<1>5. SumFunctionOnSet(f, S \ {e}) \in Int /\ f[e] \in Int
  BY <1>1, SumInt
<1> QED BY <1>2, <1>3, <1>4, <1>5

LEMMA SumZero ==
  ASSUME NEW S, IsFiniteSet(S), NEW f, \A x \in S : f[x] = 0
  PROVE  SumFunctionOnSet(f, S) = 0
<1>0. \A x \in S : f[x] \in Int
  OBVIOUS
<1>1. PICK g \in [SUBSET S -> Int] : SumsUp(g, f, S) /\ SumFunctionOnSet(f, S) = g[S]
  BY <1>0, SumIsThat
<1> DEFINE G == {n \in Nat : \A s \in UpTo(S, n) : g[s] = 0}
<1>2. 0 \in G
  <2>1. \A s \in UpTo(S, 0) : s = {}
    BY FS_Subset, FS_EmptySet, FS_CardinalityType DEF UpTo
  <2>2. g[{}] = 0
    BY <1>1 DEF SumsUp
  <2>3. \A s \in UpTo(S, 0) : g[s] = 0
    BY <2>1, <2>2, Zenon
  <2> QED BY <2>3
<1>3. \A n \in Nat : n \in G => n + 1 \in G
  <2> SUFFICES ASSUME NEW n \in Nat, n \in G, NEW s \in UpTo(S, n + 1) PROVE g[s] = 0
    OBVIOUS
  <2>1. CASE s = {}
    BY <1>1, <2>1 DEF SumsUp
  <2>2. CASE s # {}
    <3>1. s \in SUBSET S /\ Some(s) \in S /\ s \ {Some(s)} \in UpTo(S, n)
      BY <2>2, SomeIn, Smaller DEF UpTo
    <3>2. g[s] = f[Some(s)] + g[s \ {Some(s)}]
      BY <1>1, <2>2, <3>1 DEF SumsUp
    <3> QED BY <3>1, <3>2
  <2> QED BY <2>1, <2>2
<1>4. Cardinality(S) \in G
  <2>1. Cardinality(S) \in Nat
    BY FS_CardinalityType
  <2> HIDE DEF G
  <2> QED BY <1>2, <1>3, <2>1, Induction
<1>5. S \in UpTo(S, Cardinality(S))
  BY FS_CardinalityType DEF UpTo
<1> QED BY <1>1, <1>4, <1>5

\* Sums over the first numbers.
LEMMA OneMore ==
  ASSUME NEW n \in Nat
  PROVE  /\ IsFiniteSet(1..n) /\ 1..n + 1 = (1..n) \cup {n + 1} /\ n + 1 \notin 1..n
         /\ \A k \in 1..n : k \in 1..n + 1
<1>1. IsFiniteSet(1..n)
  BY FS_Interval
<1> QED BY <1>1

LEMMA SumNext ==
  ASSUME NEW n \in Nat, NEW f, NEW h,
         \A x \in 1..n : f[x] \in Int, \A x \in 1..n : h[x] = f[x], h[n + 1] \in Int
  PROVE  /\ SumFunctionOnSet(h, 1..n + 1) = SumFunctionOnSet(f, 1..n) + h[n + 1]
         /\ SumFunctionOnSet(f, 1..n) \in Int
<1> DEFINE T == 1..n + 1
           e == n + 1
<1>1. IsFiniteSet(T) /\ e \in T /\ T \ {e} = 1..n /\ IsFiniteSet(1..n)
  BY OneMore, FS_Interval
<1>2. \A x \in T : h[x] \in Int
  <2>1. \A x \in T : x \in 1..n \/ x = e
    OBVIOUS
  <2>2. h[e] \in Int
    OBVIOUS
  <2> HIDE DEF T, e
  <2> QED BY <2>1, <2>2
<1>3. SumFunctionOnSet(h, 1..n) = SumFunctionOnSet(f, 1..n) /\ SumFunctionOnSet(f, 1..n) \in Int
  BY <1>1, SumSame, SumInt
<1>4. h[e] \in Int
  OBVIOUS
<1> HIDE DEF T, e
<1>5. SumFunctionOnSet(h, T) = h[e] + SumFunctionOnSet(h, T \ {e})
  BY <1>1, <1>2, SumRemove
<1>6. SumFunctionOnSet(h, T \ {e}) = SumFunctionOnSet(f, 1..n)
  BY <1>1, <1>3, Zenon
<1>7. SumFunctionOnSet(h, T) = h[e] + SumFunctionOnSet(f, 1..n)
  BY <1>5, <1>6, Zenon
<1>8. SumFunctionOnSet(h, T) = SumFunctionOnSet(f, 1..n) + h[e]
  BY <1>3, <1>4, <1>7
<1> QED BY <1>3, <1>8 DEF T, e

\* A sum of n numbers between two bounds.
LEMMA SumBetween ==
  ASSUME NEW N \in Nat, NEW f, NEW lo \in Int, NEW hi \in Int,
         \A x \in 1..N : f[x] \in Int /\ lo <= f[x] /\ f[x] <= hi
  PROVE  /\ SumFunctionOnSet(f, 1..N) \in Int
         /\ lo * N <= SumFunctionOnSet(f, 1..N) /\ SumFunctionOnSet(f, 1..N) <= hi * N
<1> DEFINE Sum(n) == SumFunctionOnSet(f, 1..n)
           Good(n) == Sum(n) \in Int /\ lo * n <= Sum(n) /\ Sum(n) <= hi * n
           G == {n \in Nat : n <= N => Good(n)}
<1>1. 0 \in G
  <2>1. 1..0 = {} /\ lo * 0 = 0 /\ hi * 0 = 0
    OBVIOUS
  <2>2. Sum(0) = 0
    BY <2>1, SumEmpty
  <2> HIDE DEF Sum
  <2> QED BY <2>1, <2>2
<1>2. \A n \in Nat : n \in G => n + 1 \in G
  <2> SUFFICES ASSUME NEW n \in Nat, n \in G, n + 1 <= N PROVE Good(n + 1)
    OBVIOUS
  <2>1. Good(n)
    OBVIOUS
  <2>2. (\A x \in 1..n : f[x] \in Int) /\ f[n + 1] \in Int /\ lo <= f[n + 1] /\ f[n + 1] <= hi
    <3>1. n + 1 \in 1..N /\ \A x \in 1..n : x \in 1..N
      OBVIOUS
    <3> QED BY <3>1
  <2>3. Sum(n + 1) = Sum(n) + f[n + 1]
    BY <2>2, SumNext
  <2>4. lo * (n + 1) = lo * n + lo /\ hi * (n + 1) = hi * n + hi /\ lo * n \in Int /\ hi * n \in Int
    OBVIOUS
  <2> DEFINE low == lo * n
             high == hi * n
             x == f[n + 1]
  <2> HIDE DEF Sum, low, high, x
  <2>5. Sum(n + 1) \in Int /\ low + lo <= Sum(n + 1) /\ Sum(n + 1) <= high + hi
    BY <2>1, <2>2, <2>3, <2>4 DEF low, high, x
  <2> QED BY <2>4, <2>5 DEF low, high
<1>3. N \in G
  <2> HIDE DEF G
  <2> QED BY <1>1, <1>2, Induction
<1> QED BY <1>3

-----------------------------------------------------------------------------
(* Sums taken together *)

\* A sum of sums, element by element.
LEMMA SumPlus ==
  ASSUME NEW S, IsFiniteSet(S), NEW f, NEW g, NEW h,
         \A x \in S : f[x] \in Int /\ g[x] \in Int /\ h[x] = f[x] + g[x]
  PROVE  SumFunctionOnSet(h, S) = SumFunctionOnSet(f, S) + SumFunctionOnSet(g, S)
<1> DEFINE Good(s) == SumFunctionOnSet(h, s) = SumFunctionOnSet(f, s) + SumFunctionOnSet(g, s)
           G == {n \in Nat : \A s \in UpTo(S, n) : Good(s)}
<1>1. 0 \in G
  <2>1. \A s \in UpTo(S, 0) : s = {}
    BY FS_Subset, FS_EmptySet, FS_CardinalityType DEF UpTo
  <2>2. Good({})
    BY SumEmpty
  <2> HIDE DEF Good
  <2> QED BY <2>1, <2>2
<1>2. \A n \in Nat : n \in G => n + 1 \in G
  <2> SUFFICES ASSUME NEW n \in Nat, n \in G, NEW s \in UpTo(S, n + 1), s # {} PROVE Good(s)
    <3>1. \A s : s = {} => Good(s)
      BY SumEmpty
    <3> HIDE DEF Good
    <3> QED BY <3>1
  <2>1. PICK e \in s : TRUE
    OBVIOUS
  <2>2. s \ {e} \in UpTo(S, n) /\ s \subseteq S
    BY Smaller DEF UpTo
  <2>3. IsFiniteSet(s) /\ IsFiniteSet(s \ {e})
    BY <2>2, FS_Subset
  <2>4. \A x \in s : f[x] \in Int /\ g[x] \in Int /\ h[x] \in Int
    BY <2>2
  <2>5. /\ SumFunctionOnSet(f, s) = f[e] + SumFunctionOnSet(f, s \ {e})
        /\ SumFunctionOnSet(g, s) = g[e] + SumFunctionOnSet(g, s \ {e})
        /\ SumFunctionOnSet(h, s) = h[e] + SumFunctionOnSet(h, s \ {e})
    BY <2>1, <2>3, <2>4, SumRemove
  <2>6. SumFunctionOnSet(f, s \ {e}) \in Int /\ SumFunctionOnSet(g, s \ {e}) \in Int
    BY <2>3, <2>4, SumInt
  <2>7. SumFunctionOnSet(h, s \ {e}) = SumFunctionOnSet(f, s \ {e}) + SumFunctionOnSet(g, s \ {e})
    BY <2>2
  <2>8. f[e] \in Int /\ g[e] \in Int /\ h[e] = f[e] + g[e]
    BY <2>1, <2>2
  <2> QED BY <2>5, <2>6, <2>7, <2>8
<1> HIDE DEF G
<1>3. Cardinality(S) \in G
  BY <1>1, <1>2, FS_CardinalityType, Induction
<1>4. S \in UpTo(S, Cardinality(S))
  BY FS_CardinalityType DEF UpTo
<1> QED BY <1>3, <1>4 DEF G

\* Zeros do not count.
LEMMA SumWithin ==
  ASSUME NEW S, IsFiniteSet(S), NEW U, U \subseteq S, NEW f, NEW h,
         \A x \in S : f[x] \in Int, \A x \in S \ U : f[x] = 0, \A x \in U : h[x] = f[x]
  PROVE  SumFunctionOnSet(h, U) = SumFunctionOnSet(f, S)
<1> DEFINE Good(s) == SumFunctionOnSet(f, s) = SumFunctionOnSet(f, s \cap U)
           G == {n \in Nat : \A s \in UpTo(S, n) : Good(s)}
<1>1. 0 \in G
  <2>1. \A s \in UpTo(S, 0) : s = {}
    BY FS_Subset, FS_EmptySet, FS_CardinalityType DEF UpTo
  <2>2. Good({})
    <3>1. {} \cap U = {}
      OBVIOUS
    <3> QED BY <3>1
  <2> HIDE DEF Good
  <2> QED BY <2>1, <2>2
<1>2. \A n \in Nat : n \in G => n + 1 \in G
  <2> SUFFICES ASSUME NEW n \in Nat, n \in G, NEW s \in UpTo(S, n + 1), s # {} PROVE Good(s)
    <3>1. \A s : s = {} => Good(s)
      <4>1. \A s : s = {} => s \cap U = s
        OBVIOUS
      <4> QED BY <4>1, Zenon
    <3> HIDE DEF Good
    <3> QED BY <3>1
  <2>1. PICK e \in s : TRUE
    OBVIOUS
  <2>2. s \ {e} \in UpTo(S, n) /\ s \subseteq S
    BY Smaller DEF UpTo
  <2>3. IsFiniteSet(s) /\ IsFiniteSet(s \cap U) /\ IsFiniteSet(s \ {e})
    BY <2>2, FS_Subset
  <2>4. \A x \in s : f[x] \in Int
    BY <2>2
  <2>5. SumFunctionOnSet(f, s) = f[e] + SumFunctionOnSet(f, s \ {e})
    BY <2>1, <2>3, <2>4, SumRemove
  <2>6. SumFunctionOnSet(f, s \ {e}) = SumFunctionOnSet(f, (s \ {e}) \cap U)
    BY <2>2
  <2>7. CASE e \in U
    <3>1. e \in s \cap U /\ (s \cap U) \ {e} = (s \ {e}) \cap U /\ \A x \in s \cap U : f[x] \in Int
      BY <2>1, <2>4, <2>7
    <3>2. SumFunctionOnSet(f, s \cap U) = f[e] + SumFunctionOnSet(f, (s \cap U) \ {e})
      BY <2>3, <3>1, SumRemove
    <3> QED BY <2>5, <2>6, <3>1, <3>2
  <2>8. CASE e \notin U
    <3>1. (s \ {e}) \cap U = s \cap U /\ f[e] = 0
      BY <2>1, <2>2, <2>8
    <3>2. SumFunctionOnSet(f, s \ {e}) \in Int
      BY <2>3, <2>4, SumInt
    <3>3. SumFunctionOnSet(f, s) = SumFunctionOnSet(f, s \ {e})
      BY <2>5, <3>1, <3>2
    <3> QED BY <2>6, <3>1, <3>3, Zenon
  <2> QED BY <2>7, <2>8
<1> HIDE DEF G
<1>3. Cardinality(S) \in G
  BY <1>1, <1>2, FS_CardinalityType, Induction
<1>4. S \in UpTo(S, Cardinality(S)) /\ S \cap U = U /\ IsFiniteSet(U)
  BY FS_CardinalityType, FS_Subset DEF UpTo
<1>5. SumFunctionOnSet(f, S) = SumFunctionOnSet(f, U)
  BY <1>3, <1>4 DEF G
<1>6. \A x \in U : f[x] \in Int
  OBVIOUS
<1>7. SumFunctionOnSet(h, U) = SumFunctionOnSet(f, U)
  BY <1>4, <1>6, SumSame
<1> QED BY <1>5, <1>7

\* A sum over other names for the same elements.
LEMMA SumRenamed ==
  ASSUME NEW S, IsFiniteSet(S), NEW T, NEW g, \A x \in S : g[x] \in T,
         \A x, y \in S : g[x] = g[y] => x = y, \A z \in T : \E x \in S : g[x] = z,
         NEW f, \A z \in T : f[z] \in Int, NEW h, \A x \in S : h[x] = f[g[x]]
  PROVE  /\ SumFunctionOnSet(h, S) = SumFunctionOnSet(f, T)
         /\ IsFiniteSet(T) /\ Cardinality(T) = Cardinality(S)
<1> DEFINE Named(s) == {g[x] : x \in s}
           Good(s) == /\ SumFunctionOnSet(h, s) = SumFunctionOnSet(f, Named(s))
                      /\ IsFiniteSet(Named(s)) /\ Cardinality(Named(s)) = Cardinality(s)
           G == {n \in Nat : \A s \in UpTo(S, n) : Good(s)}
<1>1. \A s : s = {} => Good(s)
  <2>1. Named({}) = {}
    OBVIOUS
  <2>2. SumFunctionOnSet(h, {}) = 0 /\ SumFunctionOnSet(f, {}) = 0 /\ IsFiniteSet({})
    BY SumEmpty, FS_EmptySet
  <2>3. Good({})
    BY <2>1, <2>2, Zenon
  <2> QED BY <2>3, Zenon
<1>2. 0 \in G
  <2>1. \A s \in UpTo(S, 0) : s = {}
    BY FS_Subset, FS_EmptySet, FS_CardinalityType DEF UpTo
  <2> HIDE DEF Good
  <2> QED BY <1>1, <2>1
<1>3. \A n \in Nat : n \in G => n + 1 \in G
  <2> SUFFICES ASSUME NEW n \in Nat, n \in G, NEW s \in UpTo(S, n + 1), s # {} PROVE Good(s)
    <3> HIDE DEF Good
    <3> QED BY <1>1
  <2>1. PICK e \in s : TRUE
    OBVIOUS
  <2>2. s \ {e} \in UpTo(S, n) /\ s \subseteq S
    BY Smaller DEF UpTo
  <2>3. IsFiniteSet(s) /\ IsFiniteSet(s \ {e}) /\ Cardinality(s) \in Nat
    BY <2>2, FS_Subset, FS_CardinalityType
  <2>4. Good(s \ {e})
    <3> HIDE DEF Good
    <3> QED BY <2>2
  <2> DEFINE rest == Named(s \ {e})
  <2>5. Named(s) = rest \cup {g[e]} /\ g[e] \notin rest /\ g[e] \in T /\ rest \subseteq T /\ rest = Named(s) \ {g[e]}
    BY <2>1, <2>2
  <2>6. \A x \in s : h[x] \in Int
    BY <2>2
  <2> HIDE DEF Named, rest
  <2>7. IsFiniteSet(rest) /\ IsFiniteSet(Named(s)) /\ Cardinality(Named(s)) = Cardinality(rest) + 1
    <3>1. IsFiniteSet(rest)
      BY <2>4 DEF rest
    <3>2. /\ IsFiniteSet(rest \cup {g[e]})
          /\ Cardinality(rest \cup {g[e]}) = IF g[e] \in rest THEN Cardinality(rest) ELSE Cardinality(rest) + 1
      BY <3>1, FS_AddElement
    <3> QED BY <2>5, <3>1, <3>2
  <2>8. Cardinality(s \ {e}) = Cardinality(s) - 1
    BY <2>1, <2>3, FS_RemoveElement
  <2>9. Cardinality(Named(s)) = Cardinality(s)
    BY <2>3, <2>4, <2>7, <2>8 DEF rest
  <2>10. SumFunctionOnSet(h, s) = h[e] + SumFunctionOnSet(h, s \ {e})
    BY <2>1, <2>3, <2>6, SumRemove
  <2>11. SumFunctionOnSet(f, Named(s)) = f[g[e]] + SumFunctionOnSet(f, rest)
    <3>1. \A z \in Named(s) : f[z] \in Int
      BY <2>5
    <3> QED BY <2>5, <2>7, <3>1, SumRemove
  <2>12. h[e] = f[g[e]]
    BY <2>1, <2>2
  <2> QED BY <2>4, <2>7, <2>9, <2>10, <2>11, <2>12 DEF rest
<1> HIDE DEF G
<1>4. Cardinality(S) \in G
  BY <1>2, <1>3, FS_CardinalityType, Induction
<1>5. S \in UpTo(S, Cardinality(S)) /\ Named(S) = T
  BY FS_CardinalityType DEF UpTo
<1> QED BY <1>4, <1>5 DEF G

\* Position by position or group by group, the sum is the same.
GroupOf(key, n, x) == {i \in 1..n : key[i] = x}
GroupSums(f, key, n, R) == [x \in R |-> SumFunctionOnSet(f, GroupOf(key, n, x))]

LEMMA SumGroups ==
  ASSUME NEW R, IsFiniteSet(R), NEW N \in Nat, NEW f, \A i \in 1..N : f[i] \in Int,
         NEW key, \A i \in 1..N : key[i] \in R
  PROVE  SumFunctionOnSet(GroupSums(f, key, N, R), R) = SumFunctionOnSet(f, 1..N)
<1> DEFINE Good(n) == SumFunctionOnSet(GroupSums(f, key, n, R), R) = SumFunctionOnSet(f, 1..n)
           G == {n \in Nat : n <= N => Good(n)}
<1>1. 0 \in G
  <2>1. 1..0 = {} /\ \A x \in R : GroupOf(key, 0, x) = {}
    BY DEF GroupOf
  <2>2. \A x \in R : GroupSums(f, key, 0, R)[x] = 0
    BY <2>1, SumEmpty DEF GroupSums
  <2>3. SumFunctionOnSet(GroupSums(f, key, 0, R), R) = 0 /\ SumFunctionOnSet(f, 1..0) = 0
    BY <2>1, <2>2, SumZero, SumEmpty
  <2> QED BY <2>3
<1>2. \A n \in Nat : n \in G => n + 1 \in G
  <2> SUFFICES ASSUME NEW n \in Nat, n + 1 <= N, Good(n) PROVE Good(n + 1)
    <3> HIDE DEF Good
    <3> QED OBVIOUS
  <2> DEFINE m == n + 1
             a == GroupSums(f, key, n, R)
             b == GroupSums(f, key, m, R)
             e == key[m]
  <2>1. m \in 1..N /\ m \notin 1..n /\ e \in R /\ f[m] \in Int
    OBVIOUS
  <2>2. \A i \in 1..n : f[i] \in Int
    OBVIOUS
  <2>3. \A x \in R : IsFiniteSet(GroupOf(key, n, x)) /\ \A i \in GroupOf(key, n, x) : f[i] \in Int
    <3> TAKE x \in R
    <3>1. GroupOf(key, n, x) \subseteq 1..n /\ IsFiniteSet(1..n)
      BY FS_Interval DEF GroupOf
    <3> QED BY <2>2, <3>1, FS_Subset
  <2>4. \A x \in R \ {e} : GroupOf(key, m, x) = GroupOf(key, n, x)
    BY DEF GroupOf
  <2>5. GroupOf(key, m, e) = GroupOf(key, n, e) \cup {m} /\ m \notin GroupOf(key, n, e)
    BY DEF GroupOf
  <2>6. /\ \A x \in R : a[x] = SumFunctionOnSet(f, GroupOf(key, n, x)) /\ a[x] \in Int
        /\ \A x \in R : b[x] = SumFunctionOnSet(f, GroupOf(key, m, x))
    BY <2>3, SumInt DEF GroupSums
  <2> HIDE DEF m, a, b, e
  <2>7. b[e] = a[e] + f[m]
    <3> DEFINE old == GroupOf(key, n, e)
    <3>1. IsFiniteSet(old) /\ m \notin old /\ \A i \in old : f[i] \in Int
      BY <2>1, <2>3, <2>5
    <3>2. SumFunctionOnSet(f, old \cup {m}) = SumFunctionOnSet(f, old) + f[m]
      <4> HIDE DEF old
      <4> QED BY <2>1, <3>1, SumAdd
    <3> QED BY <2>1, <2>5, <2>6, <3>2
  <2>8. \A x \in R \ {e} : b[x] = a[x]
    BY <2>4, <2>6
  <2>9. a[e] \in Int /\ b[e] \in Int
    BY <2>1, <2>6, <2>7
  <2>10. \A x \in R : a[x] \in Int
    BY <2>6
  <2>11. SumFunctionOnSet(b, R) = SumFunctionOnSet(a, R) + b[e] - a[e]
    BY <2>1, <2>8, <2>9, <2>10, SumChange
  <2>12. SumFunctionOnSet(a, R) \in Int
    BY <2>10, SumInt
  <2>13. SumFunctionOnSet(b, R) = SumFunctionOnSet(a, R) + f[m]
    BY <2>1, <2>7, <2>9, <2>11, <2>12
  <2>14. SumFunctionOnSet(f, 1..m) = SumFunctionOnSet(f, 1..n) + f[m]
    <3>1. f[n + 1] \in Int
      BY <2>1 DEF m
    <3> QED BY <2>2, <3>1, SumNext DEF m
  <2> QED BY <2>13, <2>14 DEF a, b, m
<1> HIDE DEF G
<1>3. N \in G
  BY <1>1, <1>2, Induction
<1> QED BY <1>3 DEF G

-----------------------------------------------------------------------------
(* The smaller and the larger of two numbers, and quotients *)

LEMMA MinTwo ==
  ASSUME NEW x \in Int, NEW y \in Int
  PROVE  /\ Min({x, y}) \in {x, y}
         /\ Min({x, y}) <= x /\ Min({x, y}) <= y
<1> DEFINE P(z) == \A v \in {x, y} : z <= v
<1>1. \E z \in {x, y} : P(z)
  BY x <= y \/ y <= x
<1>2. P(Min({x, y})) /\ Min({x, y}) \in {x, y}
  BY <1>1 DEF Min
<1> QED BY <1>2

LEMMA MaxTwo ==
  ASSUME NEW x \in Int, NEW y \in Int
  PROVE  /\ Max({x, y}) \in {x, y}
         /\ x <= Max({x, y}) /\ y <= Max({x, y})
<1> DEFINE P(z) == \A v \in {x, y} : z >= v
<1>1. \E z \in {x, y} : P(z)
  BY x <= y \/ y <= x
<1>2. P(Max({x, y})) /\ Max({x, y}) \in {x, y}
  BY <1>1 DEF Max
<1> QED BY <1>2

LEMMA MaxZero ==
  ASSUME NEW x \in Int
  PROVE  /\ Max({0, x}) \in {0, x}
         /\ 0 <= Max({0, x}) /\ x <= Max({0, x})
<1> DEFINE o == 0
<1>1. o \in Int
  OBVIOUS
<1> HIDE DEF o
<1>2. Max({o, x}) \in {o, x} /\ o <= Max({o, x}) /\ x <= Max({o, x})
  BY <1>1, MaxTwo
<1> QED BY <1>2 DEF o

\* A quotient of at most y times the divisor is at most y.
LEMMA QuotientBound ==
  ASSUME NEW x \in Nat, NEW y \in Nat, NEW d \in Nat \ {0}, x <= y * d
  PROVE  x \div d \in Nat /\ x \div d <= y
OBVIOUS

\* A greater dividend gives no smaller quotient.
LEMMA QuotientGrows ==
  ASSUME NEW x \in Nat, NEW y \in Nat, x <= y, NEW d \in Nat \ {0}
  PROVE  x \div d \in Nat /\ y \div d \in Nat /\ x \div d <= y \div d
<1> DEFINE q == x \div d
           r == y \div d
<1>1. q \in Nat /\ r \in Nat /\ q * d <= x /\ y < r * d + d
  OBVIOUS
<1> HIDE DEF q, r
<1>2. q <= r
  <2> SUFFICES ASSUME r + 1 <= q PROVE FALSE
    BY <1>1
  <2>1. (r + 1) * d <= q * d /\ (r + 1) * d = r * d + d
    BY <1>1
  <2> DEFINE u == (r + 1) * d
             v == q * d
             w == r * d
  <2>2. u \in Int /\ v \in Int /\ w \in Int
    BY <1>1
  <2> HIDE DEF u, v, w
  <2>3. u <= v /\ u = w + d /\ v <= x /\ y < w + d
    BY <1>1, <2>1 DEF u, v, w
  <2> QED BY <2>2, <2>3
<1> QED BY <1>1, <1>2 DEF q, r

\* A quotient by a positive number lies where its dividend does.
LEMMA QuotientBetween ==
  ASSUME NEW x \in Int, NEW lo \in Int, NEW hi \in Int, NEW d \in Nat \ {0},
         lo * d <= x, x <= hi * d
  PROVE  x \div d \in Int /\ lo <= x \div d /\ x \div d <= hi
<1> DEFINE q == x \div d
<1>1. q \in Int /\ q * d <= x /\ x < q * d + d
  OBVIOUS
<1> HIDE DEF q
<1>2. lo <= q
  <2> SUFFICES ASSUME q + 1 <= lo PROVE FALSE
    BY <1>1
  <2>1. (q + 1) * d <= lo * d /\ (q + 1) * d = q * d + d
    BY <1>1
  <2> DEFINE u == (q + 1) * d
             v == lo * d
             w == q * d
  <2>2. u \in Int /\ v \in Int /\ w \in Int
    BY <1>1
  <2> HIDE DEF u, v, w
  <2>3. u <= v /\ u = w + d /\ v <= x /\ x < w + d
    BY <1>1, <2>1 DEF u, v, w
  <2> QED BY <2>2, <2>3
<1>3. q <= hi
  <2> SUFFICES ASSUME hi + 1 <= q PROVE FALSE
    BY <1>1
  <2>1. (hi + 1) * d <= q * d /\ (hi + 1) * d = hi * d + d
    BY <1>1
  <2> DEFINE u == (hi + 1) * d
             v == q * d
             w == hi * d
  <2>2. u \in Int /\ v \in Int /\ w \in Int
    BY <1>1
  <2> HIDE DEF u, v, w
  <2>3. u <= v /\ u = w + d /\ x <= w /\ v <= x
    BY <1>1, <2>1 DEF u, v, w
  <2> QED BY <2>2, <2>3
<1> QED BY <1>1, <1>2, <1>3 DEF q

\* A product of two numbers within bounds is within the product of the bounds.
LEMMA ProductWithin ==
  ASSUME NEW a \in Nat, NEW b \in Nat, NEW x \in Int, NEW y \in 0..b, -a <= x, x <= a
  PROVE  x * y \in Int /\ a * b \in Nat /\ -(a * b) <= x * y /\ x * y <= a * b
<1>1. x * y \in Int /\ a * y \in Nat /\ a * b \in Nat /\ a * y <= a * b
  OBVIOUS
<1>2. x * y <= a * y /\ -(a * y) <= x * y
  OBVIOUS
<1> DEFINE u == x * y
           v == a * y
           w == a * b
<1> HIDE DEF u, v, w
<1>3. u \in Int /\ v \in Nat /\ w \in Nat /\ v <= w /\ u <= v /\ -v <= u
  BY <1>1, <1>2 DEF u, v, w
<1> QED BY <1>3 DEF u, v, w

\* What grows within a rate over k units of time, and then at most at that rate
\* over n more, stays within the rate over all of them.
LEMMA CapsAdd ==
  ASSUME NEW rate \in Nat, NEW r \in Int, -rate <= r, r <= rate, NEW n \in Nat, NEW k \in Nat,
         NEW d \in Int, d <= rate * k, -d <= rate * k
  PROVE  d + r * n <= rate * (n + k) /\ -(d + r * n) <= rate * (n + k)
<1>1. r * n <= rate * n /\ -(r * n) <= rate * n /\ r * n \in Int /\ rate * n \in Int /\ rate * k \in Int
  OBVIOUS
<1>2. rate * (n + k) = rate * n + rate * k
  OBVIOUS
<1> DEFINE x == r * n
           y == rate * n
           z == rate * k
<1> HIDE DEF x, y, z
<1>3. x \in Int /\ y \in Int /\ z \in Int /\ x <= y /\ -x <= y /\ d <= z /\ -d <= z
  BY <1>1 DEF x, y, z
<1>4. d + x <= y + z /\ -(d + x) <= y + z
  BY <1>3
<1> QED BY <1>2, <1>4 DEF x, y, z

-----------------------------------------------------------------------------
(* Folds of the numbers 1 to N in order, the way FoldLeft runs over a sequence *)

\* The greatest element of a nonempty set of numbers up to n.
LEMMA MaxOf ==
  ASSUME NEW n \in Nat, NEW s \in SUBSET (1..n), s # {}
  PROVE  /\ Max(s) \in s /\ \A y \in s : y <= Max(s)
         /\ n \in Nat \ {0} /\ s \ {Max(s)} \in SUBSET (1..n - 1)
<1>1. IsFiniteSet(s)
  <2>1. IsFiniteSet(1..n)
    BY FS_Interval
  <2> QED BY <2>1, FS_Subset
<1>2. s \subseteq Nat
  OBVIOUS
<1>3. PICK x \in s : \A y \in s : y <= x
  BY <1>1, <1>2, GreatestOf
<1>4. \E z \in s : \A y \in s : z >= y
  BY <1>2, <1>3
<1>5. Max(s) \in s /\ \A y \in s : Max(s) >= y
  BY <1>4, Zenon DEF Max
<1> DEFINE m == Max(s)
<1> HIDE DEF m
<1>6. m \in s /\ \A y \in s : m >= y
  BY <1>5, Zenon DEF m
<1>7. m \in 1..n /\ \A y \in s : y \in 1..n /\ (y # m => y \in 1..n - 1)
  BY <1>6
<1>8. s \ {m} \in SUBSET (1..n - 1)
  BY <1>7
<1> QED BY <1>6, <1>7, <1>8, <1>2 DEF m

\* g folds the numbers of every subset of 1..N from the smallest up.
FoldsUp(g, V, N, a, step) ==
  /\ g \in [SUBSET (1..N) -> V]
  /\ \A s \in SUBSET (1..N) : g[s] = IF s = {} THEN a ELSE step[<<g[s \ {Max(s)}], Max(s)>>]

LEMMA FoldExists ==
  ASSUME NEW V, NEW N \in Nat, NEW a \in V, NEW step \in StepsOf(V, N)
  PROVE  \E g : FoldsUp(g, V, N, a, step)
<1> DEFINE S == SUBSET (1..N)
           W == [S -> V]
           next(h, n, s) == IF s = {} \/ ~(s \subseteq 1..n) THEN a ELSE step[<<h[s \ {Max(s)}], Max(s)>>]
           stage == [p \in W \X (1..N) |-> [s \in S |-> next(p[1], p[2], s)]]
           first == [s \in S |-> a]
<1>1. \A h \in W, n \in 1..N, s \in S : next(h, n, s) \in V
  <2> SUFFICES ASSUME NEW h \in W, NEW n \in 1..N, NEW s \in S, s # {}, s \subseteq 1..n
               PROVE  step[<<h[s \ {Max(s)}], Max(s)>>] \in V
    OBVIOUS
  <2>1. Max(s) \in 1..N /\ s \ {Max(s)} \in S
    BY MaxOf
  <2>2. h[s \ {Max(s)}] \in V
    BY <2>1
  <2> QED BY <2>1, <2>2 DEF StepsOf
<1> HIDE DEF next
<1>2. stage \in StepsOf(W, N)
  <2>1. \A p \in W \X (1..N) : p[1] \in W /\ p[2] \in 1..N
    OBVIOUS
  <2>2. \A p \in W \X (1..N) : [s \in S |-> next(p[1], p[2], s)] \in W
    BY <1>1, <2>1
  <2> HIDE DEF W, S
  <2> QED BY <2>2 DEF StepsOf
<1>3. PICK run : RunOf(run, W, N, first, stage)
  <2>1. first \in W
    OBVIOUS
  <2> HIDE DEF W, first, stage
  <2> QED BY <1>2, <2>1, RunExists
<1>4. \A n \in 0..N : run[n] \in W
  BY <1>3 DEF RunOf
<1>5. \A n \in 1..N, s \in S : run[n][s] = next(run[n - 1], n, s)
  <2> SUFFICES ASSUME NEW n \in 1..N, NEW s \in S PROVE run[n][s] = next(run[n - 1], n, s)
    OBVIOUS
  <2>1. run[n - 1] \in W
    <3>1. n - 1 \in 0..N
      OBVIOUS
    <3> HIDE DEF W
    <3> QED BY <1>4, <3>1
  <2>2. run[n] = stage[<<run[n - 1], n>>]
    BY <1>3 DEF RunOf
  <2>3. <<run[n - 1], n>> \in W \X (1..N)
    BY <2>1
  <2> HIDE DEF W, S
  <2>4. run[n] = [t \in S |-> next(run[n - 1], n, t)]
    BY <2>2, <2>3
  <2> QED BY <2>4
<1>6. \A s \in S : run[0][s] = a
  BY <1>3 DEF RunOf
\* A later stage agrees with an earlier one on the sets that one was right for.
<1> DEFINE Agree(n) == \A t \in SUBSET (1..n) : run[n + 1][t] = run[n][t]
           G == {n \in Nat : n < N => Agree(n)}
<1>7. 0 \in G
  <2> SUFFICES ASSUME 0 < N, NEW t \in SUBSET (1..0) PROVE run[0 + 1][t] = run[0][t]
    OBVIOUS
  <2>1. t = {} /\ t \in S /\ 1 \in 1..N
    OBVIOUS
  <2>2. run[1][t] = next(run[1 - 1], 1, t)
    BY <1>5, <2>1
  <2>3. run[1][t] = a
    BY <2>1, <2>2 DEF next
  <2> QED BY <1>6, <2>1, <2>3
<1>8. \A n \in Nat : n \in G => n + 1 \in G
  <2> SUFFICES ASSUME NEW n \in Nat, n + 1 < N, Agree(n), NEW t \in SUBSET (1..(n + 1))
               PROVE  run[n + 1 + 1][t] = run[n + 1][t]
    OBVIOUS
  <2>1. t \in S /\ n + 1 \in 1..N /\ n + 2 \in 1..N /\ n + 1 + 1 = n + 2 /\ n + 1 - 1 = n /\ n + 2 - 1 = n + 1
    OBVIOUS
  <2>2. run[n + 2][t] = next(run[n + 1], n + 2, t) /\ run[n + 1][t] = next(run[n], n + 1, t)
    BY <1>5, <2>1
  <2>3. t \subseteq 1..(n + 1) /\ t \subseteq 1..(n + 2)
    OBVIOUS
  <2>4. CASE t = {}
    BY <2>1, <2>2, <2>4 DEF next
  <2>5. CASE t # {}
    <3>1. t \ {Max(t)} \in SUBSET (1..(n + 1 - 1))
      BY <2>5, MaxOf, n + 1 \in Nat
    <3>2. run[n + 1][t \ {Max(t)}] = run[n][t \ {Max(t)}]
      BY <2>1, <3>1
    <3> QED BY <2>1, <2>2, <2>3, <2>5, <3>2 DEF next
  <2> QED BY <2>4, <2>5
<1> HIDE DEF G
<1>9. Nat \subseteq G
  BY <1>7, <1>8, Induction
<1> USE DEF G
<1> DEFINE g == run[N]
<1>10. \A s \in S : g[s] = IF s = {} THEN a ELSE step[<<g[s \ {Max(s)}], Max(s)>>]
  <2> SUFFICES ASSUME NEW s \in S PROVE g[s] = IF s = {} THEN a ELSE step[<<g[s \ {Max(s)}], Max(s)>>]
    OBVIOUS
  <2>1. CASE N = 0
    <3>1. s = {}
      BY <2>1
    <3> QED BY <1>6, <2>1, <3>1
  <2>2. CASE N # 0
    <3>1. N \in 1..N /\ N - 1 \in Nat /\ N - 1 + 1 = N /\ N - 1 < N /\ s \subseteq 1..N
      BY <2>2
    <3>2. g[s] = next(run[N - 1], N, s)
      BY <1>5, <3>1
    <3>3. CASE s = {}
      BY <3>2, <3>3 DEF next
    <3>4. CASE s # {}
      <4>1. s \ {Max(s)} \in SUBSET (1..(N - 1))
        BY <3>4, MaxOf
      <4>2. Agree(N - 1)
        BY <1>9, <3>1
      <4>3. run[N - 1 + 1][s \ {Max(s)}] = run[N - 1][s \ {Max(s)}]
        BY <4>1, <4>2
      <4> QED BY <3>1, <3>2, <3>4, <4>3 DEF next
    <3> QED BY <3>3, <3>4
  <2> QED BY <2>1, <2>2
<1>11. g \in W
  <2>1. N \in 0..N
    OBVIOUS
  <2> HIDE DEF W
  <2> QED BY <1>4, <2>1
<1> HIDE DEF g
<1> QED BY <1>10, <1>11 DEF FoldsUp

\* Of the numbers up to n the greatest is n.
LEMMA MaxUpTo ==
  ASSUME NEW N \in Nat
  PROVE  \A n \in 1..N : /\ 1..n \in SUBSET (1..N) /\ 1..n # {}
                          /\ Max(1..n) = n /\ (1..n) \ {n} = 1..(n - 1)
<1> TAKE n \in 1..N
<1>1. n \in Nat /\ 1..n \in SUBSET (1..N) /\ 1..n # {} /\ n \in 1..n
  OBVIOUS
<1>2. Max(1..n) \in 1..n /\ \A y \in 1..n : y <= Max(1..n)
  BY <1>1, MaxOf
<1>3. Max(1..n) = n
  BY <1>1, <1>2
<1>4. (1..n) \ {n} = 1..(n - 1)
  OBVIOUS
<1> QED BY <1>1, <1>3, <1>4

\* A fold, taken over 1..n for each n, is a run of its step.
LEMMA FoldRuns ==
  ASSUME NEW V, NEW N \in Nat, NEW a \in V, NEW step \in StepsOf(V, N), NEW it, it[{}] = a,
         \A s \in SUBSET (1..N) :
           s # {} /\ it[s \ {Max(s)}] \in V => it[s] = step[<<it[s \ {Max(s)}], Max(s)>>]
  PROVE  RunOf([n \in 0..N |-> it[1..n]], V, N, a, step)
<1> DEFINE Typed(n) == it[1..n] \in V
           G == {n \in Nat : n <= N => Typed(n)}
<1>1. 1..0 = {} /\ it[1..0] = a
  <2>1. 1..0 = {}
    OBVIOUS
  <2> QED BY <2>1, Zenon
<1>2. \A n \in 1..N : it[1..n - 1] \in V => it[1..n] = step[<<it[1..n - 1], n>>]
  <2> TAKE n \in 1..N
  <2>1. 1..n \in SUBSET (1..N) /\ 1..n # {} /\ Max(1..n) = n /\ (1..n) \ {n} = 1..(n - 1)
    BY MaxUpTo
  <2> QED BY <2>1, Zenon
<1>3. 0 \in G
  BY <1>1
<1>4. \A n \in Nat : n \in G => n + 1 \in G
  <2> SUFFICES ASSUME NEW n \in Nat, n + 1 <= N, Typed(n) PROVE Typed(n + 1)
    <3> HIDE DEF Typed
    <3> QED OBVIOUS
  <2>1. n + 1 \in 1..N /\ n + 1 - 1 = n
    OBVIOUS
  <2>2. it[1..n + 1] = step[<<it[1..n], n + 1>>]
    BY <1>2, <2>1
  <2>3. <<it[1..n], n + 1>> \in V \X (1..N)
    BY <2>1
  <2> QED BY <2>2, <2>3 DEF StepsOf
<1> HIDE DEF G
<1>5. Nat \subseteq G
  BY <1>3, <1>4, Induction
<1>6. \A n \in 0..N : it[1..n] \in V
  BY <1>5 DEF G
<1> DEFINE run == [n \in 0..N |-> it[1..n]]
<1>7. run \in [0..N -> V] /\ run[0] = a
  BY <1>1, <1>6
<1>8. \A n \in 1..N : run[n] = step[<<run[n - 1], n>>]
  BY <1>2, <1>6
<1> QED BY <1>7, <1>8 DEF RunOf
=============================================================================
