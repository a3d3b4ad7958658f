------------------------- MODULE MatchingBookProofs -------------------------
(***************************************************************************)
(* Safety of the matcher's order book for every number of owners, ticks,   *)
(* quantities, slots and instants: the types, the integrity of the links   *)
(* and of the free list, the exactness of the cached best prices, the book *)
(* never being crossed, no order being out of reach of the walk, and the   *)
(* book being a price-time priority book.  The five invariants of          *)
(* MatchingBook are inductive together, none of them is alone; the last    *)
(* two theorems add the queue of each side, and what the call in progress  *)
(* has done to it.                                                         *)
(***************************************************************************)
EXTENDS MCBook, FiniteSums, SequenceTheorems, TLAPS

-----------------------------------------------------------------------------
(* Least and greatest elements, for the CHOOSE in next_worse_level.        *)

\* A nonempty set of naturals up to N has a greatest element.
LEMMA GreatestBounded ==
  ASSUME NEW N \in Nat, NEW T, T \subseteq 0..N, T # {}
  PROVE  \E x \in T : \A y \in T : y <= x
<1> DEFINE U == {N - p : p \in T}
<1>1. U \subseteq Nat /\ U # {}
  <2>1. PICK p \in T : TRUE
    OBVIOUS
  <2>2. N - p \in U
    OBVIOUS
  <2>3. \A q \in T : N - q \in Nat
    OBVIOUS
  <2> QED BY <2>2, <2>3
<1>2. PICK u \in U : \A v \in U : u <= v
  <2> HIDE DEF U
  <2> QED BY <1>1, LeastOf
<1>3. PICK x \in T : u = N - x
  OBVIOUS
<1>4. \A y \in T : y <= x
  <2> TAKE y \in T
  <2>1. N - y \in U
    OBVIOUS
  <2> HIDE DEF U
  <2> QED BY <2>1, <1>2, <1>3
<1> QED BY <1>4

\* next_worse_level returns NoTick when no occupied tick is worse than t, and
\* otherwise the best of the worse ones.
LEMMA NextWorseLevel ==
  ASSUME NEW s \in Sides, NEW T \in SUBSET Ticks, NEW t \in Ticks
  PROVE  LET w == next_worse_level(s, T, t) IN
         \/ w = NoTick /\ \A p \in T : ~Better(s, t, p)
         \/ /\ w \in T /\ Better(s, t, w)
            /\ \A p \in T : Better(s, t, p) => ~Better(s, p, w)
<1> DEFINE W == {p \in T : Better(s, t, p)}
           Top(p) == \A q \in W : p = q \/ Better(s, p, q)
           w == CHOOSE p \in W : Top(p)
<1>1. CASE W = {}
  BY <1>1 DEF next_worse_level
<1>2. CASE W # {}
  <2>1. W \subseteq 0..MaxTick /\ W \subseteq Nat
    <3>1. W \subseteq T
      OBVIOUS
    <3> HIDE DEF W
    <3>2. W \subseteq 0..MaxTick
      BY <3>1 DEF Ticks
    <3> QED BY <3>2
  <2>2. \E p \in W : Top(p)
    <3>1. CASE s = "Long"
      <4>1. PICK x \in W : \A y \in W : y <= x
        <5> HIDE DEF W
        <5> QED BY <2>1, <1>2, GreatestBounded, BookAssumption
      <4> QED BY <4>1, <3>1, <2>1 DEF Better
    <3>2. CASE s = "Short"
      <4>1. PICK x \in W : \A y \in W : x <= y
        <5> HIDE DEF W
        <5> QED BY <2>1, <1>2, LeastOf
      <4> QED BY <4>1, <3>2, <2>1 DEF Better
    <3> QED BY <3>1, <3>2 DEF Sides
  <2>3. w \in W /\ Top(w)
    <3> HIDE DEF Top, W
    <3> QED BY <2>2
  <2>4. next_worse_level(s, T, t) = w
    BY <1>2, Zenon DEF next_worse_level
  <2> HIDE DEF w
  <2>5. \A p \in T : Better(s, t, p) => ~Better(s, p, w)
    BY <2>3, <2>1 DEF Better
  <2> QED BY <2>3, <2>4, <2>5
<1> QED BY <1>1, <1>2

-----------------------------------------------------------------------------
(* unlink.                                                                 *)

\* The fields of a live node.
LEMMA NodeFields ==
  ASSUME TypeOK, NEW i \in live
  PROVE  /\ i \in Slots /\ i # NIL /\ i \in Nat
         /\ node[i] \in Node
         /\ node[i].side \in Sides /\ node[i].tick \in Ticks /\ node[i].qty \in Nat
         /\ node[i].prev \in Slots \cup {NIL} /\ node[i].next \in Slots \cup {NIL}
         /\ node[i].owner \in Owners /\ node[i].expiry \in Expiries \cup {Never}
<1>1. i \in Slots /\ node[i] \in Node
  BY DEF TypeOK
<1>2. i # NIL /\ i \in Nat
  BY <1>1, BookAssumption DEF Slots, NIL
<1> QED BY <1>1, <1>2 DEF Node

\* What unlink(i) does to the arena: i leaves it and its neighbours are spliced.
LEMMA UnlinkNodes ==
  ASSUME TypeOK, NEW i \in live, unlink(i)
  PROVE  /\ live' = live \ {i}
         /\ node' \in [live' -> Node]
         /\ \A j \in live' :
              /\ node'[j].side = node[j].side /\ node'[j].tick = node[j].tick
              /\ node'[j].next = IF j = node[i].prev THEN node[i].next ELSE node[j].next
              /\ node'[j].prev = IF j = node[i].next THEN node[i].prev ELSE node[j].prev
              /\ node'[j].qty = node[j].qty /\ node'[j].owner = node[j].owner
              /\ node'[j].expiry = node[j].expiry
<1> DEFINE N(j) == [node[j] EXCEPT !.next = IF j = node[i].prev THEN node[i].next ELSE @,
                                   !.prev = IF j = node[i].next THEN node[i].prev ELSE @]
<1>1. node' = [j \in live \ {i} |-> N(j)]
  BY Zenon DEF unlink, Spliced, live
<1>2. \A j \in live \ {i} :
         /\ N(j) \in Node
         /\ N(j).side = node[j].side /\ N(j).tick = node[j].tick
         /\ N(j).next = IF j = node[i].prev THEN node[i].next ELSE node[j].next
         /\ N(j).prev = IF j = node[i].next THEN node[i].prev ELSE node[j].prev
         /\ N(j).qty = node[j].qty /\ N(j).owner = node[j].owner /\ N(j).expiry = node[j].expiry
  <2> TAKE j \in live \ {i}
  <2> QED BY NodeFields DEF Node
<1> HIDE DEF N
<1>3. live' = live \ {i}
  BY <1>1 DEF live
<1> QED BY <1>1, <1>2, <1>3

\* What unlink(i) does to the levels: only the ends of i's level move.
LEMMA UnlinkLevels ==
  ASSUME TypeOK, NEW i \in live, unlink(i)
  PROVE  LET n == node[i] IN
         /\ level' \in [Sides -> [Ticks -> Level]]
         /\ \A s \in Sides, t \in Ticks :
              s # n.side \/ t # n.tick => level'[s][t] = level[s][t]
         /\ level'[n.side][n.tick].head = IF n.prev = NIL THEN n.next ELSE level[n.side][n.tick].head
         /\ level'[n.side][n.tick].tail = IF n.next = NIL THEN n.prev ELSE level[n.side][n.tick].tail
<1> DEFINE n == node[i]
           l == level[n.side][n.tick]
           m == [head |-> IF n.prev = NIL THEN n.next ELSE l.head,
                 tail |-> IF n.next = NIL THEN n.prev ELSE l.tail, qty |-> l.qty - n.qty]
<1>1. level' = [level EXCEPT ![n.side][n.tick] = m]
  BY Zenon DEF unlink
<1>2. n.side \in Sides /\ n.tick \in Ticks
  BY NodeFields
<1>3. m \in Level
  <2>1. l \in Level
    BY <1>2 DEF TypeOK
  <2> HIDE DEF l
  <2> QED BY <2>1, NodeFields DEF Level
<1>4. m.head = (IF n.prev = NIL THEN n.next ELSE l.head) /\ m.tail = (IF n.next = NIL THEN n.prev ELSE l.tail)
  OBVIOUS
<1>5. level \in [Sides -> [Ticks -> Level]]
  BY DEF TypeOK
<1> HIDE DEF m, n
<1>6. level' \in [Sides -> [Ticks -> Level]]
  BY <1>1, <1>2, <1>3, <1>5
<1>7. level'[n.side][n.tick] = m
  BY <1>1, <1>2, <1>5
<1>8. \A s \in Sides, t \in Ticks : s # n.side \/ t # n.tick => level'[s][t] = level[s][t]
  BY <1>1, <1>2, <1>5
<1> QED BY <1>4, <1>6, <1>7, <1>8 DEF n

\* unlink keeps every link sound.
LEMMA UnlinkLinks ==
  ASSUME TypeOK, LinkIntegrity, NEW i \in live, unlink(i)
  PROVE  LinkIntegrity'
<1> DEFINE n == node[i]
<1>1. NodeLinked(i)
  BY DEF LinkIntegrity
<1>a. /\ live' = live \ {i}
      /\ \A j \in live' :
           /\ node'[j].side = node[j].side /\ node'[j].tick = node[j].tick
           /\ node'[j].next = IF j = n.prev THEN n.next ELSE node[j].next
           /\ node'[j].prev = IF j = n.next THEN n.prev ELSE node[j].prev
  BY UnlinkNodes
<1>b. /\ \A s \in Sides, t \in Ticks :
           s # n.side \/ t # n.tick => level'[s][t] = level[s][t]
      /\ level'[n.side][n.tick].head = IF n.prev = NIL THEN n.next ELSE level[n.side][n.tick].head
      /\ level'[n.side][n.tick].tail = IF n.next = NIL THEN n.prev ELSE level[n.side][n.tick].tail
  BY UnlinkLevels
<1>c. /\ \A j \in live : j # NIL /\ node[j].side \in Sides /\ node[j].tick \in Ticks
      /\ n.side \in Sides /\ n.tick \in Ticks
  BY NodeFields
<1>2. \A j \in live' : NodeLinked(j)'
  <2> TAKE j \in live'
  <2>1. j \in live /\ j # i
    BY UnlinkNodes
  <2>2. NodeLinked(j)
    BY <2>1 DEF LinkIntegrity
  <2>3. node[j].side \in Sides /\ node[j].tick \in Ticks /\ j # NIL
    BY <2>1, NodeFields
  <2>4. n.prev # NIL => NodeLinked(n.prev)
    BY <1>1 DEF LinkIntegrity, NodeLinked
  <2>5. n.next # NIL => NodeLinked(n.next)
    BY <1>1 DEF LinkIntegrity, NodeLinked
  <2>6. LET m == node'[j] IN
        IF m.prev = NIL THEN level'[m.side][m.tick].head = j
        ELSE /\ m.prev \in live' /\ node'[m.prev].next = j
             /\ node'[m.prev].side = m.side /\ node'[m.prev].tick = m.tick
    <3>1. CASE j = n.next
      <4>1. /\ node[j].side = n.side /\ node[j].tick = n.tick /\ node'[j].prev = n.prev
            /\ node'[j].side = n.side /\ node'[j].tick = n.tick
        BY <1>1, <1>a, <2>3, <3>1 DEF NodeLinked
      <4>2. CASE n.prev = NIL
        <5>1. level'[n.side][n.tick].head = j
          BY <1>b, <3>1, <4>2
        <5> QED BY <4>1, <4>2, <5>1
      <4>3. CASE n.prev # NIL
        <5>1. /\ n.prev \in live /\ node[n.prev].next = i
              /\ node[n.prev].side = n.side /\ node[n.prev].tick = n.tick
          BY <1>1, <4>3 DEF NodeLinked
        <5>2. n.prev # i
          BY <1>1, <2>1, <3>1, <5>1
        <5> QED BY <1>a, <3>1, <4>1, <4>3, <5>1, <5>2
      <4> QED BY <4>2, <4>3
    <3>2. CASE j # n.next /\ node[j].prev = NIL
      <4>1. level[node[j].side][node[j].tick].head = j
        BY <2>2, <3>2 DEF NodeLinked
      <4>2. level'[node[j].side][node[j].tick].head = j
        BY <4>1, <1>1, <1>b, <2>1, <2>3 DEF NodeLinked
      <4> QED BY <4>2, <1>a, <2>1, <3>2
    <3>3. CASE j # n.next /\ node[j].prev # NIL
      <4> DEFINE p == node[j].prev
      <4>1. /\ p \in live /\ node[p].next = j
            /\ node[p].side = node[j].side /\ node[p].tick = node[j].tick
        BY <2>2, <3>3 DEF NodeLinked
      <4>2. p # i
        BY <4>1, <3>3
      <4>3. p # n.prev
        BY <4>1, <1>1, <2>1, <3>3 DEF NodeLinked
      <4>4. node'[j].prev = p
        BY <1>a, <2>1, <3>3
      <4> QED BY <4>1, <4>2, <4>3, <4>4, <1>a, <2>1, <3>3
    <3> QED BY <3>1, <3>2, <3>3
  <2>7. LET m == node'[j] IN
        IF m.next = NIL THEN level'[m.side][m.tick].tail = j
        ELSE /\ m.next \in live' /\ node'[m.next].prev = j
             /\ node'[m.next].side = m.side /\ node'[m.next].tick = m.tick
    <3>1. CASE j = n.prev
      <4>1. /\ node[j].side = n.side /\ node[j].tick = n.tick /\ node'[j].next = n.next
            /\ node'[j].side = n.side /\ node'[j].tick = n.tick
        BY <1>1, <1>a, <2>3, <3>1 DEF NodeLinked
      <4>2. CASE n.next = NIL
        <5>1. level'[n.side][n.tick].tail = j
          BY <1>b, <3>1, <4>2
        <5> QED BY <4>1, <4>2, <5>1
      <4>3. CASE n.next # NIL
        <5>1. /\ n.next \in live /\ node[n.next].prev = i
              /\ node[n.next].side = n.side /\ node[n.next].tick = n.tick
          BY <1>1, <4>3 DEF NodeLinked
        <5>2. n.next # i
          BY <1>1, <2>1, <3>1, <5>1
        <5> QED BY <1>a, <3>1, <4>1, <4>3, <5>1, <5>2
      <4> QED BY <4>2, <4>3
    <3>2. CASE j # n.prev /\ node[j].next = NIL
      <4>1. level[node[j].side][node[j].tick].tail = j
        BY <2>2, <3>2 DEF NodeLinked
      <4>2. level'[node[j].side][node[j].tick].tail = j
        BY <4>1, <1>1, <1>b, <2>1, <2>3 DEF NodeLinked
      <4> QED BY <4>2, <1>a, <2>1, <3>2
    <3>3. CASE j # n.prev /\ node[j].next # NIL
      <4> DEFINE p == node[j].next
      <4>1. /\ p \in live /\ node[p].prev = j
            /\ node[p].side = node[j].side /\ node[p].tick = node[j].tick
        BY <2>2, <3>3 DEF NodeLinked
      <4>2. p # i
        BY <4>1, <3>3
      <4>3. p # n.next
        BY <4>1, <1>1, <2>1, <3>3 DEF NodeLinked
      <4>4. node'[j].next = p
        BY <1>a, <2>1, <3>3
      <4> QED BY <4>1, <4>2, <4>3, <4>4, <1>a, <2>1, <3>3
    <3> QED BY <3>1, <3>2, <3>3
  <2> QED BY <2>6, <2>7 DEF NodeLinked
<1>3. \A s \in Sides, t \in Ticks : LevelLinked(s, t)'
  <2> TAKE s \in Sides, t \in Ticks
  <2>1. LevelLinked(s, t)
    BY DEF LinkIntegrity
  <2>2. CASE s # n.side \/ t # n.tick
    BY <1>1, <2>1, <2>2, <1>a, <1>b, <1>c DEF LevelLinked, NodeLinked
  <2>3. CASE s = n.side /\ t = n.tick
    <3> DEFINE l == level[s][t]
               m == level'[s][t]
    <3>1. /\ m.head = IF n.prev = NIL THEN n.next ELSE l.head
          /\ m.tail = IF n.next = NIL THEN n.prev ELSE l.tail
      BY <1>b, <2>3
    <3>2. /\ n.prev = NIL <=> l.head = i
          /\ n.next = NIL <=> l.tail = i
      BY <1>1, <2>1, <2>3, <1>c DEF LevelLinked, NodeLinked
    <3> HIDE DEF m
    <3>3. m.head # NIL => /\ m.head \in live' /\ node'[m.head].prev = NIL
                          /\ node'[m.head].side = s /\ node'[m.head].tick = t
      <4>1. CASE n.prev = NIL
        BY <1>1, <2>3, <3>1, <4>1, <1>a, <1>c DEF NodeLinked
      <4>2. CASE n.prev # NIL
        <5>1. l.head # NIL => l.head \in live /\ l.head # i /\ l.head # n.next
          BY <1>1, <2>1, <2>3, <3>2, <4>2, <1>c DEF NodeLinked, LevelLinked
        <5> QED BY <5>1, <2>1, <3>1, <4>2, <1>a DEF LevelLinked
      <4> QED BY <4>1, <4>2
    <3>4. m.tail # NIL => /\ m.tail \in live' /\ node'[m.tail].next = NIL
                          /\ node'[m.tail].side = s /\ node'[m.tail].tick = t
      <4>1. CASE n.next = NIL
        BY <1>1, <2>3, <3>1, <4>1, <1>a, <1>c DEF NodeLinked
      <4>2. CASE n.next # NIL
        <5>1. l.tail # NIL => l.tail \in live /\ l.tail # i /\ l.tail # n.prev
          BY <1>1, <2>1, <2>3, <3>2, <4>2, <1>c DEF NodeLinked, LevelLinked
        <5> QED BY <5>1, <2>1, <3>1, <4>2, <1>a DEF LevelLinked
      <4> QED BY <4>1, <4>2
    <3>5. m.head = NIL <=> m.tail = NIL
      BY <1>1, <2>1, <2>3, <3>1, <3>2, <1>c DEF LevelLinked, NodeLinked
    <3> QED BY <3>3, <3>4, <3>5 DEF LevelLinked, m
  <2> QED BY <2>2, <2>3
<1> QED BY <1>2, <1>3 DEF LinkIntegrity

\* unlink keeps the free stack exact.
LEMMA UnlinkFree ==
  ASSUME TypeOK, FreeListExact, NEW i \in live, unlink(i)
  PROVE  FreeListExact' /\ free' \in Seq(Slots) /\ free' # <<>> /\ top' = top
<1>1. free' = Append(free, i) /\ top' = top
  BY Zenon DEF unlink
<1>2. free \in Seq(Slots) /\ i \in Slots /\ top \in Nat
  BY NodeFields DEF TypeOK
<1>3. live' = live \ {i}
  BY UnlinkNodes
<1>4. /\ free' \in Seq(Slots) /\ free' # <<>> /\ Len(free') = Len(free) + 1
      /\ free'[Len(free) + 1] = i
      /\ \A j \in 1..Len(free) : free'[j] = free[j]
  BY <1>1, <1>2
<1>5. Len(free) \in Nat
  BY <1>2
<1>6. \A j \in 1..Len(free') : j = Len(free) + 1 \/ j \in 1..Len(free)
  BY <1>4, <1>5
<1>7. \A j \in 1..Len(free) : free[j] # i
  BY DEF FreeListExact
<1>8. \A j, k \in 1..Len(free') : free'[j] = free'[k] => j = k
  BY <1>4, <1>6, <1>7 DEF FreeListExact
<1>9. \A j \in 1..Len(free') : free'[j] \in (0..(top' - 1)) \ live'
  BY <1>1, <1>3, <1>4, <1>6 DEF FreeListExact
<1>10. ASSUME NEW k \in (0..(top' - 1)) \ live'
       PROVE  \E j \in 1..Len(free') : free'[j] = k
  <2>1. CASE k = i
    BY <2>1, <1>4, <1>5
  <2>2. CASE k # i
    <3>1. PICK j \in 1..Len(free) : free[j] = k
      BY <1>1, <1>3, <2>2 DEF FreeListExact
    <3> QED BY <3>1, <1>4, <1>5
  <2> QED BY <2>1, <2>2
<1>11. live' \subseteq 0..(top' - 1)
  BY <1>1, <1>3 DEF FreeListExact
<1> QED BY <1>1, <1>4, <1>8, <1>9, <1>10, <1>11 DEF FreeListExact

\* unlink keeps the occupancy set exact, and only drops i's tick.
LEMMA UnlinkOccupied ==
  ASSUME TypeOK, LinkIntegrity, TouchExact, NEW i \in live, unlink(i)
  PROVE  /\ occupied' \in [Sides -> SUBSET Ticks]
         /\ \A s \in Sides : occupied'[s] = {t \in Ticks : level'[s][t].head # NIL}
         /\ \A s \in Sides, t \in Ticks :
              s # node[i].side \/ t # node[i].tick => (t \in occupied'[s] <=> t \in occupied[s])
         /\ \A s \in Sides : occupied'[s] \subseteq occupied[s]
<1> DEFINE n == node[i]
           h == IF n.prev = NIL THEN n.next ELSE level[n.side][n.tick].head
<1>1. occupied' = IF h = NIL THEN [occupied EXCEPT ![n.side] = @ \ {n.tick}] ELSE occupied
  BY Zenon DEF unlink
<1>2. n.side \in Sides /\ n.tick \in Ticks
  BY NodeFields
<1>3. level'[n.side][n.tick].head = h
  BY UnlinkLevels
<1>4. \A s \in Sides, t \in Ticks :
         s # n.side \/ t # n.tick => level'[s][t] = level[s][t]
  BY UnlinkLevels
<1>5. occupied \in [Sides -> SUBSET Ticks]
  BY DEF TypeOK
<1>6. \A s \in Sides, t \in Ticks : t \in occupied[s] <=> level[s][t].head # NIL
  BY DEF TouchExact
<1>7. h # NIL => n.tick \in occupied[n.side]
  BY <1>2, <1>6, NodeFields DEF LinkIntegrity, NodeLinked
<1> HIDE DEF h, n
<1>8. occupied' \in [Sides -> SUBSET Ticks]
  BY <1>1, <1>2, <1>5
<1>9. \A s \in Sides, t \in Ticks :
         s # n.side \/ t # n.tick => (t \in occupied'[s] <=> t \in occupied[s])
  BY <1>1, <1>2, <1>5
<1>10. n.tick \in occupied'[n.side] <=> h # NIL
  BY <1>1, <1>2, <1>5, <1>7
<1>11. \A s \in Sides, t \in Ticks : t \in occupied'[s] <=> level'[s][t].head # NIL
  BY <1>3, <1>4, <1>6, <1>9, <1>10
<1>12. \A s \in Sides : occupied'[s] = {t \in Ticks : level'[s][t].head # NIL}
  BY <1>8, <1>11
<1>13. \A s \in Sides : occupied'[s] \subseteq occupied[s]
  BY <1>1, <1>2, <1>5
<1> QED BY <1>8, <1>9, <1>12, <1>13 DEF n

\* unlink followed by the code's update of the cached price keeps the cached
\* prices exact and the book uncrossed.
LEMMA UnlinkTouch ==
  ASSUME TypeOK, LinkIntegrity, TouchExact, NotCrossed, NEW i \in live, unlink(i),
         IF best[node[i].side] = node[i].tick
         THEN advance_best_if_empty(node[i].side, node[i].tick)
         ELSE best' = best
  PROVE  /\ best' \in [Sides -> Ticks \cup {NoTick}]
         /\ TouchExact' /\ NotCrossed'
<1> DEFINE s0 == node[i].side
           t0 == node[i].tick
           w  == next_worse_level(s0, occupied'[s0], t0)
           Exact(s) == IF best'[s] = NoTick THEN occupied'[s] = {}
                       ELSE /\ best'[s] \in occupied'[s]
                            /\ \A t \in occupied'[s] : ~Better(s, t, best'[s])
           Worse(s) == best'[s] = NoTick \/ (best[s] # NoTick /\ ~Better(s, best'[s], best[s]))
<1>1. s0 \in Sides /\ t0 \in Ticks
  BY NodeFields
<1>2. /\ occupied' \in [Sides -> SUBSET Ticks]
      /\ \A s \in Sides : occupied'[s] = {t \in Ticks : level'[s][t].head # NIL}
      /\ \A s \in Sides, t \in Ticks :
           s # s0 \/ t # t0 => (t \in occupied'[s] <=> t \in occupied[s])
      /\ \A s \in Sides : occupied'[s] \subseteq occupied[s]
  BY UnlinkOccupied
<1>3. /\ best \in [Sides -> Ticks \cup {NoTick}]
      /\ occupied \in [Sides -> SUBSET Ticks]
  BY DEF TypeOK
<1>4. \A s \in Sides : IF best[s] = NoTick THEN occupied[s] = {}
                       ELSE /\ best[s] \in occupied[s]
                            /\ \A t \in occupied[s] : ~Better(s, t, best[s])
  BY DEF TouchExact
<1>5. \A t \in Ticks : t # NoTick /\ t \in Int
  BY BookAssumption DEF Ticks, NoTick
<1>7. \A s \in Sides : s # s0 => occupied'[s] = occupied[s]
  BY <1>2, <1>3
<1>8. CASE best[s0] = t0 /\ level'[s0][t0].head = NIL
  <2>1. best' = [best EXCEPT ![s0] = w]
    BY <1>8, Zenon DEF advance_best_if_empty
  <2>2. \/ w = NoTick /\ \A p \in occupied'[s0] : ~Better(s0, t0, p)
        \/ /\ w \in occupied'[s0] /\ Better(s0, t0, w)
           /\ \A p \in occupied'[s0] : Better(s0, t0, p) => ~Better(s0, p, w)
    <3> DEFINE O == occupied'[s0]
    <3>1. O \in SUBSET Ticks
      BY <1>1, <1>2
    <3> HIDE DEF O, s0, t0
    <3> QED BY <3>1, <1>1, NextWorseLevel, Zenon DEF w, O
  <2> HIDE DEF w
  <2>3. w \in Ticks \cup {NoTick}
    BY <2>2, <1>1, <1>2
  <2>4. best' \in [Sides -> Ticks \cup {NoTick}] /\ best'[s0] = w
        /\ \A s \in Sides : s # s0 => best'[s] = best[s]
    BY <2>1, <2>3, <1>1, <1>3
  <2>5. \A p \in occupied'[s0] : p \in occupied[s0] /\ p # t0 /\ p \in Ticks
    BY <1>1, <1>2, <1>8
  <2>6. \A p \in occupied'[s0] : Better(s0, t0, p)
    BY <2>5, <1>1, <1>4, <1>5, <1>8 DEF Better
  <2>7. Exact(s0)
    BY <2>2, <2>4, <2>5, <2>6, <1>5
  <2>8. Worse(s0)
    BY <2>2, <2>4, <2>5, <2>6, <1>1, <1>5, <1>8 DEF Better
  <2>9. \A s \in Sides : Exact(s) /\ Worse(s)
    <3> TAKE s \in Sides
    <3>1. CASE s = s0
      BY <3>1, <2>7, <2>8
    <3>2. CASE s # s0
      <4>1. best'[s] = best[s] /\ occupied'[s] = occupied[s]
        BY <3>2, <2>4, <1>7
      <4>2. Worse(s)
        BY <4>1, <1>3, <1>5 DEF Better
      <4> QED BY <4>1, <4>2, <1>4
    <3> QED BY <3>1, <3>2
  <2> QED BY <2>4, <2>9, <1>2, <1>3, <1>5 DEF TouchExact, NotCrossed, Better, Sides
<1>9. CASE ~(best[s0] = t0 /\ level'[s0][t0].head = NIL)
  <2>1. best' = best
    BY <1>9 DEF advance_best_if_empty
  <2>2. Exact(s0)
    BY <2>1, <1>1, <1>2, <1>3, <1>4, <1>5, <1>9
  <2>3. \A s \in Sides : Exact(s)
    BY <2>1, <2>2, <1>4, <1>7
  <2> QED BY <2>1, <2>3, <1>2, <1>3 DEF TouchExact, NotCrossed
<1> QED BY <1>8, <1>9

-----------------------------------------------------------------------------
(* rest.                                                                   *)

\* alloc hands out a slot that is not live, and keeps the free stack exact.
LEMMA RestFree ==
  ASSUME TypeOK, FreeListExact, free # <<>> \/ top < MaxSlots, NEW n \in Node, rest(n)
  PROVE  /\ alloc \in Slots \ live /\ alloc # NIL
         /\ live' = live \cup {alloc}
         /\ FreeListExact' /\ free' \in Seq(Slots) /\ top' \in 0..MaxSlots
<1> DEFINE i == alloc
<1>1. /\ free' = IF free = <<>> THEN free ELSE SubSeq(free, 1, Len(free) - 1)
      /\ top' = IF free = <<>> THEN top + 1 ELSE top
  BY Zenon DEF rest
<1>2. live' = live \cup {i}
  BY DEF rest, live, alloc
<1>3. free \in Seq(Slots) /\ top \in 0..MaxSlots /\ MaxSlots \in Nat
  BY BookAssumption DEF TypeOK
<1>4. CASE free = <<>>
  <2>1. i = top /\ free' = free /\ top' = top + 1
    BY <1>1, <1>4 DEF alloc
  <2>2. i \in Slots \ live /\ i # NIL
    BY <2>1, <1>3, <1>4 DEF Slots, NIL, FreeListExact
  <2>3. \A k \in 0..(top' - 1) : k = i \/ k \in 0..(top - 1)
    BY <2>1, <1>3
  <2>4. Len(free) = 0
    BY <1>4
  <2>5. live = 0..(top - 1)
    <3>1. 1..Len(free) = {}
      BY <2>4
    <3>2. \A k \in (0..(top - 1)) \ live : FALSE
      BY <3>1, Zenon DEF FreeListExact
    <3> QED BY <3>2 DEF FreeListExact
  <2>6. live' = 0..(top' - 1)
    BY <2>1, <2>5, <1>2, <1>3
  <2>7. FreeListExact'
    BY <2>1, <2>4, <2>6 DEF FreeListExact
  <2> QED BY <2>1, <2>2, <2>7, <1>2, <1>3, <1>4
<1>5. CASE free # <<>>
  <2>1. i = free[Len(free)] /\ free' = SubSeq(free, 1, Len(free) - 1) /\ top' = top
    BY <1>1, <1>5 DEF alloc
  <2>2. Len(free) \in Nat \ {0}
    BY <1>3, <1>5
  <2>3. /\ free' \in Seq(Slots) /\ Len(free') = Len(free) - 1
        /\ \A j \in 1..(Len(free) - 1) : free'[j] = free[j]
    <3> DEFINE m == Len(free) - 1
    <3>1. m \in Nat /\ m <= Len(free)
      BY <2>2
    <3>2. free' = SubSeq(free, 1, m)
      BY <2>1
    <3> HIDE DEF m
    <3>3. /\ SubSeq(free, 1, m) \in Seq(Slots)
          /\ Len(SubSeq(free, 1, m)) = m
          /\ \A j \in 1..m : SubSeq(free, 1, m)[j] = free[j]
      BY <3>1, <2>2, <1>3
    <3> QED BY <3>2, <3>3 DEF m
  <2> HIDE DEF i
  <2>4. i \in Slots /\ i \in (0..(top - 1)) \ live
    BY <2>1, <2>2, <1>3 DEF FreeListExact
  <2>5. i # NIL
    BY <2>4 DEF NIL
  <2>6. \A j \in 1..Len(free') : j \in 1..Len(free) /\ j # Len(free)
    BY <2>2, <2>3
  <2>7. \A j, k \in 1..Len(free') : free'[j] = free'[k] => j = k
    BY <2>2, <2>3, <2>6 DEF FreeListExact
  <2>8. \A j \in 1..Len(free') : free'[j] \in (0..(top' - 1)) \ live'
    BY <2>1, <2>2, <2>3, <2>6, <1>2 DEF FreeListExact
  <2>9. ASSUME NEW k \in (0..(top' - 1)) \ live'
        PROVE  \E j \in 1..Len(free') : free'[j] = k
    <3>1. PICK j \in 1..Len(free) : free[j] = k
      BY <2>1, <1>2 DEF FreeListExact
    <3>2. j # Len(free)
      BY <3>1, <2>1, <1>2
    <3> QED BY <3>1, <3>2, <2>2, <2>3
  <2>10. live' \subseteq 0..(top' - 1)
    BY <2>1, <2>4, <1>2 DEF FreeListExact
  <2> QED BY <2>1, <2>3, <2>4, <2>5, <2>7, <2>8, <2>9, <2>10, <1>2, <1>3 DEF FreeListExact, i
<1> QED BY <1>4, <1>5

\* What rest(n) does to the arena and to the levels.
LEMMA RestNodes ==
  ASSUME TypeOK, LinkIntegrity, FreeListExact, free # <<>> \/ top < MaxSlots, NEW n \in Node,
         n.next = NIL, rest(n)
  PROVE  LET tail == level[n.side][n.tick].tail IN
         /\ node' \in [live' -> Node]
         /\ \A j \in live : /\ node'[j].side = node[j].side /\ node'[j].tick = node[j].tick
                            /\ node'[j].prev = node[j].prev
                            /\ node'[j].next = IF j = tail THEN alloc ELSE node[j].next
                            /\ node'[j].qty = node[j].qty /\ node'[j].owner = node[j].owner
                            /\ node'[j].expiry = node[j].expiry
         /\ node'[alloc].side = n.side /\ node'[alloc].tick = n.tick
         /\ node'[alloc].prev = tail /\ node'[alloc].next = NIL
         /\ node'[alloc].qty = n.qty /\ node'[alloc].owner = n.owner
         /\ node'[alloc].expiry = n.expiry
<1> DEFINE i == alloc
           l == level[n.side][n.tick]
           new == [n EXCEPT !.prev = l.tail]
           N(j) == [node[j] EXCEPT !.next = IF j = l.tail THEN i ELSE @]
<1>1. node' = [j \in live \cup {i} |-> IF j = i THEN new ELSE N(j)]
  BY Zenon DEF rest, live, alloc
<1>2. i \in Slots \ live /\ live' = live \cup {i}
  BY RestFree
<1>3. l \in Level
  BY DEF TypeOK, Node
<1> HIDE DEF i, l
<1>4. /\ new \in Node /\ new.side = n.side /\ new.tick = n.tick
      /\ new.prev = l.tail /\ new.next = NIL
      /\ new.qty = n.qty /\ new.owner = n.owner /\ new.expiry = n.expiry
  BY <1>3 DEF Node, Level
<1>5. \A j \in live : /\ N(j) \in Node /\ N(j).side = node[j].side /\ N(j).tick = node[j].tick
                      /\ N(j).prev = node[j].prev
                      /\ N(j).next = IF j = l.tail THEN i ELSE node[j].next
                      /\ N(j).qty = node[j].qty /\ N(j).owner = node[j].owner
                      /\ N(j).expiry = node[j].expiry
  <2> TAKE j \in live
  <2> QED BY <1>2, NodeFields DEF Node
<1> HIDE DEF new, N
<1>6. node' \in [live' -> Node]
  BY <1>1, <1>2, <1>4, <1>5
<1>7. \A j \in live : j # i /\ node'[j] = N(j)
  BY <1>1, <1>2
<1>8. node'[i] = new
  BY <1>1
<1> QED BY <1>4, <1>5, <1>6, <1>7, <1>8 DEF i, l

LEMMA RestLevels ==
  ASSUME TypeOK, FreeListExact, free # <<>> \/ top < MaxSlots, NEW n \in Node, rest(n)
  PROVE  LET l == level[n.side][n.tick] IN
         /\ level' \in [Sides -> [Ticks -> Level]]
         /\ \A s \in Sides, t \in Ticks :
              s # n.side \/ t # n.tick => level'[s][t] = level[s][t]
         /\ level'[n.side][n.tick].head = IF l.tail = NIL THEN alloc ELSE l.head
         /\ level'[n.side][n.tick].tail = alloc
<1> DEFINE l == level[n.side][n.tick]
           m == [head |-> IF l.tail = NIL THEN alloc ELSE l.head, tail |-> alloc,
                 qty |-> l.qty + n.qty]
<1>1. level' = [level EXCEPT ![n.side][n.tick] = m]
  BY Zenon DEF rest, alloc
<1>2. n.side \in Sides /\ n.tick \in Ticks /\ n.qty \in Nat
  BY DEF Node
<1>3. m \in Level
  <2>1. l \in Level
    BY <1>2 DEF TypeOK
  <2>2. alloc \in Slots
    BY RestFree
  <2> HIDE DEF l
  <2> QED BY <2>1, <2>2, <1>2 DEF Level
<1>4. m.head = (IF l.tail = NIL THEN alloc ELSE l.head) /\ m.tail = alloc
  OBVIOUS
<1>5. level \in [Sides -> [Ticks -> Level]]
  BY DEF TypeOK
<1> HIDE DEF m
<1>6. level' \in [Sides -> [Ticks -> Level]] /\ level'[n.side][n.tick] = m
  BY <1>1, <1>2, <1>3, <1>5
<1>7. \A s \in Sides, t \in Ticks : s # n.side \/ t # n.tick => level'[s][t] = level[s][t]
  BY <1>1, <1>2, <1>5
<1> QED BY <1>4, <1>6, <1>7

\* rest keeps every link sound.
LEMMA RestLinks ==
  ASSUME TypeOK, LinkIntegrity, FreeListExact, free # <<>> \/ top < MaxSlots, NEW n \in Node,
         n.next = NIL, rest(n)
  PROVE  LinkIntegrity'
<1>0. PICK i : i = alloc
  OBVIOUS
<1> DEFINE l == level[n.side][n.tick]
<1>1. i \notin live /\ i # NIL /\ live' = live \cup {i}
  BY <1>0, RestFree
<1>2. /\ \A j \in live : /\ node'[j].side = node[j].side /\ node'[j].tick = node[j].tick
                         /\ node'[j].prev = node[j].prev
                         /\ node'[j].next = IF j = l.tail THEN i ELSE node[j].next
      /\ node'[i].side = n.side /\ node'[i].tick = n.tick
      /\ node'[i].prev = l.tail /\ node'[i].next = NIL
  BY <1>0, RestNodes
<1>3. /\ \A s \in Sides, t \in Ticks :
           s # n.side \/ t # n.tick => level'[s][t] = level[s][t]
      /\ level'[n.side][n.tick].head = IF l.tail = NIL THEN i ELSE l.head
      /\ level'[n.side][n.tick].tail = i
  BY <1>0, RestLevels
<1>4. n.side \in Sides /\ n.tick \in Ticks
  BY DEF Node
<1>5. \A j \in live : j # NIL /\ node[j].side \in Sides /\ node[j].tick \in Ticks
  BY NodeFields
<1>6. LevelLinked(n.side, n.tick)
  BY <1>4 DEF LinkIntegrity
<1>7. NodeLinked(i)'
  <2>1. l.tail # NIL => /\ l.tail \in live /\ node[l.tail].side = n.side
                        /\ node[l.tail].tick = n.tick
    BY <1>6 DEF LevelLinked
  <2>2. l.tail # NIL => /\ l.tail \in live' /\ node'[l.tail].next = i
                        /\ node'[l.tail].side = n.side /\ node'[l.tail].tick = n.tick
    BY <2>1, <1>1, <1>2
  <2> HIDE DEF l
  <2> QED BY <2>2, <1>1, <1>2, <1>3 DEF NodeLinked
<1>8. ASSUME NEW j \in live
      PROVE  NodeLinked(j)'
  <2>1. NodeLinked(j)
    BY DEF LinkIntegrity
  <2> DEFINE m == node'[j]
  <2>2. /\ m.side = node[j].side /\ m.tick = node[j].tick /\ m.prev = node[j].prev
        /\ m.next = IF j = l.tail THEN i ELSE node[j].next
        /\ j # i /\ j # NIL
        /\ m.side \in Sides /\ m.tick \in Ticks
    BY <1>1, <1>2, <1>5
  <2> HIDE DEF m
  <2>3. IF m.prev = NIL THEN level'[m.side][m.tick].head = j
        ELSE /\ m.prev \in live' /\ node'[m.prev].next = j
             /\ node'[m.prev].side = m.side /\ node'[m.prev].tick = m.tick
    <3>1. CASE m.prev = NIL
      <4>1. level[m.side][m.tick].head = j
        BY <2>1, <2>2, <3>1 DEF NodeLinked
      <4> QED BY <4>1, <2>2, <3>1, <1>3, <1>6 DEF LevelLinked
    <3>2. CASE m.prev # NIL
      <4>1. /\ m.prev \in live /\ node[m.prev].next = j
            /\ node[m.prev].side = m.side /\ node[m.prev].tick = m.tick
        BY <2>1, <2>2, <3>2 DEF NodeLinked
      <4>2. m.prev # l.tail
        BY <4>1, <2>2, <3>2, <1>6 DEF LevelLinked
      <4> QED BY <4>1, <4>2, <3>2, <1>1, <1>2
    <3> QED BY <3>1, <3>2
  <2>4. IF m.next = NIL THEN level'[m.side][m.tick].tail = j
        ELSE /\ m.next \in live' /\ node'[m.next].prev = j
             /\ node'[m.next].side = m.side /\ node'[m.next].tick = m.tick
    <3>1. CASE j = l.tail
      <4>1. node[j].side = n.side /\ node[j].tick = n.tick
        BY <3>1, <2>2, <1>6 DEF LevelLinked
      <4> QED BY <3>1, <4>1, <2>2, <1>1, <1>2
    <3>2. CASE j # l.tail /\ node[j].next = NIL
      <4>1. level[m.side][m.tick].tail = j
        BY <2>1, <2>2, <3>2 DEF NodeLinked
      <4> QED BY <4>1, <2>2, <3>2, <1>3
    <3>3. CASE j # l.tail /\ node[j].next # NIL
      <4>1. m.next # NIL /\ m.next = node[j].next
        BY <2>2, <3>3
      <4>2. /\ m.next \in live /\ node[m.next].prev = j
            /\ node[m.next].side = m.side /\ node[m.next].tick = m.tick
        BY <2>1, <2>2, <3>3, <4>1 DEF NodeLinked
      <4> QED BY <4>1, <4>2, <1>1, <1>2
    <3> QED BY <3>1, <3>2, <3>3
  <2> QED BY <2>3, <2>4 DEF NodeLinked, m
<1>9. ASSUME NEW s \in Sides, NEW t \in Ticks
      PROVE  LevelLinked(s, t)'
  <2>1. LevelLinked(s, t)
    BY DEF LinkIntegrity
  <2>2. CASE s = n.side /\ t = n.tick
    BY <2>1, <2>2, <1>1, <1>2, <1>3 DEF LevelLinked
  <2>3. CASE s # n.side \/ t # n.tick
    <3>1. level'[s][t] = level[s][t]
      BY <2>3, <1>3
    <3>2. level[s][t].tail # NIL => level[s][t].tail # l.tail
      BY <2>1, <2>3, <1>6 DEF LevelLinked
    <3> QED BY <2>1, <3>1, <3>2, <1>1, <1>2 DEF LevelLinked
  <2> QED BY <2>2, <2>3
<1> QED BY <1>1, <1>7, <1>8, <1>9 DEF LinkIntegrity

\* rest keeps the occupancy set and the cached prices exact and, when the order
\* does not cross the opposite touch, the book uncrossed.
LEMMA RestTouch ==
  ASSUME TypeOK, LinkIntegrity, FreeListExact, TouchExact, NotCrossed,
         free # <<>> \/ top < MaxSlots, NEW n \in Node, rest(n),
         LET touch == best[opposite_side(n.side)] IN
         touch # NoTick => ~Crosses(n.side, n.tick, touch)
  PROVE  /\ occupied' \in [Sides -> SUBSET Ticks]
         /\ best' \in [Sides -> Ticks \cup {NoTick}]
         /\ TouchExact' /\ NotCrossed'
<1> DEFINE s0 == n.side
           t0 == n.tick
           l == level[s0][t0]
<1>1. /\ occupied' = IF l.tail = NIL THEN [occupied EXCEPT ![s0] = @ \cup {t0}] ELSE occupied
      /\ best' = IF best[s0] = NoTick \/ Better(s0, t0, best[s0])
                 THEN [best EXCEPT ![s0] = t0] ELSE best
  BY Zenon DEF rest
<1>2. s0 \in Sides /\ t0 \in Ticks
  BY DEF Node
<1>3. /\ best \in [Sides -> Ticks \cup {NoTick}]
      /\ occupied \in [Sides -> SUBSET Ticks]
  BY DEF TypeOK
<1>4. \A t \in Ticks : t # NoTick /\ t \in Int
  BY BookAssumption DEF Ticks, NoTick
<1>5. \A s \in Sides, t \in Ticks : t \in occupied[s] <=> level[s][t].head # NIL
  BY DEF TouchExact
<1>6. l.tail # NIL => t0 \in occupied[s0]
  BY <1>2, <1>5 DEF LinkIntegrity, LevelLinked
<1>7. \A s \in Sides : IF best[s] = NoTick THEN occupied[s] = {}
                       ELSE /\ best[s] \in occupied[s]
                            /\ \A t \in occupied[s] : ~Better(s, t, best[s])
  BY DEF TouchExact
<1>8. /\ \A s \in Sides, t \in Ticks :
           s # s0 \/ t # t0 => level'[s][t] = level[s][t]
      /\ level'[s0][t0].head # NIL
  <2>1. alloc # NIL
    BY RestFree
  <2>2. LevelLinked(s0, t0)
    BY <1>2 DEF LinkIntegrity
  <2> QED BY <2>1, <2>2, RestLevels DEF LevelLinked
<1> HIDE DEF l, s0, t0
<1>9. /\ occupied' \in [Sides -> SUBSET Ticks]
      /\ occupied'[s0] = occupied[s0] \cup {t0}
      /\ \A s \in Sides : s # s0 => occupied'[s] = occupied[s]
  BY <1>1, <1>2, <1>3, <1>6
<1>10. \A s \in Sides, t \in Ticks : t \in occupied'[s] <=> level'[s][t].head # NIL
  BY <1>2, <1>5, <1>8, <1>9
<1>11. \A s \in Sides : occupied'[s] = {t \in Ticks : level'[s][t].head # NIL}
  BY <1>9, <1>10
<1>12. /\ best' \in [Sides -> Ticks \cup {NoTick}]
       /\ best'[s0] = IF best[s0] = NoTick \/ Better(s0, t0, best[s0]) THEN t0 ELSE best[s0]
       /\ \A s \in Sides : s # s0 => best'[s] = best[s]
  BY <1>1, <1>2, <1>3
<1>13. /\ best'[s0] # NoTick /\ best'[s0] \in occupied'[s0]
       /\ \A t \in occupied'[s0] : ~Better(s0, t, best'[s0])
  <2>1. CASE best[s0] = NoTick
    BY <2>1, <1>2, <1>4, <1>7, <1>9, <1>12 DEF Better
  <2>2. CASE best[s0] # NoTick
    <3>1. best[s0] \in Ticks /\ occupied[s0] \subseteq Ticks
      BY <2>2, <1>2, <1>3
    <3> QED BY <2>2, <3>1, <1>2, <1>4, <1>7, <1>9, <1>12 DEF Better
  <2> QED BY <2>1, <2>2
<1>14. TouchExact'
  <2>1. \A s \in Sides : IF best'[s] = NoTick THEN occupied'[s] = {}
                         ELSE /\ best'[s] \in occupied'[s]
                              /\ \A t \in occupied'[s] : ~Better(s, t, best'[s])
    <3> TAKE s \in Sides
    <3>1. CASE s = s0
      BY <3>1, <1>13
    <3>2. CASE s # s0
      BY <3>2, <1>7, <1>9, <1>12
    <3> QED BY <3>1, <3>2
  <2> QED BY <2>1, <1>11 DEF TouchExact
<1>15. NotCrossed'
  <2>1. CASE s0 = "Long"
    <3>1. best["Short"] # NoTick => t0 < best["Short"]
      BY <2>1, <1>2, <1>3, <1>4 DEF Crosses, opposite_side, Sides, s0, t0
    <3> QED BY <2>1, <3>1, <1>12 DEF NotCrossed, Sides
  <2>2. CASE s0 = "Short"
    <3>1. best["Long"] # NoTick => best["Long"] < t0
      BY <2>2, <1>2, <1>3, <1>4 DEF Crosses, opposite_side, Sides, s0, t0
    <3> QED BY <2>2, <3>1, <1>12 DEF NotCrossed, Sides
  <2> QED BY <2>1, <2>2, <1>2 DEF Sides
<1> QED BY <1>9, <1>12, <1>14, <1>15

-----------------------------------------------------------------------------
(* The inductive invariant.                                                *)

\* A call that may still rest its order has a slot to rest it in.
SlotReserved == req.phase \in {"prune", "check", "match"} => free # <<>> \/ top < MaxSlots

IInv ==
  /\ TypeOK /\ LinkIntegrity /\ FreeListExact /\ TouchExact /\ NotCrossed
  /\ SlotReserved

\* A call past Idle has the fields of Call.
LEMMA CallFields ==
  ASSUME TypeOK, req.phase \in Phases
  PROVE  /\ req \in Call /\ req.qty \in Nat
         /\ req.order \in NewOrder /\ req.order.side \in Sides /\ req.order.tick \in Ticks
         /\ req.order.owner \in Owners /\ req.order.expiry \in Expiries \cup {Never}
         /\ Opp \in Sides
<1>1. req # Idle
  BY DEF Idle, Phases
<1>2. req \in Call
  BY <1>1 DEF TypeOK
<1>3. req.order \in NewOrder /\ req.qty \in Nat
  BY <1>2 DEF Call
<1>4. /\ req.order.side \in Sides /\ req.order.tick \in Ticks
      /\ req.order.owner \in Owners /\ req.order.expiry \in Expiries \cup {Never}
  BY <1>3 DEF NewOrder
<1> QED BY <1>2, <1>3, <1>4 DEF Opp, opposite_side, Sides

\* The head of the touch, which the loops of submit index, is a live order of
\* that level: the lookups of submit never fail.
LEMMA FrontLive ==
  ASSUME IInv, req.phase \in Phases, Touch # NoTick
  PROVE  Front \in live /\ node[Front].side = Opp /\ node[Front].tick = Touch
<1>1. Opp \in Sides
  BY CallFields DEF IInv
<1>2. Touch \in Ticks /\ level[Opp][Touch].head # NIL
  BY <1>1 DEF IInv, TouchExact, Touch
<1> QED BY <1>1, <1>2 DEF IInv, LinkIntegrity, LevelLinked, Front

\* Unlinking a live order, with the update of the cached price, keeps IInv.
LEMMA UnlinkStep ==
  ASSUME IInv, NEW i \in live, unlink(i), req' \in Call \cup {Idle},
         IF best[node[i].side] = node[i].tick
         THEN advance_best_if_empty(node[i].side, node[i].tick)
         ELSE best' = best
  PROVE  IInv'
<1> USE DEF IInv
<1>1. /\ live' = live \ {i} /\ node' \in [live' -> Node]
  BY UnlinkNodes
<1>2. level' \in [Sides -> [Ticks -> Level]]
  BY UnlinkLevels
<1>3. FreeListExact' /\ free' \in Seq(Slots) /\ free' # <<>> /\ top' = top
  BY UnlinkFree
<1>4. occupied' \in [Sides -> SUBSET Ticks]
  BY UnlinkOccupied
<1>5. best' \in [Sides -> Ticks \cup {NoTick}] /\ TouchExact' /\ NotCrossed'
  BY UnlinkTouch
<1>6. LinkIntegrity'
  BY UnlinkLinks
<1>7. TypeOK'
  <2>1. live' \subseteq Slots /\ top' \in 0..MaxSlots
    BY <1>1, <1>3 DEF TypeOK
  <2> QED BY <1>1, <1>2, <1>3, <1>4, <1>5, <2>1 DEF TypeOK
<1> QED BY <1>3, <1>5, <1>6, <1>7 DEF SlotReserved

\* The three steps of submit that drop or consume the head of the touch.
LEMMA UnlinkFrontStep ==
  ASSUME IInv, req.phase \in Phases, Touch # NoTick, unlink(Front),
         advance_best_if_empty(Opp, Touch), req' \in Call \cup {Idle}
  PROVE  IInv'
<1>1. PICK i : i = Front
  OBVIOUS
<1>2. i \in live /\ node[i].side = Opp /\ node[i].tick = Touch
  BY <1>1, FrontLive
<1>3. unlink(i)
  BY <1>1
<1>4. /\ best[node[i].side] = node[i].tick
      /\ advance_best_if_empty(node[i].side, node[i].tick)
  BY <1>2 DEF Touch
<1> QED BY <1>2, <1>3, <1>4, UnlinkStep

\* A step that leaves the book alone keeps IInv.
LEMMA ReqStep ==
  ASSUME IInv, UNCHANGED bookVars, req' \in Call \cup {Idle}, SlotReserved'
  PROVE  IInv'
BY DEF IInv, bookVars, TypeOK, LinkIntegrity, NodeLinked, LevelLinked, FreeListExact,
       TouchExact, NotCrossed, live

-----------------------------------------------------------------------------
(* Each operation keeps the invariant.                                     *)

LEMMA InitInv == Init => IInv
<1> SUFFICES ASSUME Init PROVE IInv
  OBVIOUS
<1>1. live = {}
  BY DEF Init, live
<1>2. \A s \in Sides : occupied[s] = {} /\ best[s] = NoTick
  BY DEF Init
<1>3. \A s \in Sides, t \in Ticks : level[s][t].head = NIL /\ level[s][t].tail = NIL
  BY DEF Init, EmptyLevel
<1>4. EmptyLevel \in Level
  BY DEF EmptyLevel, Level
<1>5. TypeOK
  <2>1. level \in [Sides -> [Ticks -> Level]]
    BY <1>4 DEF Init
  <2>2. node \in [live -> Node]
    BY <1>1 DEF Init
  <2> QED BY <1>1, <2>1, <2>2, BookAssumption DEF Init, TypeOK
<1>6. FreeListExact
  BY <1>1 DEF Init, FreeListExact
<1>7. TouchExact
  BY <1>2, <1>3 DEF TouchExact
<1> QED BY <1>1, <1>2, <1>3, <1>5, <1>6, <1>7
        DEF IInv, LinkIntegrity, LevelLinked, NotCrossed, Sides, SlotReserved, Init, Idle

LEMMA SubmitInv ==
  ASSUME IInv, NEW o \in NewOrder, Submit(o)
  PROVE  IInv'
<1>1. req' \in Call
  <2>1. o.qty \in Nat
    BY BookAssumption DEF NewOrder
  <2> QED BY <2>1 DEF Submit, Call, Phases, Outcomes
<1>2. SlotReserved'
  BY DEF Submit, SlotReserved, bookVars
<1> QED BY <1>1, <1>2, ReqStep DEF Submit

LEMMA GuardInv ==
  ASSUME IInv, PostOnlyGuard \/ FillOrKillGuard \/ Finish \/ Return
  PROVE  IInv'
<1>1. CASE PostOnlyGuard
  <2>1. req \in Call
    BY <1>1, CallFields DEF IInv, PostOnlyGuard, Phases
  <2>2. req' \in Call /\ (req'.phase = "done" \/ req'.phase = "check") /\ UNCHANGED bookVars
    <3> DEFINE crossed == Touch # NoTick /\ Crosses(req.order.side, req.order.tick, Touch)
    <3>1. req' = IF crossed THEN [req EXCEPT !.phase = "done", !.outcome = "post_only_rejected"]
                 ELSE [req EXCEPT !.phase = "check"]
      BY <1>1, Zenon DEF PostOnlyGuard
    <3>2. UNCHANGED bookVars
      BY <1>1 DEF PostOnlyGuard
    <3>3. /\ [req EXCEPT !.phase = "done", !.outcome = "post_only_rejected"] \in Call
          /\ [req EXCEPT !.phase = "check"] \in Call
      BY <2>1 DEF Call, Phases, Outcomes
    <3>4. /\ [req EXCEPT !.phase = "done", !.outcome = "post_only_rejected"].phase = "done"
          /\ [req EXCEPT !.phase = "check"].phase = "check"
      BY <2>1 DEF Call
    <3> HIDE DEF crossed
    <3> QED BY <3>1, <3>2, <3>3, <3>4
  <2>3. SlotReserved'
    BY <1>1, <2>2 DEF IInv, SlotReserved, PostOnlyGuard, bookVars
  <2> QED BY <2>2, <2>3, ReqStep
<1>2. CASE FillOrKillGuard
  <2>1. req \in Call
    BY <1>2, CallFields DEF IInv, FillOrKillGuard, Phases
  <2>2. req' \in Call /\ (req'.phase = "done" \/ req'.phase = "match") /\ UNCHANGED bookVars
    <3> DEFINE killed == req.order.tif = "FOK" /\ available_to_match(req.order) < req.qty
    <3>1. req' = IF killed THEN [req EXCEPT !.phase = "done", !.outcome = "fill_or_kill_failed"]
                 ELSE [req EXCEPT !.phase = "match"]
      BY <1>2, Zenon DEF FillOrKillGuard
    <3>2. UNCHANGED bookVars
      BY <1>2 DEF FillOrKillGuard
    <3>3. /\ [req EXCEPT !.phase = "done", !.outcome = "fill_or_kill_failed"] \in Call
          /\ [req EXCEPT !.phase = "match"] \in Call
      BY <2>1 DEF Call, Phases, Outcomes
    <3>4. /\ [req EXCEPT !.phase = "done", !.outcome = "fill_or_kill_failed"].phase = "done"
          /\ [req EXCEPT !.phase = "match"].phase = "match"
      BY <2>1 DEF Call
    <3> HIDE DEF killed
    <3> QED BY <3>1, <3>2, <3>3, <3>4
  <2>3. SlotReserved'
    BY <1>2, <2>2 DEF IInv, SlotReserved, FillOrKillGuard, bookVars
  <2> QED BY <2>2, <2>3, ReqStep
<1>3. CASE Finish
  <2>1. req \in Call
    BY <1>3, CallFields DEF IInv, Finish, Phases
  <2>2. req' \in Call /\ req'.phase = "done" /\ UNCHANGED bookVars
    BY <1>3, <2>1 DEF Finish, Phases, Call
  <2> QED BY <2>2, ReqStep DEF SlotReserved
<1>4. CASE Return
  BY <1>4, ReqStep DEF Return, SlotReserved, Idle
<1> QED BY <1>1, <1>2, <1>3, <1>4

LEMMA DropInv ==
  ASSUME IInv, PruneExpiredHead \/ DropHead \/ FillHead
  PROVE  IInv'
<1>1. CASE PruneExpiredHead
  <2>1. req.phase \in Phases /\ req' \in Call \cup {Idle}
    BY <1>1, CallFields DEF IInv, PruneExpiredHead, Phases
  <2> QED BY <1>1, <2>1, UnlinkFrontStep DEF PruneExpiredHead
<1>2. CASE DropHead
  <2>1. req.phase \in Phases /\ req' \in Call \cup {Idle}
    BY <1>2, CallFields DEF IInv, DropHead, Matching, Phases
  <2> QED BY <1>2, <2>1, UnlinkFrontStep DEF DropHead, Matching
<1>3. CASE FillHead
  <2>1. req.phase \in Phases /\ Touch # NoTick
    BY <1>3 DEF FillHead, Matching, Phases
  <2>2. req \in Call /\ req.qty \in Nat
    BY <2>1, CallFields DEF IInv
  <2>3. node[Front].qty \in Nat
    <3>1. Front \in live
      BY <2>1, FrontLive
    <3> QED BY <3>1 DEF IInv, TypeOK, Node
  <2>4. req.qty - node[Front].qty \in Nat
    BY <1>3, <2>2, <2>3 DEF FillHead
  <2>5. req' \in Call
    BY <1>3, <2>2, <2>4 DEF FillHead, Call
  <2> QED BY <1>3, <2>1, <2>5, UnlinkFrontStep DEF FillHead
<1> QED BY <1>1, <1>2, <1>3

LEMMA PartFillInv ==
  ASSUME IInv, PartFillHead
  PROVE  IInv'
<1>0. PICK i, s0, t0, q : i = Front /\ s0 = Opp /\ t0 = Touch /\ q = req.qty
  OBVIOUS
<1>1. req.phase \in Phases /\ Touch # NoTick
  BY DEF PartFillHead, Matching, Phases
<1>2. /\ i \in live /\ node[i].side = s0 /\ node[i].tick = t0
      /\ s0 \in Sides /\ t0 \in Ticks /\ q \in Nat /\ req \in Call
  <2>1. i \in live /\ node[i].side = s0 /\ node[i].tick = t0
    BY <1>0, <1>1, FrontLive
  <2> QED BY <2>1, <1>0, <1>1, CallFields DEF IInv, TypeOK, Node
<1>3. /\ node' = [node EXCEPT ![i].qty = @ - q]
      /\ level' = [level EXCEPT ![s0][t0].qty = @ - q]
      /\ req' = [req EXCEPT !.qty = 0]
      /\ UNCHANGED <<top, free, occupied, best>>
      /\ node[i].qty > q
  BY <1>0, Zenon DEF PartFillHead
<1>4. /\ node \in [live -> Node] /\ level \in [Sides -> [Ticks -> Level]]
      /\ \A j \in live : node[j] \in Node
      /\ \A s \in Sides, t \in Ticks : level[s][t] \in Level
  BY DEF IInv, TypeOK
<1>5. /\ live' = live /\ node' \in [live -> Node]
      /\ \A j \in live : /\ node'[j].side = node[j].side /\ node'[j].tick = node[j].tick
                         /\ node'[j].prev = node[j].prev /\ node'[j].next = node[j].next
  <2> DEFINE m == [node[i] EXCEPT !.qty = @ - q]
  <2>1. node' = [node EXCEPT ![i] = m]
    BY <1>3
  <2>2. /\ m \in Node /\ m.side = node[i].side /\ m.tick = node[i].tick
        /\ m.prev = node[i].prev /\ m.next = node[i].next
    <3>1. node[i].qty - q \in Nat
      BY <1>2, <1>3, <1>4 DEF Node
    <3> QED BY <3>1, <1>2, <1>4 DEF Node
  <2> HIDE DEF m
  <2>3. live' = live
    BY <2>1 DEF live
  <2> QED BY <2>1, <2>2, <2>3, <1>2, <1>4
<1>6. /\ level' \in [Sides -> [Ticks -> Level]]
      /\ \A s \in Sides, t \in Ticks : /\ level'[s][t].head = level[s][t].head
                                       /\ level'[s][t].tail = level[s][t].tail
  <2> DEFINE m == [level[s0][t0] EXCEPT !.qty = @ - q]
  <2>1. level' = [level EXCEPT ![s0][t0] = m]
    BY <1>3
  <2>2. m \in Level /\ m.head = level[s0][t0].head /\ m.tail = level[s0][t0].tail
    <3> DEFINE l == level[s0][t0]
    <3>1. l \in Level /\ q \in Int
      BY <1>2, <1>4
    <3> HIDE DEF l
    <3>2. l.qty - q \in Int
      BY <3>1 DEF Level
    <3>3. [l EXCEPT !.qty = @ - q] \in Level
      BY <3>1, <3>2 DEF Level
    <3>4. [l EXCEPT !.qty = @ - q].head = l.head /\ [l EXCEPT !.qty = @ - q].tail = l.tail
      BY <3>1 DEF Level
    <3> QED BY <3>3, <3>4 DEF l
  <2> HIDE DEF m
  <2> QED BY <2>1, <2>2, <1>2, <1>4
<1>7. req' \in Call /\ req'.phase = req.phase
  BY <1>2, <1>3 DEF Call
<1>8. TypeOK'
  BY <1>3, <1>5, <1>6, <1>7 DEF IInv, TypeOK
<1>9. LinkIntegrity'
  <2>1. \A j \in live : NodeLinked(j)'
    <3> TAKE j \in live
    <3>1. node[j].side \in Sides /\ node[j].tick \in Ticks
      BY <1>4 DEF Node
    <3> QED BY <3>1, <1>5, <1>6 DEF IInv, LinkIntegrity, NodeLinked
  <2>2. \A s \in Sides, t \in Ticks : LevelLinked(s, t)'
    BY <1>5, <1>6 DEF IInv, LinkIntegrity, LevelLinked
  <2> QED BY <2>1, <2>2, <1>5 DEF LinkIntegrity
<1>10. FreeListExact' /\ NotCrossed'
  BY <1>3, <1>5 DEF IInv, FreeListExact, NotCrossed
<1>11. TouchExact'
  BY <1>3, <1>6 DEF IInv, TouchExact
<1>12. SlotReserved'
  BY <1>3, <1>7 DEF IInv, SlotReserved
<1> QED BY <1>8, <1>9, <1>10, <1>11, <1>12 DEF IInv

LEMMA RestInv ==
  ASSUME IInv, Rest
  PROVE  IInv'
<1>0. PICK n : n = [tick |-> req.order.tick, qty |-> req.qty, side |-> req.order.side,
                    owner |-> req.order.owner, expiry |-> req.order.expiry,
                    prev |-> NIL, next |-> NIL]
  OBVIOUS
<1>1. req.phase = "match" /\ req.phase \in Phases /\ req.qty > 0 /\ ~Matching
  BY DEF Rest, Phases
<1>2. rest(n)
  BY <1>0, Zenon DEF Rest
<1>3. n \in Node /\ n.next = NIL /\ n.side = req.order.side /\ n.tick = req.order.tick
  <2>1. TypeOK
    BY DEF IInv
  <2>2. /\ req.qty \in Nat /\ req.order.side \in Sides /\ req.order.tick \in Ticks
        /\ req.order.owner \in Owners /\ req.order.expiry \in Expiries \cup {Never}
    BY <1>1, <2>1, CallFields
  <2> QED BY <1>0, <2>2 DEF Node
<1>4. free # <<>> \/ top < MaxSlots
  BY <1>1 DEF IInv, SlotReserved
<1>5. LET touch == best[opposite_side(n.side)] IN
      touch # NoTick => ~Crosses(n.side, n.tick, touch)
  BY <1>1, <1>3 DEF Matching, Touch, Opp
<1>6. /\ alloc \in Slots /\ live' = live \cup {alloc}
      /\ FreeListExact' /\ free' \in Seq(Slots) /\ top' \in 0..MaxSlots
  BY <1>2, <1>3, <1>4, RestFree DEF IInv
<1>7. node' \in [live' -> Node]
  BY <1>2, <1>3, <1>4, RestNodes DEF IInv
<1>8. level' \in [Sides -> [Ticks -> Level]]
  BY <1>2, <1>3, <1>4, RestLevels DEF IInv
<1>9. LinkIntegrity'
  BY <1>2, <1>3, <1>4, RestLinks DEF IInv
<1>10. /\ occupied' \in [Sides -> SUBSET Ticks]
       /\ best' \in [Sides -> Ticks \cup {NoTick}]
       /\ TouchExact' /\ NotCrossed'
  BY <1>2, <1>3, <1>4, <1>5, RestTouch DEF IInv
<1>11. req' \in Call /\ req'.phase = "done"
  <2>1. req' = [req EXCEPT !.phase = "done", !.resting_id = alloc]
    BY <1>2, Zenon DEF rest, alloc
  <2>2. req \in Call
    BY <1>1, CallFields DEF IInv
  <2> QED BY <2>1, <2>2, <1>6 DEF Call, Phases
<1>12. TypeOK'
  <2>1. live' \subseteq Slots
    BY <1>6 DEF IInv, TypeOK
  <2> QED BY <2>1, <1>6, <1>7, <1>8, <1>10, <1>11 DEF TypeOK
<1> QED BY <1>6, <1>9, <1>10, <1>11, <1>12 DEF IInv, SlotReserved

LEMMA CancelInv ==
  ASSUME IInv, NEW i \in Slots, Cancel(i)
  PROVE  IInv'
<1>1. i \in live /\ unlink(i) /\ req' = req
  BY DEF Cancel, live
<1>2. IF best[node[i].side] = node[i].tick
      THEN advance_best_if_empty(node[i].side, node[i].tick)
      ELSE best' = best
  BY Zenon DEF Cancel
<1>3. req' \in Call \cup {Idle}
  BY <1>1 DEF IInv, TypeOK
<1> QED BY <1>1, <1>2, <1>3, UnlinkStep

-----------------------------------------------------------------------------
(* The theorems.                                                           *)

\* Every step of the book keeps IInv.
LEMMA InvariantKept ==
  ASSUME IInv, [Next]_vars
  PROVE  IInv'
<1>1. CASE \E o \in NewOrder : Submit(o)
  BY <1>1, SubmitInv
<1>2. CASE PruneExpiredHead \/ DropHead \/ FillHead
  BY <1>2, DropInv
<1>3. CASE PostOnlyGuard \/ FillOrKillGuard \/ Finish \/ Return
  BY <1>3, GuardInv
<1>4. CASE PartFillHead
  BY <1>4, PartFillInv
<1>5. CASE Rest
  BY <1>5, RestInv
<1>6. CASE \E i \in Slots : Cancel(i)
  BY <1>6, CancelInv
<1>7. CASE UNCHANGED vars
  <2>1. UNCHANGED bookVars /\ req' = req
    BY <1>7 DEF vars, bookVars
  <2>2. req' \in Call \cup {Idle} /\ SlotReserved'
    BY <2>1 DEF IInv, TypeOK, SlotReserved, bookVars
  <2> QED BY <2>1, <2>2, ReqStep
<1> QED BY <1>1, <1>2, <1>3, <1>4, <1>5, <1>6, <1>7 DEF Next, Step

\* IInv is an invariant of the book.
THEOREM Invariance == Spec => []IInv
<1>1. IInv /\ [Next]_vars => IInv'
  BY InvariantKept
<1> QED BY <1>1, InitInv, PTL DEF Spec

\* Every reachable book is well typed.
THEOREM TypeCorrectness == Spec => []TypeOK
BY Invariance, PTL DEF IInv

\* No sequence of submits, fills, expiries, self-trade cancels and cancels
\* breaks a link, so the "book invariant violated" panics of slot, slot_mut and
\* take_slot (book.rs) are unreachable.
THEOREM LinksAreSound == Spec => []LinkIntegrity
BY Invariance, PTL DEF IInv

\* A freed slot is handed out again once, and never while an order lives in it.
THEOREM FreeListIsExact == Spec => []FreeListExact
BY Invariance, PTL DEF IInv

\* The cached best prices and the occupancy set are never stale, so the "cached
\* best price must point at a non-empty level" expectation of submit holds.
THEOREM TouchIsExact == Spec => []TouchExact
BY Invariance, PTL DEF IInv

\* No order rests through the opposite side, whatever expires or is cancelled.
THEOREM NeverCrossed == Spec => []NotCrossed
BY Invariance, PTL DEF IInv

-----------------------------------------------------------------------------
(* The queue of a side *)

\* Q lists the orders of side s in the arena nd by priority: better ticks first,
\* and at one tick along the links.
Ordered(Q, s, nd) ==
  /\ Q \in Seq({i \in DOMAIN nd : nd[i].side = s})
  /\ \A j, k \in 1..Len(Q) : Q[j] = Q[k] => j = k
  /\ \A i \in DOMAIN nd : nd[i].side = s => \E k \in 1..Len(Q) : Q[k] = i
  /\ \A j, k \in 1..Len(Q) : j < k => ~Better(s, nd[Q[k]].tick, nd[Q[j]].tick)
  /\ \A k \in 1..Len(Q) :
       nd[Q[k]].next = IF k < Len(Q) /\ nd[Q[k + 1]].tick = nd[Q[k]].tick THEN Q[k + 1] ELSE NIL

LEMMA OrderedIds ==
  ASSUME TypeOK, NEW s \in Sides, NEW Q, Ordered(Q, s, node)
  PROVE  /\ Len(Q) \in Nat
         /\ \A k \in 1..Len(Q) : /\ Q[k] \in live /\ Q[k] # NIL /\ node[Q[k]].side = s
                                 /\ node[Q[k]].tick \in Ticks /\ node[Q[k]].tick \in Nat
<1>1. Q \in Seq({i \in live : node[i].side = s})
  BY DEF Ordered, live
<1>2. \A k \in 1..Len(Q) : Q[k] \in {i \in live : node[i].side = s}
  BY <1>1
<1>3. Ticks \subseteq Nat
  BY BookAssumption DEF Ticks
<1>4. \A i \in live : i # NIL /\ node[i].tick \in Ticks
  BY NodeFields
<1>5. Len(Q) \in Nat
  BY <1>1
<1>6. ASSUME NEW k \in 1..Len(Q)
      PROVE  /\ Q[k] \in live /\ Q[k] # NIL /\ node[Q[k]].side = s
             /\ node[Q[k]].tick \in Ticks /\ node[Q[k]].tick \in Nat
  BY <1>2, <1>3, <1>4
<1> QED BY <1>5, <1>6

\* The back links follow the queue too.
LEMMA OrderedPrev ==
  ASSUME TypeOK, LinkIntegrity, NEW s \in Sides, NEW Q, Ordered(Q, s, node), NEW k \in 1..Len(Q)
  PROVE  node[Q[k]].prev = IF k > 1 /\ node[Q[k - 1]].tick = node[Q[k]].tick THEN Q[k - 1] ELSE NIL
<1>1. /\ Len(Q) \in Nat
      /\ \A m \in 1..Len(Q) : Q[m] \in live /\ Q[m] # NIL /\ node[Q[m]].side = s
  BY OrderedIds
<1>2. CASE k > 1 /\ node[Q[k - 1]].tick = node[Q[k]].tick
  <2> DEFINE p == k - 1
  <2>1. p \in 1..Len(Q) /\ p < Len(Q) /\ p + 1 = k
    BY <1>1, <1>2
  <2>2. node[Q[p]].next = Q[k]
    BY <1>2, <2>1 DEF Ordered
  <2>3. Q[p] \in live /\ Q[k] # NIL /\ Q[p] # NIL
    BY <1>1, <2>1
  <2>4. NodeLinked(Q[p])
    BY <2>3 DEF LinkIntegrity
  <2>5. node[Q[k]].prev = Q[p]
    BY <2>2, <2>3, <2>4 DEF NodeLinked
  <2> QED BY <1>2, <2>5
<1>3. CASE ~(k > 1 /\ node[Q[k - 1]].tick = node[Q[k]].tick)
  <2> SUFFICES ASSUME node[Q[k]].prev # NIL PROVE FALSE
    BY <1>3
  <2>1. NodeLinked(Q[k])
    BY <1>1 DEF LinkIntegrity
  <2>2. PICK p : p = node[Q[k]].prev
    OBVIOUS
  <2>3. p \in live /\ node[p].next = Q[k] /\ node[p].side = s /\ node[p].tick = node[Q[k]].tick
    BY <1>1, <2>1, <2>2 DEF NodeLinked
  <2>4. PICK j \in 1..Len(Q) : Q[j] = p
    BY <2>3 DEF Ordered, live
  <2>5. Q[k] # NIL
    BY <1>1
  <2>6. j < Len(Q) /\ Q[j + 1] = Q[k]
    BY <2>3, <2>4, <2>5 DEF Ordered
  <2>7. j + 1 \in 1..Len(Q)
    BY <1>1, <2>6
  <2>8. j + 1 = k
    BY <2>6, <2>7 DEF Ordered
  <2>9. k > 1 /\ k - 1 = j
    BY <1>1, <2>8
  <2> QED BY <1>3, <2>3, <2>4, <2>9
<1> QED BY <1>2, <1>3

\* The first and the last of a price are the ends of its level.
LEMMA OrderedEnds ==
  ASSUME TypeOK, LinkIntegrity, NEW s \in Sides, NEW Q, Ordered(Q, s, node), NEW k \in 1..Len(Q)
  PROVE  LET t == node[Q[k]].tick IN
         /\ ~(k > 1 /\ node[Q[k - 1]].tick = t) => level[s][t].head = Q[k]
         /\ ~(k < Len(Q) /\ node[Q[k + 1]].tick = t) => level[s][t].tail = Q[k]
<1>1. Q[k] \in live /\ node[Q[k]].side = s
  BY OrderedIds
<1>2. NodeLinked(Q[k])
  BY <1>1 DEF LinkIntegrity
<1>3. ~(k > 1 /\ node[Q[k - 1]].tick = node[Q[k]].tick) => node[Q[k]].prev = NIL
  BY OrderedPrev
<1>4. ~(k < Len(Q) /\ node[Q[k + 1]].tick = node[Q[k]].tick) => node[Q[k]].next = NIL
  BY DEF Ordered
<1> QED BY <1>1, <1>2, <1>3, <1>4 DEF NodeLinked

\* The occupied ticks are those of the queue, and the head of a level is the
\* first of its orders.
LEMMA OrderedTicks ==
  ASSUME TypeOK, LinkIntegrity, TouchExact, NEW s \in Sides, NEW Q, Ordered(Q, s, node)
  PROVE  /\ \A t \in occupied[s] : t \in Ticks /\ \E k \in 1..Len(Q) : node[Q[k]].tick = t
         /\ \A k \in 1..Len(Q) : node[Q[k]].tick \in occupied[s]
<1>1. occupied[s] = {t \in Ticks : level[s][t].head # NIL}
  BY DEF TouchExact
<1>2. \A t \in occupied[s] : t \in Ticks /\ \E k \in 1..Len(Q) : node[Q[k]].tick = t
  <2> SUFFICES ASSUME NEW t \in Ticks, level[s][t].head # NIL PROVE \E k \in 1..Len(Q) : node[Q[k]].tick = t
    BY <1>1
  <2>1. PICK h : h = level[s][t].head
    OBVIOUS
  <2>2. LevelLinked(s, t)
    BY DEF LinkIntegrity
  <2>3. h \in live /\ node[h].side = s /\ node[h].tick = t
    BY <2>1, <2>2 DEF LevelLinked
  <2> QED BY <2>3 DEF Ordered, live
<1>3. \A k \in 1..Len(Q) : node[Q[k]].tick \in occupied[s]
  <2> SUFFICES ASSUME NEW k \in 1..Len(Q) PROVE node[Q[k]].tick \in occupied[s]
    OBVIOUS
  <2>1. PICK t : t = node[Q[k]].tick
    OBVIOUS
  <2>2. Len(Q) \in Nat /\ t \in Ticks
    BY <2>1, OrderedIds
  <2> DEFINE T == {m \in 1..Len(Q) : node[Q[m]].tick = t}
  <2>3. T \subseteq Nat /\ T # {}
    BY <2>1, <2>2
  <2>4. PICK m \in T : \A n \in T : m <= n
    <3> HIDE DEF T
    <3> QED BY <2>3, LeastOf
  <2>5. ~(m > 1 /\ node[Q[m - 1]].tick = t)
    <3> SUFFICES ASSUME m > 1, node[Q[m - 1]].tick = t PROVE FALSE
      OBVIOUS
    <3>1. m - 1 \in T
      BY <2>2, <2>4
    <3>2. m <= m - 1
      BY <2>4, <3>1
    <3> QED BY <2>3, <2>4, <3>2
  <2>6. level[s][t].head = Q[m] /\ Q[m] # NIL
    BY <2>4, <2>5, OrderedEnds, OrderedIds
  <2> QED BY <1>1, <2>1, <2>2, <2>6
<1> QED BY <1>2, <1>3

\* What the links and the cached prices of the book are depends only on the
\* orders of one side.
LEMMA OrderedSame ==
  ASSUME NEW Q, NEW s, NEW nd, NEW md, Ordered(Q, s, nd),
         {i \in DOMAIN md : md[i].side = s} = {i \in DOMAIN nd : nd[i].side = s},
         \A i \in {j \in DOMAIN nd : nd[j].side = s} :
            md[i].tick = nd[i].tick /\ md[i].next = nd[i].next
  PROVE  Ordered(Q, s, md)
<1>1. Q \in Seq({i \in DOMAIN nd : nd[i].side = s})
  BY DEF Ordered
<1>2. Len(Q) \in Nat /\ \A k \in 1..Len(Q) : Q[k] \in {i \in DOMAIN nd : nd[i].side = s}
  BY <1>1
<1>3. \A k \in 1..Len(Q) : md[Q[k]].tick = nd[Q[k]].tick /\ md[Q[k]].next = nd[Q[k]].next
  BY <1>2
<1>4. Q \in Seq({i \in DOMAIN md : md[i].side = s})
  BY <1>1
<1>5. \A i \in DOMAIN md : md[i].side = s => \E k \in 1..Len(Q) : Q[k] = i
  BY DEF Ordered
<1>6. \A j, k \in 1..Len(Q) : Q[j] = Q[k] => j = k
  BY DEF Ordered
<1>7. \A j, k \in 1..Len(Q) : j < k => ~Better(s, md[Q[k]].tick, md[Q[j]].tick)
  BY <1>3 DEF Ordered
<1>8. \A k \in 1..Len(Q) :
        md[Q[k]].next = IF k < Len(Q) /\ md[Q[k + 1]].tick = md[Q[k]].tick THEN Q[k + 1] ELSE NIL
  <2> TAKE k \in 1..Len(Q)
  <2>1. k < Len(Q) => k + 1 \in 1..Len(Q)
    BY <1>2
  <2> QED BY <2>1, <1>3 DEF Ordered
<1> QED BY <1>4, <1>5, <1>6, <1>7, <1>8 DEF Ordered

\* The queue without its k-th order.
Without(Q, k) == [j \in 1..(Len(Q) - 1) |-> Q[IF j < k THEN j ELSE j + 1]]

\* unlink takes its order out of the queue, and out of no other place.
LEMMA UnlinkQueue ==
  ASSUME TypeOK, LinkIntegrity, NEW i \in live, unlink(i),
         NEW Q, Ordered(Q, node[i].side, node), NEW k \in 1..Len(Q), Q[k] = i
  PROVE  Ordered(Without(Q, k), node[i].side, node')
<1> DEFINE s == node[i].side
           R == Without(Q, k)
           N == Len(Q)
           Pos(j) == IF j < k THEN j ELSE j + 1
<1>1. /\ live' = live \ {i}
      /\ \A j \in live' :
           /\ node'[j].side = node[j].side /\ node'[j].tick = node[j].tick
           /\ node'[j].next = IF j = node[i].prev THEN node[i].next ELSE node[j].next
  BY UnlinkNodes
<1>2. s \in Sides
  BY NodeFields
<1>3. /\ N \in Nat
      /\ \A m \in 1..N : /\ Q[m] \in live /\ Q[m] # NIL /\ node[Q[m]].side = s
                         /\ node[Q[m]].tick \in Ticks /\ node[Q[m]].tick \in Nat
  BY <1>2, OrderedIds
<1>4. \A j, m \in 1..N : Q[j] = Q[m] => j = m
  BY DEF Ordered
<1>5. \A j \in 1..(N - 1) : R[j] = Q[Pos(j)] /\ Pos(j) \in 1..N /\ Pos(j) # k
  BY <1>3 DEF Without
<1>6. Len(R) = N - 1 /\ N - 1 \in Nat
  BY <1>3 DEF Without
<1>7. \A j \in 1..(N - 1) : R[j] \in live' /\ R[j] # i /\ node'[R[j]].side = s /\ node'[R[j]].tick = node[R[j]].tick
  <2> HIDE DEF R, Pos
  <2> TAKE j \in 1..(N - 1)
  <2>1. PICK m : m = Pos(j)
    OBVIOUS
  <2>2. m \in 1..N /\ m # k /\ R[j] = Q[m]
    BY <1>5, <2>1
  <2>3. Q[m] \in live /\ Q[m] # i /\ node[Q[m]].side = s
    BY <1>3, <1>4, <2>2
  <2> QED BY <1>1, <2>2, <2>3
<1>8. R \in Seq({j \in DOMAIN node' : node'[j].side = s})
  <2> DEFINE T == {j \in DOMAIN node' : node'[j].side = s}
  <2>1. R = [j \in 1..(N - 1) |-> R[j]]
    BY <1>6 DEF Without
  <2>2. \A j \in 1..(N - 1) : R[j] \in T
    BY <1>7 DEF live
  <2> SUFFICES R \in Seq(T)
    OBVIOUS
  <2> HIDE DEF R, T, N
  <2>3. R \in [1..(N - 1) -> T]
    BY <2>1, <2>2
  <2> QED BY <1>6, <2>3
<1> HIDE DEF R
<1>9. \A j, m \in 1..(N - 1) : R[j] = R[m] => j = m
  <2> TAKE j, m \in 1..(N - 1)
  <2>1. R[j] = R[m] => Pos(j) = Pos(m)
    <3> HIDE DEF Pos
    <3> QED BY <1>4, <1>5
  <2> QED BY <2>1
<1>10. ASSUME NEW j \in DOMAIN node', node'[j].side = s
       PROVE  \E m \in 1..(N - 1) : R[m] = j
  <2>1. j \in live /\ j # i /\ node[j].side = s
    BY <1>1, <1>10 DEF live
  <2>2. PICK m \in 1..N : Q[m] = j
    BY <2>1 DEF Ordered, live
  <2>3. m # k
    BY <2>1, <2>2
  <2>4. CASE m < k
    <3>1. m \in 1..(N - 1) /\ Pos(m) = m
      BY <1>3, <2>4
    <3> HIDE DEF Pos
    <3> QED BY <1>5, <2>2, <3>1
  <2>5. CASE m > k
    <3>1. m - 1 \in 1..(N - 1) /\ Pos(m - 1) = m
      BY <1>3, <2>5
    <3> HIDE DEF Pos
    <3> QED BY <1>5, <2>2, <3>1
  <2> QED BY <1>3, <2>3, <2>4, <2>5
<1>11. \A j, m \in 1..(N - 1) : j < m => ~Better(s, node'[R[m]].tick, node'[R[j]].tick)
  <2> SUFFICES ASSUME NEW j \in 1..(N - 1), NEW m \in 1..(N - 1), j < m
               PROVE  ~Better(s, node'[R[m]].tick, node'[R[j]].tick)
    OBVIOUS
  <2>1. Pos(j) \in 1..N /\ Pos(m) \in 1..N /\ Pos(j) < Pos(m)
    BY <1>3
  <2>2. ~Better(s, node[Q[Pos(m)]].tick, node[Q[Pos(j)]].tick)
    <3> HIDE DEF Pos
    <3> QED BY <2>1 DEF Ordered
  <2> HIDE DEF Pos
  <2> QED BY <2>2, <1>5, <1>7
<1>12. ASSUME NEW j \in 1..(N - 1)
       PROVE  node'[R[j]].next = IF j < N - 1 /\ node'[R[j + 1]].tick = node'[R[j]].tick THEN R[j + 1] ELSE NIL
  <2> DEFINE t(m) == node[Q[m]].tick
  <2>1. \A m \in 1..N : node[Q[m]].next = IF m < N /\ t(m + 1) = t(m) THEN Q[m + 1] ELSE NIL
    BY DEF Ordered
  <2>2. node[i].prev = IF k > 1 /\ t(k - 1) = t(k) THEN Q[k - 1] ELSE NIL
    BY <1>2, OrderedPrev
  <2>3. \A m \in 1..N : t(m) \in Nat
    BY <1>3
  <2>4. /\ node'[R[j]].tick = t(Pos(j))
        /\ j < N - 1 => node'[R[j + 1]].tick = t(Pos(j + 1)) /\ R[j + 1] = Q[Pos(j + 1)] /\ Pos(j + 1) \in 1..N
    <3>1. j < N - 1 => j + 1 \in 1..(N - 1)
      BY <1>3
    <3> HIDE DEF Pos
    <3> QED BY <3>1, <1>5, <1>7
  <2>5. node'[R[j]].next = IF R[j] = node[i].prev THEN node[i].next ELSE node[R[j]].next
    BY <1>1, <1>7
  <2>6. R[j] = Q[Pos(j)] /\ Pos(j) \in 1..N
    BY <1>5
  <2>7. CASE j + 1 < k
    <3>1. Pos(j) = j /\ Pos(j + 1) = j + 1 /\ j < N - 1 /\ j \in 1..N /\ j < N /\ k - 1 \in Int /\ j # k - 1
      BY <1>3, <2>7
    <3> HIDE DEF Pos
    <3>2. R[j] # node[i].prev
      <4>1. k > 1 => k - 1 \in 1..N
        BY <1>3
      <4> QED BY <1>3, <1>4, <2>2, <2>6, <3>1, <4>1
    <3> HIDE DEF t
    <3> QED BY <2>1, <2>4, <2>5, <2>6, <3>1, <3>2 DEF t
  <2>8. CASE j + 1 = k
    <3>1. Pos(j) = j /\ j = k - 1 /\ k > 1 /\ j \in 1..N /\ (j < N - 1 <=> k < N) /\ Pos(j + 1) = k + 1
      BY <1>3, <2>8
    <3> HIDE DEF Pos
    <3>2. CASE t(k - 1) = t(k)
      <4>1. R[j] = node[i].prev
        BY <2>2, <2>6, <3>1, <3>2
      <4>2. node[i].next = IF k < N /\ t(k + 1) = t(k) THEN Q[k + 1] ELSE NIL
        BY <2>1
      <4> HIDE DEF t, N
      <4> QED BY <2>4, <2>5, <3>1, <3>2, <4>1, <4>2
    <3>3. CASE t(k - 1) # t(k)
      <4>1. R[j] # node[i].prev
        BY <1>3, <2>2, <2>6, <3>1, <3>3
      <4>2. node[R[j]].next = NIL
        BY <2>1, <2>6, <3>1, <3>3, <2>8
      <4>3. k < N => t(k + 1) # t(k - 1)
        <5> SUFFICES ASSUME k < N PROVE t(k + 1) # t(k - 1)
          OBVIOUS
        <5>1. k - 1 \in 1..N /\ k \in 1..N /\ k + 1 \in 1..N /\ k - 1 < k /\ k < k + 1
          BY <1>3, <3>1
        <5>2. ~Better(s, t(k), t(k - 1)) /\ ~Better(s, t(k + 1), t(k))
          BY <5>1 DEF Ordered
        <5> QED
          <6>1. t(k) \in Nat /\ t(k - 1) \in Nat /\ t(k + 1) \in Nat
            BY <2>3, <5>1
          <6> HIDE DEF t
          <6> QED BY <5>2, <6>1, <3>3, <1>2 DEF Better, Sides
      <4> HIDE DEF t, N
      <4> QED BY <2>4, <2>5, <3>1, <4>1, <4>2, <4>3
    <3> QED BY <3>2, <3>3
  <2>9. CASE j + 1 > k
    <3>1. /\ Pos(j) = j + 1 /\ Pos(j + 1) = j + 2 /\ (j < N - 1 <=> j + 1 < N) /\ j + 1 \in 1..N
          /\ j + 1 # k - 1 /\ (j + 1) + 1 = j + 2
      BY <1>3, <2>9
    <3> HIDE DEF Pos
    <3>2. R[j] # node[i].prev
      <4>1. k > 1 => k - 1 \in 1..N
        BY <1>3
      <4> QED BY <1>3, <1>4, <2>2, <2>6, <3>1, <4>1
    <3>3. node[R[j]].next = IF j + 1 < N /\ t(j + 2) = t(j + 1) THEN Q[j + 2] ELSE NIL
      BY <2>1, <2>6, <3>1
    <3> HIDE DEF t, N
    <3> QED BY <2>4, <2>5, <3>1, <3>2, <3>3
  <2> QED BY <1>3, <2>7, <2>8, <2>9
<1> QED
  <2> HIDE DEF N, Pos
  <2>1. Len(R) = N - 1
    BY <1>6
  <2> SUFFICES Ordered(R, s, node')
    BY DEF R
  <2> QED BY <2>1, <1>8, <1>9, <1>10, <1>11, <1>12 DEF Ordered

\* The queue with order i put after its p-th order.
With(Q, p, i) == [j \in 1..(Len(Q) + 1) |-> IF j <= p THEN Q[j] ELSE IF j = p + 1 THEN i ELSE Q[j - 1]]

\* The place of a new order at tick t: behind every order that is not worse.
Place(Q, s, t, nd, p) ==
  /\ p \in 0..Len(Q)
  /\ \A k \in 1..Len(Q) : k <= p => ~Better(s, t, nd[Q[k]].tick)
  /\ \A k \in 1..Len(Q) : k > p => Better(s, t, nd[Q[k]].tick)

LEMMA PlaceExists ==
  ASSUME TypeOK, NEW s \in Sides, NEW t \in Ticks, NEW Q, Ordered(Q, s, node)
  PROVE  \E p : Place(Q, s, t, node, p)
<1>1. /\ Len(Q) \in Nat
      /\ \A k \in 1..Len(Q) : node[Q[k]].tick \in Nat
  BY OrderedIds
<1>2. t \in Nat
  BY BookAssumption DEF Ticks
<1> DEFINE T == {p \in 0..Len(Q) : p = 0 \/ ~Better(s, t, node[Q[p]].tick)}
<1>3. T \subseteq 0..Len(Q) /\ T # {}
  <2>1. 0 \in T
    BY <1>1
  <2> QED BY <2>1
<1>4. PICK p \in T : \A q \in T : q <= p
  <2> HIDE DEF T
  <2> QED BY <1>1, <1>3, GreatestBounded
<1>5. \A k \in 1..Len(Q) : k <= p => ~Better(s, t, node[Q[k]].tick)
  <2> SUFFICES ASSUME NEW k \in 1..Len(Q), k <= p PROVE ~Better(s, t, node[Q[k]].tick)
    OBVIOUS
  <2>1. p \in 1..Len(Q) /\ ~Better(s, t, node[Q[p]].tick)
    BY <1>1
  <2>2. k < p => ~Better(s, node[Q[p]].tick, node[Q[k]].tick)
    BY <2>1 DEF Ordered
  <2>3. node[Q[p]].tick \in Nat /\ node[Q[k]].tick \in Nat
    BY <1>1, <2>1
  <2>4. k = p \/ k < p
    BY <1>1, <2>1
  <2> QED BY <1>2, <2>1, <2>2, <2>3, <2>4 DEF Better, Sides
<1>6. \A k \in 1..Len(Q) : k > p => Better(s, t, node[Q[k]].tick)
  <2> SUFFICES ASSUME NEW k \in 1..Len(Q), k > p, ~Better(s, t, node[Q[k]].tick) PROVE FALSE
    OBVIOUS
  <2>1. k \in T
    BY <1>1
  <2>2. k <= p
    BY <1>4, <2>1
  <2> QED BY <1>1, <1>3, <1>4, <2>2
<1> HIDE DEF T
<1> QED BY <1>3, <1>4, <1>5, <1>6 DEF Place

\* The tail of the level t is the order the new one is put behind, if that one
\* rests at t.
LEMMA PlaceTail ==
  ASSUME TypeOK, LinkIntegrity, TouchExact, NEW s \in Sides, NEW t \in Ticks,
         NEW Q, Ordered(Q, s, node), NEW p, Place(Q, s, t, node, p)
  PROVE  level[s][t].tail = IF p >= 1 /\ node[Q[p]].tick = t THEN Q[p] ELSE NIL
<1>1. /\ Len(Q) \in Nat /\ p \in 0..Len(Q)
      /\ \A k \in 1..Len(Q) : node[Q[k]].tick \in Nat
  BY OrderedIds DEF Place
<1>2. t \in Nat
  BY BookAssumption DEF Ticks
<1>3. CASE p >= 1 /\ node[Q[p]].tick = t
  <2>1. p \in 1..Len(Q)
    BY <1>1, <1>3
  <2>2. ~(p < Len(Q) /\ node[Q[p + 1]].tick = t)
    <3> SUFFICES ASSUME p < Len(Q), node[Q[p + 1]].tick = t PROVE FALSE
      OBVIOUS
    <3>1. p + 1 \in 1..Len(Q) /\ p + 1 > p
      BY <1>1
    <3>2. Better(s, t, node[Q[p + 1]].tick)
      BY <3>1 DEF Place
    <3> QED BY <1>2, <3>2 DEF Better, Sides
  <2> QED BY <1>3, <2>1, <2>2, OrderedEnds
<1>4. CASE ~(p >= 1 /\ node[Q[p]].tick = t)
  <2>1. t \notin occupied[s]
    <3> SUFFICES ASSUME t \in occupied[s] PROVE FALSE
      OBVIOUS
    <3>1. PICK k \in 1..Len(Q) : node[Q[k]].tick = t
      BY OrderedTicks
    <3>2. k <= p
      <4>1. k > p => Better(s, t, t)
        BY <3>1 DEF Place
      <4> QED BY <1>1, <1>2, <4>1 DEF Better, Sides
    <3>3. p \in 1..Len(Q) /\ p >= 1
      BY <1>1, <3>2
    <3>4. k # p /\ k < p
      BY <1>1, <1>4, <3>1, <3>2, <3>3
    <3>5. ~Better(s, node[Q[p]].tick, t)
      BY <3>1, <3>3, <3>4 DEF Ordered
    <3>6. ~Better(s, t, node[Q[p]].tick)
      BY <1>1, <3>3 DEF Place
    <3>7. node[Q[p]].tick \in Nat
      BY <1>1, <3>3
    <3> QED BY <1>2, <1>4, <3>3, <3>5, <3>6, <3>7 DEF Better, Sides
  <2>2. level[s][t].head = NIL
    BY <2>1 DEF TouchExact
  <2>3. level[s][t].tail = NIL
    BY <2>2 DEF LinkIntegrity, LevelLinked
  <2> QED BY <1>4, <2>3
<1> QED BY <1>3, <1>4

\* rest puts its order into the queue behind every order that is not worse.
LEMMA RestQueue ==
  ASSUME TypeOK, LinkIntegrity, FreeListExact, TouchExact, free # <<>> \/ top < MaxSlots,
         NEW n \in Node, n.next = NIL, rest(n), NEW s, s = n.side,
         NEW Q, Ordered(Q, s, node), NEW p, Place(Q, s, n.tick, node, p)
  PROVE  Ordered(With(Q, p, alloc), s, node')
<1>0. PICK i, t : i = alloc /\ t = n.tick
  OBVIOUS
<1> DEFINE R == With(Q, p, i)
           N == Len(Q)
           tail == level[s][t].tail
<1>1. /\ live' = live \cup {i} /\ i \notin live /\ i # NIL
      /\ \A j \in live :
           /\ node'[j].side = node[j].side /\ node'[j].tick = node[j].tick
           /\ node'[j].next = IF j = tail THEN i ELSE node[j].next
      /\ node'[i].side = s /\ node'[i].tick = t /\ node'[i].next = NIL
  BY <1>0, RestNodes, RestFree
<1>2. s \in Sides /\ t \in Ticks /\ t \in Nat
  <2>1. s \in Sides /\ t \in Ticks
    BY <1>0 DEF Node
  <2> QED BY <2>1, BookAssumption DEF Ticks
<1>3. /\ N \in Nat /\ p \in 0..N /\ p \in Nat
      /\ \A m \in 1..N : /\ Q[m] \in live /\ Q[m] # NIL /\ node[Q[m]].side = s
                         /\ node[Q[m]].tick \in Ticks /\ node[Q[m]].tick \in Nat
  <2>1. p \in 0..N
    BY DEF Place
  <2>2. /\ N \in Nat 
        /\ \A m \in 1..N : /\ Q[m] \in live /\ Q[m] # NIL /\ node[Q[m]].side = s
                         /\ node[Q[m]].tick \in Ticks /\ node[Q[m]].tick \in Nat
    BY <1>2, OrderedIds
  <2> QED BY <2>1, <2>2
<1>4. \A j, m \in 1..N : Q[j] = Q[m] => j = m
  BY DEF Ordered
<1>5. tail = IF p >= 1 /\ node[Q[p]].tick = t THEN Q[p] ELSE NIL
  BY <1>0, <1>2, PlaceTail
<1>6. Len(R) = N + 1 /\ N + 1 \in Nat
  BY <1>3 DEF With
<1>7. /\ \A j \in 1..(N + 1) : j <= p => R[j] = Q[j] /\ j \in 1..N
      /\ p + 1 \in 1..(N + 1) /\ R[p + 1] = i
      /\ \A j \in 1..(N + 1) : j > p + 1 => R[j] = Q[j - 1] /\ j - 1 \in 1..N /\ j - 1 > p
      /\ \A j \in 1..(N + 1) : j <= p \/ j = p + 1 \/ j > p + 1
  BY <1>3 DEF With
<1>8. \A j \in 1..(N + 1) : R[j] \in live' /\ node'[R[j]].side = s /\ R[j] # NIL
  <2> HIDE DEF R, N
  <2> QED BY <1>1, <1>3, <1>7
<1>9. R \in Seq({j \in DOMAIN node' : node'[j].side = s})
  <2> DEFINE T == {j \in DOMAIN node' : node'[j].side = s}
  <2>1. R = [j \in 1..(N + 1) |-> R[j]]
    BY <1>6 DEF With
  <2>2. \A j \in 1..(N + 1) : R[j] \in T
    BY <1>8 DEF live
  <2> SUFFICES R \in Seq(T)
    OBVIOUS
  <2> HIDE DEF R, T, N
  <2>3. R \in [1..(N + 1) -> T]
    BY <2>1, <2>2
  <2> QED BY <1>6, <2>3
<1> HIDE DEF R
<1>10. \A j \in 1..(N + 1) : (R[j] = i) <=> (j = p + 1)
  BY <1>1, <1>3, <1>7
<1>11. \A j, m \in 1..(N + 1) : R[j] = R[m] => j = m
  <2> SUFFICES ASSUME NEW j \in 1..(N + 1), NEW m \in 1..(N + 1), R[j] = R[m] PROVE j = m
    OBVIOUS
  <2>1. CASE j = p + 1 \/ m = p + 1
    BY <1>10, <2>1
  <2>2. CASE j # p + 1 /\ m # p + 1
    <3> DEFINE a == IF j <= p THEN j ELSE j - 1
               b == IF m <= p THEN m ELSE m - 1
    <3>1. R[j] = Q[a] /\ R[m] = Q[b] /\ a \in 1..N /\ b \in 1..N
      BY <1>7, <2>2
    <3>2. a = b
      <4> HIDE DEF a, b
      <4> QED BY <1>4, <3>1
    <3> QED BY <1>3, <2>2, <3>2
  <2> QED BY <2>1, <2>2
<1>12. ASSUME NEW j \in DOMAIN node', node'[j].side = s
       PROVE  \E m \in 1..(N + 1) : R[m] = j
  <2>1. CASE j = i
    BY <1>7, <2>1
  <2>2. CASE j # i
    <3>1. j \in live /\ node[j].side = s
      BY <1>1, <1>12, <2>2 DEF live
    <3>2. PICK m \in 1..N : Q[m] = j
      BY <3>1 DEF Ordered, live
    <3>3. CASE m <= p
      <4>1. m \in 1..(N + 1)
        BY <1>3
      <4> QED BY <1>7, <3>2, <3>3, <4>1
    <3>4. CASE m > p
      <4>1. m + 1 \in 1..(N + 1) /\ m + 1 > p + 1 /\ (m + 1) - 1 = m
        BY <1>3, <3>4
      <4> QED BY <1>7, <3>2, <4>1
    <3> QED BY <1>3, <3>3, <3>4
  <2> QED BY <2>1, <2>2
<1>13. /\ \A j \in 1..(N + 1) : j <= p => node'[R[j]].tick = node[Q[j]].tick
       /\ node'[R[p + 1]].tick = t
       /\ \A j \in 1..(N + 1) : j > p + 1 => node'[R[j]].tick = node[Q[j - 1]].tick
  BY <1>1, <1>3, <1>7
<1>14. \A j, m \in 1..(N + 1) : j < m => ~Better(s, node'[R[m]].tick, node'[R[j]].tick)
  <2> SUFFICES ASSUME NEW j \in 1..(N + 1), NEW m \in 1..(N + 1), j < m
               PROVE  ~Better(s, node'[R[m]].tick, node'[R[j]].tick)
    OBVIOUS
  <2>1. \A a, b \in 1..N : a < b => ~Better(s, node[Q[b]].tick, node[Q[a]].tick)
    BY DEF Ordered
  <2>2. \A a \in 1..N : /\ a <= p => ~Better(s, t, node[Q[a]].tick)
                        /\ a > p => Better(s, t, node[Q[a]].tick)
    BY <1>0 DEF Place
  <2>3. CASE m <= p
    <3>1. j <= p /\ j \in 1..N /\ m \in 1..N
      BY <1>3, <2>3
    <3> QED BY <1>13, <2>1, <2>3, <3>1
  <2>4. CASE m = p + 1
    <3>1. j <= p /\ j \in 1..N
      BY <1>3, <2>4
    <3> QED BY <1>13, <2>2, <2>4, <3>1
  <2>5. CASE m > p + 1 /\ j <= p
    <3>1. j \in 1..N /\ m - 1 \in 1..N /\ j < m - 1
      BY <1>3, <2>5
    <3> QED BY <1>13, <2>1, <2>5, <3>1
  <2>6. CASE m > p + 1 /\ j = p + 1
    <3>1. m - 1 \in 1..N /\ m - 1 > p
      BY <1>3, <2>6
    <3>2. Better(s, t, node[Q[m - 1]].tick)
      BY <2>2, <3>1
    <3>3. node[Q[m - 1]].tick \in Nat
      BY <1>3, <3>1
    <3>4. ~Better(s, node[Q[m - 1]].tick, t)
      BY <1>2, <3>2, <3>3 DEF Better, Sides
    <3> QED BY <1>13, <2>6, <3>4
  <2>7. CASE m > p + 1 /\ j > p + 1
    <3>1. j - 1 \in 1..N /\ m - 1 \in 1..N /\ j - 1 < m - 1
      BY <1>3, <2>7
    <3> QED BY <1>13, <2>1, <2>7, <3>1
  <2> QED BY <1>3, <2>3, <2>4, <2>5, <2>6, <2>7
<1>15. ASSUME NEW j \in 1..(N + 1)
       PROVE  node'[R[j]].next = IF j < N + 1 /\ node'[R[j + 1]].tick = node'[R[j]].tick THEN R[j + 1] ELSE NIL
  <2> DEFINE T(m) == node[Q[m]].tick
  <2>1. \A m \in 1..N : node[Q[m]].next = IF m < N /\ T(m + 1) = T(m) THEN Q[m + 1] ELSE NIL
    BY DEF Ordered
  <2>2. \A m \in 1..N : m > p => T(m) # t
    <3> SUFFICES ASSUME NEW m \in 1..N, m > p, T(m) = t PROVE FALSE
      OBVIOUS
    <3>1. Better(s, t, T(m))
      BY <1>0 DEF Place
    <3> HIDE DEF T
    <3> QED BY <1>2, <3>1 DEF Better, Sides
  <2>3. tail = IF p >= 1 /\ T(p) = t THEN Q[p] ELSE NIL
    BY <1>5
  <2>4. CASE j < p
    <3>1. j <= p /\ j + 1 <= p /\ j + 1 \in 1..(N + 1) /\ j + 1 \in 1..N /\ j \in 1..N /\ j < N /\ j < N + 1
          /\ j # p /\ (p >= 1 => p \in 1..N)
      BY <1>3, <2>4
    <3>2. R[j] = Q[j] /\ R[j + 1] = Q[j + 1] /\ node'[R[j]].tick = T(j) /\ node'[R[j + 1]].tick = T(j + 1)
      BY <1>7, <1>13, <3>1
    <3>3. Q[j] # tail
      BY <1>3, <1>4, <2>3, <3>1
    <3>4. node'[R[j]].next = node[Q[j]].next
      BY <1>1, <1>3, <3>1, <3>2, <3>3
    <3> HIDE DEF T, N
    <3> QED BY <2>1, <3>1, <3>2, <3>4
  <2>5. CASE j = p
    <3>1. j <= p /\ j < N + 1 /\ j \in 1..N /\ p >= 1
      BY <1>3, <2>5
    <3>2. R[j] = Q[p] /\ R[j + 1] = i /\ node'[R[j]].tick = T(p) /\ node'[R[j + 1]].tick = t
      BY <1>7, <1>13, <2>5, <3>1
    <3>3. node'[R[j]].next = IF Q[p] = tail THEN i ELSE node[Q[p]].next
      BY <1>1, <1>3, <2>5, <3>1, <3>2
    <3>4. Q[p] # NIL
      BY <1>3, <2>5, <3>1
    <3>5. CASE T(p) = t
      BY <2>3, <3>1, <3>2, <3>3, <3>5
    <3>6. CASE T(p) # t
      <4>1. Q[p] # tail
        BY <2>3, <3>4, <3>6
      <4>2. ~(p < N /\ T(p + 1) = T(p))
        <5> SUFFICES ASSUME p < N, T(p + 1) = T(p) PROVE FALSE
          OBVIOUS
        <5>1. p + 1 \in 1..N /\ p + 1 > p /\ p \in 1..N
          BY <1>3, <2>5
        <5>2. Better(s, t, T(p + 1)) /\ ~Better(s, t, T(p))
          BY <1>0, <3>1, <2>5, <5>1 DEF Place
        <5> QED BY <5>2
      <4>3. node[Q[p]].next = NIL
        BY <2>1, <2>5, <3>1, <4>2
      <4> QED BY <3>1, <3>2, <3>3, <3>6, <4>1, <4>3
    <3> QED BY <3>5, <3>6
  <2>6. CASE j = p + 1
    <3>1. R[j] = i /\ node'[R[j]].next = NIL /\ node'[R[j]].tick = t
      BY <1>1, <1>7, <2>6
    <3>2. j < N + 1 => node'[R[j + 1]].tick # t
      <4> SUFFICES ASSUME j < N + 1 PROVE node'[R[j + 1]].tick # t
        OBVIOUS
      <4>1. j + 1 \in 1..(N + 1) /\ j + 1 > p + 1 /\ (j + 1) - 1 = j /\ j \in 1..N /\ j > p
        BY <1>3, <2>6
      <4> QED BY <1>13, <2>2, <4>1
    <3> QED BY <3>1, <3>2
  <2>7. CASE j > p + 1
    <3>1. j - 1 \in 1..N /\ j - 1 > p /\ j - 1 # p /\ (p >= 1 => p \in 1..N) /\ (j < N + 1 <=> j - 1 < N) /\ (j - 1) + 1 = j
          /\ (j < N + 1 => j + 1 \in 1..(N + 1) /\ j + 1 > p + 1 /\ (j + 1) - 1 = j)
      BY <1>3, <2>7
    <3>2. /\ R[j] = Q[j - 1] /\ node'[R[j]].tick = T(j - 1)
          /\ j < N + 1 => R[j + 1] = Q[j] /\ node'[R[j + 1]].tick = T(j)
      BY <1>7, <1>13, <2>7, <3>1
    <3>3. Q[j - 1] # tail
      BY <1>3, <1>4, <2>3, <3>1
    <3>4. node'[R[j]].next = node[Q[j - 1]].next
      BY <1>1, <1>3, <3>1, <3>2, <3>3
    <3>5. node[Q[j - 1]].next = IF j - 1 < N /\ T(j) = T(j - 1) THEN Q[j] ELSE NIL
      BY <2>1, <3>1
    <3> HIDE DEF T, N
    <3> QED BY <3>1, <3>2, <3>4, <3>5
  <2> QED BY <1>3, <2>4, <2>5, <2>6, <2>7
<1> QED
  <2> HIDE DEF N
  <2>1. Len(R) = N + 1
    BY <1>6
  <2>2. Ordered(R, s, node')
    BY <2>1, <1>9, <1>11, <1>12, <1>14, <1>15 DEF Ordered
  <2> QED BY <2>2, <1>0 DEF R

\* What comes after the k-th order, as the matching walk finds it: the next
\* order of its level, then the head of the next worse level.
LEMMA OrderedNext ==
  ASSUME TypeOK, LinkIntegrity, TouchExact, NEW s \in Sides, NEW Q, Ordered(Q, s, node),
         NEW k \in 1..Len(Q)
  PROVE  LET n    == node[Q[k]]
             down == next_worse_level(s, occupied[s], n.tick)
         IN IF k < Len(Q)
            THEN IF n.next # NIL THEN n.next = Q[k + 1]
                 ELSE down # NoTick /\ down \in Ticks /\ level[s][down].head = Q[k + 1]
                      /\ down = node[Q[k + 1]].tick
            ELSE n.next = NIL /\ down = NoTick
<1> DEFINE T(m) == node[Q[m]].tick
           N == Len(Q)
<1>0. PICK down : down = next_worse_level(s, occupied[s], T(k))
  OBVIOUS
<1>1. /\ N \in Nat /\ \A m \in 1..N : T(m) \in Ticks /\ T(m) \in Nat /\ Q[m] # NIL
  BY OrderedIds
<1>2. occupied[s] \in SUBSET Ticks
  BY DEF TypeOK
<1>3. \/ down = NoTick /\ \A p \in occupied[s] : ~Better(s, T(k), p)
      \/ /\ down \in occupied[s] /\ Better(s, T(k), down)
         /\ \A p \in occupied[s] : Better(s, T(k), p) => ~Better(s, p, down)
  <2>1. T(k) \in Ticks
    BY <1>1
  <2> HIDE DEF T
  <2> QED BY <1>0, <1>2, <2>1, NextWorseLevel
<1>4. node[Q[k]].next = IF k < N /\ T(k + 1) = T(k) THEN Q[k + 1] ELSE NIL
  BY DEF Ordered
<1>5. \A j, m \in 1..N : j < m => ~Better(s, T(m), T(j))
  BY DEF Ordered
<1>6. ASSUME down # NoTick PROVE \E m \in 1..N : m > k /\ T(m) = down
  <2>1. down \in occupied[s] /\ Better(s, T(k), down)
    BY <1>3, <1>6
  <2>2. PICK m \in 1..N : T(m) = down
    BY <2>1, OrderedTicks
  <2>3. m > k
    <3> SUFFICES ASSUME ~(m > k) PROVE FALSE
      OBVIOUS
    <3>1. m = k \/ m < k
      BY <1>1
    <3>2. T(m) \in Nat /\ T(k) \in Nat
      BY <1>1
    <3>3. m < k => ~Better(s, T(k), T(m))
      BY <1>5
    <3> HIDE DEF T
    <3> QED BY <2>1, <2>2, <3>1, <3>2, <3>3 DEF Better, Sides
  <2> QED BY <2>2, <2>3
<1>7. CASE k < N /\ T(k + 1) = T(k)
  <2>1. k + 1 \in 1..N
    BY <1>1, <1>7
  <2>2. Q[k + 1] # NIL
    BY <1>1, <2>1
  <2> QED BY <1>4, <1>7, <2>2
<1>8. CASE k < N /\ T(k + 1) # T(k)
  <2>1. k + 1 \in 1..N /\ k + 1 > 1 /\ (k + 1) - 1 = k /\ k < k + 1
    BY <1>1, <1>8
  <2>2. T(k) \in Nat /\ T(k + 1) \in Nat /\ ~Better(s, T(k + 1), T(k)) /\ T(k + 1) \in occupied[s] /\ T(k + 1) \in Ticks
    BY <1>1, <1>5, <2>1, OrderedTicks
  <2>3. Better(s, T(k), T(k + 1))
    <3> HIDE DEF T
    <3> QED BY <1>8, <2>2 DEF Better, Sides
  <2>4. down # NoTick /\ ~Better(s, T(k + 1), down)
    <3>1. down # NoTick
      <4> SUFFICES ASSUME down = NoTick PROVE FALSE
        OBVIOUS
      <4>1. NoTick \notin Ticks
        BY BookAssumption DEF NoTick, Ticks
      <4>2. \A p \in occupied[s] : ~Better(s, T(k), p)
        BY <1>2, <1>3, <4>1
      <4> QED BY <2>2, <2>3, <4>2
    <3>2. down \in occupied[s] /\ \A p \in occupied[s] : Better(s, T(k), p) => ~Better(s, p, down)
      BY <1>3, <3>1
    <3> QED BY <2>2, <2>3, <3>1, <3>2
  <2>5. PICK m \in 1..N : m > k /\ T(m) = down
    BY <1>6, <2>4
  <2>6. m = k + 1 \/ k + 1 < m
    BY <1>1, <2>5
  <2>7. down = T(k + 1)
    <3>1. k + 1 < m => ~Better(s, T(m), T(k + 1))
      BY <1>5, <2>1
    <3>2. T(m) \in Nat
      BY <1>1
    <3> HIDE DEF T
    <3> QED BY <2>2, <2>4, <2>5, <2>6, <3>1, <3>2 DEF Better, Sides
  <2>8. level[s][T(k + 1)].head = Q[k + 1]
    <3>1. ~(k + 1 > 1 /\ node[Q[(k + 1) - 1]].tick = T(k + 1))
      BY <1>8, <2>1
    <3> QED BY <2>1, <3>1, OrderedEnds
  <2>9. node[Q[k]].next = NIL
    BY <1>4, <1>8
  <2> QED BY <1>0, <1>8, <2>2, <2>4, <2>7, <2>8, <2>9
<1>9. CASE ~(k < N)
  <2>1. down = NoTick
    <3> SUFFICES ASSUME down # NoTick PROVE FALSE
      OBVIOUS
    <3>1. PICK m \in 1..N : m > k /\ T(m) = down
      BY <1>6
    <3> QED BY <1>1, <1>9, <3>1
  <2>2. node[Q[k]].next = NIL
    BY <1>4, <1>9
  <2> QED BY <1>0, <1>9, <2>1, <2>2
<1> QED BY <1>7, <1>8, <1>9

\* The cached best price is the first order's, and NoTick iff there is none.
LEMMA OrderedTouch ==
  ASSUME TypeOK, LinkIntegrity, TouchExact, NEW s \in Sides, NEW Q, Ordered(Q, s, node)
  PROVE  IF Len(Q) = 0 THEN best[s] = NoTick
         ELSE /\ 1 \in 1..Len(Q) /\ best[s] = node[Q[1]].tick /\ best[s] # NoTick
              /\ level[s][best[s]].head = Q[1]
<1>1. /\ Len(Q) \in Nat
      /\ \A m \in 1..Len(Q) : node[Q[m]].tick \in Ticks /\ node[Q[m]].tick \in Nat
  BY OrderedIds
<1>2. IF best[s] = NoTick THEN occupied[s] = {}
      ELSE /\ best[s] \in occupied[s]
           /\ \A t \in occupied[s] : ~Better(s, t, best[s])
  BY DEF TouchExact
<1>5. \A t \in occupied[s] : \E k \in 1..Len(Q) : node[Q[k]].tick = t
  BY OrderedTicks
<1>3. CASE Len(Q) = 0
  <2> SUFFICES ASSUME best[s] # NoTick PROVE FALSE
    BY <1>3
  <2>1. best[s] \in occupied[s]
    BY <1>2
  <2>2. \E k \in 1..Len(Q) : node[Q[k]].tick = best[s]
    BY <1>5, <2>1
  <2> QED BY <1>3, <2>2
<1>4. CASE Len(Q) # 0
  <2>1. 1 \in 1..Len(Q)
    BY <1>1, <1>4
  <2>2. node[Q[1]].tick \in occupied[s]
    BY <2>1, OrderedTicks
  <2>3. best[s] # NoTick
    BY <1>2, <2>2
  <2>4. PICK m \in 1..Len(Q) : node[Q[m]].tick = best[s]
    BY <1>2, <1>5, <2>3
  <2>5. ~Better(s, node[Q[1]].tick, best[s])
    BY <1>2, <2>2, <2>3
  <2>6. m = 1 \/ 1 < m
    BY <1>1
  <2>7. 1 < m => ~Better(s, node[Q[m]].tick, node[Q[1]].tick)
    BY <2>1 DEF Ordered
  <2>8. best[s] = node[Q[1]].tick
    <3>1. node[Q[1]].tick \in Nat /\ node[Q[m]].tick \in Nat
      BY <1>1, <2>1
    <3> QED BY <2>4, <2>5, <2>6, <2>7, <3>1 DEF Better, Sides
  <2>9. level[s][node[Q[1]].tick].head = Q[1]
    BY <2>1, OrderedEnds
  <2> QED BY <1>4, <2>1, <2>3, <2>8, <2>9
<1> QED BY <1>3, <1>4

\* An order as a queue of PriceTimeBook shows it.
Rec(i, nd) == [id |-> i, tick |-> nd[i].tick, qty |-> nd[i].qty, owner |-> nd[i].owner,
               expiry |-> nd[i].expiry]

\* The orders of the queue from the k-th on.
From(Q, k, nd) == [j \in 1..(Len(Q) + 1 - k) |-> Rec(Q[k + j - 1], nd)]

\* One more element in front.
LEMMA ConsIs ==
  ASSUME NEW S, NEW x \in S, NEW M \in Nat, NEW b \in Seq(S), Len(b) = M
  PROVE  <<x>> \o b = [j \in 1..(1 + M) |-> IF j <= 1 THEN x ELSE b[j - 1]]
<1> DEFINE c == <<x>> \o b
<1>1. <<x>> \in Seq(S) /\ Len(<<x>>) = 1 /\ <<x>>[1] = x
  OBVIOUS
<1>2. /\ c \in Seq(S) /\ Len(c) = 1 + M
      /\ \A i \in 1..(1 + M) : c[i] = IF i <= 1 THEN <<x>>[i] ELSE b[i - 1]
  BY <1>1, ConcatProperties
<1>3. \A i \in 1..(1 + M) : i <= 1 => i = 1
  OBVIOUS
<1> HIDE DEF c
<1>4. c = [j \in 1..(1 + M) |-> c[j]]
  BY <1>2, LenProperties, Zenon
<1> SUFFICES c = [j \in 1..(1 + M) |-> IF j <= 1 THEN x ELSE b[j - 1]]
  BY DEF c
<1> QED BY <1>1, <1>2, <1>3, <1>4

\* The orders from the k-th on are the k-th and those after it.
LEMMA FromNext ==
  ASSUME NEW Q, Len(Q) \in Nat, NEW nd, NEW k \in 1..Len(Q)
  PROVE  From(Q, k, nd) = <<Rec(Q[k], nd)>> \o From(Q, k + 1, nd)
<1> DEFINE N == Len(Q)
           a == <<Rec(Q[k], nd)>>
           b == From(Q, k + 1, nd)
           R == {Rec(Q[j], nd) : j \in 1..N}
<1>1. b = [j \in 1..(N - k) |-> Rec(Q[k + j], nd)]
  <2>1. N + 1 - (k + 1) = N - k /\ \A j \in 1..(N - k) : (k + 1) + j - 1 = k + j
    OBVIOUS
  <2> QED BY <2>1 DEF From
<1>2. b \in Seq(R) /\ Len(b) = N - k
  <2>1. \A j \in 1..(N - k) : k + j \in 1..N
    OBVIOUS
  <2>2. \A j \in 1..(N - k) : Rec(Q[k + j], nd) \in R
    BY <2>1
  <2>3. N - k \in Nat
    OBVIOUS
  <2> HIDE DEF b
  <2> HIDE DEF R
  <2>4. b \in [1..(N - k) -> R]
    BY <1>1, <2>2
  <2> QED BY <2>3, <2>4
<1>3. a \in Seq(R) /\ Len(a) = 1 /\ a[1] = Rec(Q[k], nd)
  OBVIOUS
<1>4. a \o b = [j \in 1..(1 + (N - k)) |-> IF j <= 1 THEN Rec(Q[k], nd) ELSE b[j - 1]]
  <2>1. Rec(Q[k], nd) \in R /\ N - k \in Nat
    OBVIOUS
  <2> HIDE DEF b, R, N
  <2> QED BY <1>2, <2>1, ConsIs
<1>5. From(Q, k, nd) = [j \in 1..(1 + (N - k)) |-> Rec(Q[k + j - 1], nd)]
  <2>1. N + 1 - k = 1 + (N - k)
    OBVIOUS
  <2> QED BY <2>1 DEF From
<1>6. \A j \in 1..(1 + (N - k)) : (IF j <= 1 THEN Rec(Q[k], nd) ELSE b[j - 1]) = Rec(Q[k + j - 1], nd)
  <2> TAKE j \in 1..(1 + (N - k))
  <2>1. CASE j <= 1
    <3>1. j = 1 /\ k + j - 1 = k
      BY <2>1
    <3> QED BY <1>3, <3>1
  <2>2. CASE ~(j <= 1)
    <3>1. j - 1 \in 1..(N - k) /\ k + (j - 1) = k + j - 1
      BY <2>2
    <3> HIDE DEF b, N
    <3> QED BY <1>1, <2>2, <3>1
  <2> QED BY <2>1, <2>2
<1> HIDE DEF a, b, N
<1>7. a \o b = From(Q, k, nd)
  BY <1>4, <1>5, <1>6
<1> QED BY <1>7 DEF a, b

\* One step of the walk of QueueOf, from order i on.
WalkStep(w, s, i) ==
  LET n    == node[i]
      down == next_worse_level(s, occupied[s], n.tick)
      rec  == [id |-> i, tick |-> n.tick, qty |-> n.qty, owner |-> n.owner,
               expiry |-> n.expiry]
  IN <<rec>> \o (IF n.next # NIL THEN w[n.next]
                 ELSE IF down # NoTick THEN w[level[s][down].head]
                 ELSE <<>>)

WalkOf(w, s) == w = [i \in {j \in live : node[j].side = s} |-> WalkStep(w, s, i)]

LEMMA WalkStepIs ==
  ASSUME TypeOK, LinkIntegrity, TouchExact, NEW s \in Sides, NEW Q, Ordered(Q, s, node),
         NEW k \in 1..Len(Q), NEW w, k < Len(Q) => w[Q[k + 1]] = From(Q, k + 1, node)
  PROVE  WalkStep(w, s, Q[k]) = From(Q, k, node)
<1>0. PICK down, a, N : /\ down = next_worse_level(s, occupied[s], node[Q[k]].tick)
                        /\ a = <<Rec(Q[k], node)>> /\ N = Len(Q)
  OBVIOUS
<1>1. N \in Nat
  BY <1>0, OrderedIds
<1>2. WalkStep(w, s, Q[k]) = a \o (IF node[Q[k]].next # NIL THEN w[node[Q[k]].next]
                                   ELSE IF down # NoTick THEN w[level[s][down].head] ELSE <<>>)
  BY <1>0, Zenon DEF WalkStep, Rec
<1>3. From(Q, k, node) = a \o From(Q, k + 1, node)
  BY <1>0, <1>1, FromNext
<1>4. CASE k < N
  <2>1. IF node[Q[k]].next # NIL THEN node[Q[k]].next = Q[k + 1]
        ELSE down # NoTick /\ level[s][down].head = Q[k + 1]
    BY <1>0, <1>4, OrderedNext
  <2> QED BY <1>0, <1>2, <1>3, <1>4, <2>1
<1>5. CASE ~(k < N)
  <2>1. node[Q[k]].next = NIL /\ down = NoTick
    BY <1>0, <1>5, OrderedNext
  <2>2. From(Q, k + 1, node) = <<>>
    <3>1. Len(Q) + 1 - (k + 1) = 0
      BY <1>0, <1>1, <1>5
    <3> QED BY <3>1 DEF From
  <2> QED BY <1>2, <1>3, <2>1, <2>2
<1> QED BY <1>4, <1>5

\* A side read off the arena is its queue: the walk reaches each of its orders.
LEMMA QueueRead ==
  ASSUME TypeOK, LinkIntegrity, TouchExact, NEW s \in Sides, NEW Q, Ordered(Q, s, node)
  PROVE  QueueOf(s) = From(Q, 1, node)
<1> DEFINE N == Len(Q)
           D == {j \in live : node[j].side = s}
           pos(i) == CHOOSE k \in 1..N : Q[k] = i
           f == [i \in D |-> From(Q, pos(i), node)]
           walk == CHOOSE w : WalkOf(w, s)
<1>1. N \in Nat /\ \A k \in 1..N : Q[k] \in D
  BY OrderedIds
<1>2. \A k \in 1..N : pos(Q[k]) = k
  BY DEF Ordered
<1>3. \A i \in D : \E k \in 1..N : Q[k] = i
  BY DEF Ordered, live
<1>4. \A k \in 1..N : f[Q[k]] = From(Q, k, node)
  <2> HIDE DEF pos, D, N
  <2> QED BY <1>1, <1>2
<1>5. WalkOf(f, s)
  <2>1. \A k \in 1..N : WalkStep(f, s, Q[k]) = From(Q, k, node)
    <3> TAKE k \in 1..N
    <3>1. k < N => k + 1 \in 1..N
      BY <1>1
    <3>2. k < N => f[Q[k + 1]] = From(Q, k + 1, node)
      <4> HIDE DEF f
      <4> QED BY <1>4, <3>1
    <3> HIDE DEF f
    <3> QED BY <3>2, WalkStepIs
  <2>2. \A i \in D : f[i] = WalkStep(f, s, i)
    <3> HIDE DEF f, D
    <3> QED BY <1>3, <1>4, <2>1
  <2>3. f = [i \in D |-> f[i]]
    OBVIOUS
  <2> HIDE DEF f
  <2>4. f = [i \in D |-> WalkStep(f, s, i)]
    <3> HIDE DEF D
    <3> QED BY <2>2, <2>3
  <2> QED BY <2>4 DEF WalkOf
<1>6. WalkOf(walk, s)
  <2> HIDE DEF f
  <2> QED BY <1>5, Zenon
<1> HIDE DEF f, pos
<1>7. \A i \in D : walk[i] = WalkStep(walk, s, i)
  <2> HIDE DEF walk
  <2> QED BY <1>6 DEF WalkOf
<1>8. QueueOf(s) = IF best[s] = NoTick THEN <<>> ELSE walk[level[s][best[s]].head]
  BY Zenon DEF QueueOf, WalkOf, WalkStep
<1> HIDE DEF walk, D
<1> DEFINE G == {n \in Nat : n < N => walk[Q[N - n]] = From(Q, N - n, node)}
<1>9. 0 \in G
  <2> SUFFICES ASSUME 0 < N PROVE walk[Q[N - 0]] = From(Q, N - 0, node)
    OBVIOUS
  <2>1. N - 0 = N /\ N \in 1..N /\ ~(N < N)
    BY <1>1
  <2>2. WalkStep(walk, s, Q[N]) = From(Q, N, node)
    BY <2>1, WalkStepIs
  <2> HIDE DEF N
  <2> QED BY <1>1, <1>7, <2>1, <2>2
<1>10. ASSUME NEW n \in Nat, n \in G
       PROVE  n + 1 \in G
  <2>1. n + 1 \in Nat
    OBVIOUS
  <2> SUFFICES ASSUME n + 1 < N
               PROVE  walk[Q[N - (n + 1)]] = From(Q, N - (n + 1), node)
    BY <2>1, Zenon
  <2>2. PICK k : k = N - (n + 1)
    OBVIOUS
  <2>3. k \in 1..N /\ k + 1 = N - n /\ n < N
    BY <1>1, <2>2
  <2>4. walk[Q[k + 1]] = From(Q, k + 1, node)
    <3>1. walk[Q[N - n]] = From(Q, N - n, node)
      BY <1>10, <2>3, Zenon
    <3> HIDE DEF N, G
    <3> QED BY <2>3, <3>1
  <2> HIDE DEF G
  <2>5. WalkStep(walk, s, Q[k]) = From(Q, k, node)
    BY <2>3, <2>4, WalkStepIs
  <2> HIDE DEF N
  <2> QED BY <1>1, <1>7, <2>2, <2>3, <2>5
<1>11. Nat \subseteq G
  <2> HIDE DEF G
  <2> QED BY <1>9, <1>10, Induction
<1>12. CASE N = 0
  <2>1. best[s] = NoTick
    BY <1>12, OrderedTouch
  <2>2. From(Q, 1, node) = <<>>
    <3>1. Len(Q) + 1 - 1 = 0
      BY <1>12
    <3> QED BY <3>1 DEF From
  <2> QED BY <1>8, <2>1, <2>2
<1>13. CASE N # 0
  <2>1. best[s] # NoTick /\ level[s][best[s]].head = Q[1]
    BY <1>13, OrderedTouch
  <2>2. N - 1 \in G /\ N - 1 < N /\ N - (N - 1) = 1
    BY <1>1, <1>11, <1>13
  <2>3. walk[Q[1]] = From(Q, 1, node)
    <3>1. walk[Q[N - (N - 1)]] = From(Q, N - (N - 1), node)
      BY <2>2
    <3> HIDE DEF N, G
    <3> QED BY <2>2, <3>1
  <2> QED BY <1>8, <2>1, <2>3
<1> QED BY <1>12, <1>13

\* The orders of a level, the quantities of an arena, and what the levels say
\* they add up to.
At(s, t, nd) == {i \in DOMAIN nd : nd[i].side = s /\ nd[i].tick = t}
Qtys(nd) == [i \in DOMAIN nd |-> nd[i].qty]

Queued == \A s \in Sides : \E Q : Ordered(Q, s, node)
LevelSums == \A s \in Sides, t \in Ticks : level[s][t].qty = SumFunctionOnSet(Qtys(node), At(s, t, node))

QInv == IInv /\ Queued /\ LevelSums

LEMMA AtFinite ==
  ASSUME TypeOK, NEW s, NEW t
  PROVE  /\ IsFiniteSet(At(s, t, node)) /\ At(s, t, node) \subseteq live
         /\ \A i \in At(s, t, node) : Qtys(node)[i] = node[i].qty /\ Qtys(node)[i] \in Int
         /\ SumFunctionOnSet(Qtys(node), At(s, t, node)) \in Int
<1>1. At(s, t, node) \subseteq live /\ live \subseteq 0..(MaxSlots - 1)
  BY DEF TypeOK, Slots, At, live
<1>2. IsFiniteSet(0..(MaxSlots - 1))
  BY BookAssumption, FS_Interval
<1>3. IsFiniteSet(At(s, t, node))
  BY <1>1, <1>2, FS_Subset
<1>4. \A i \in live : node[i].qty \in Int
  BY NodeFields
<1>5. \A i \in At(s, t, node) : Qtys(node)[i] = node[i].qty /\ Qtys(node)[i] \in Int
  BY <1>1, <1>4 DEF Qtys, live
<1>6. SumFunctionOnSet(Qtys(node), At(s, t, node)) \in Int
  BY <1>3, <1>5, SumInt
<1> QED BY <1>1, <1>3, <1>5, <1>6

\* A level keeps its sum when its orders and their quantities stay.
LEMMA SumKept ==
  ASSUME TypeOK, NEW s, NEW t, NEW nd, At(s, t, nd) = At(s, t, node),
         \A i \in At(s, t, node) : nd[i].qty = node[i].qty
  PROVE  SumFunctionOnSet(Qtys(nd), At(s, t, nd)) = SumFunctionOnSet(Qtys(node), At(s, t, node))
<1>1. \A i \in At(s, t, node) : Qtys(nd)[i] = Qtys(node)[i]
  BY AtFinite DEF Qtys, At
<1>2. IsFiniteSet(At(s, t, node)) /\ \A i \in At(s, t, node) : Qtys(node)[i] \in Int
  BY AtFinite
<1> QED BY <1>1, <1>2, SumSame

LEMMA UnlinkLists ==
  ASSUME QInv, NEW i \in live, unlink(i)
  PROVE  Queued' /\ LevelSums'
<1> USE DEF QInv, IInv
<1>0. PICK s0, t0, q : s0 = node[i].side /\ t0 = node[i].tick /\ q = node[i].qty
  OBVIOUS
<1>1. /\ live' = live \ {i}
      /\ \A j \in live' :
           /\ node'[j].side = node[j].side /\ node'[j].tick = node[j].tick
           /\ node'[j].next = IF j = node[i].prev THEN node[i].next ELSE node[j].next
           /\ node'[j].qty = node[j].qty
  BY UnlinkNodes
<1>2. s0 \in Sides /\ t0 \in Ticks /\ q \in Nat
  BY <1>0, NodeFields
<1>3. ASSUME NEW s \in Sides PROVE \E R : Ordered(R, s, node')
  <2>1. PICK Q : Ordered(Q, s, node)
    BY DEF Queued
  <2>2. CASE s = s0
    <3>1. PICK k \in 1..Len(Q) : Q[k] = i
      BY <1>0, <2>1, <2>2 DEF Ordered, live
    <3>2. Ordered(Without(Q, k), s, node')
      BY <1>0, <2>1, <2>2, <3>1, UnlinkQueue
    <3> QED BY <3>2
  <2>3. CASE s # s0
    <3>1. {j \in DOMAIN node' : node'[j].side = s} = {j \in DOMAIN node : node[j].side = s}
      BY <1>0, <1>1, <2>3 DEF live
    <3>2. \A j \in {m \in DOMAIN node : node[m].side = s} :
             node'[j].tick = node[j].tick /\ node'[j].next = node[j].next
      <4> SUFFICES ASSUME NEW j \in live, node[j].side = s
                   PROVE  node'[j].tick = node[j].tick /\ node'[j].next = node[j].next
        BY DEF live
      <4>1. j \in live' /\ j # NIL
        BY <1>0, <1>1, <2>3, NodeFields
      <4>2. NodeLinked(i)
        BY DEF LinkIntegrity
      <4>3. j # node[i].prev
        BY <1>0, <2>3, <4>1, <4>2 DEF NodeLinked
      <4> QED BY <1>1, <4>1, <4>3
    <3>3. Ordered(Q, s, node')
      BY <2>1, <3>1, <3>2, OrderedSame
    <3> QED BY <3>3
  <2> QED BY <2>2, <2>3
<1>4. ASSUME NEW s \in Sides, NEW t \in Ticks
      PROVE  level'[s][t].qty = SumFunctionOnSet(Qtys(node'), At(s, t, node'))
  <2>1. level[s][t].qty = SumFunctionOnSet(Qtys(node), At(s, t, node))
    BY DEF LevelSums
  <2>2. CASE s # s0 \/ t # t0
    <3>1. level'[s][t] = level[s][t]
      BY <1>0, <2>2, UnlinkLevels
    <3>2. At(s, t, node') = At(s, t, node)
      BY <1>0, <1>1, <2>2 DEF At, live
    <3>3. \A j \in At(s, t, node) : node'[j].qty = node[j].qty
      BY <1>1, <3>2 DEF At, live
    <3> QED BY <2>1, <3>1, <3>2, <3>3, SumKept
  <2>3. CASE s = s0 /\ t = t0
    <3> DEFINE S == At(s, t, node)
    <3>1. level'[s][t].qty = level[s][t].qty - q
      <4> DEFINE l == level[s0][t0]
                 h == IF node[i].prev = NIL THEN node[i].next ELSE l.head
                 w == IF node[i].next = NIL THEN node[i].prev ELSE l.tail
                 m == [head |-> h, tail |-> w, qty |-> l.qty - q]
      <4>1. level' = [level EXCEPT ![s0][t0] = m]
        BY <1>0, Zenon DEF unlink
      <4>2. m.qty = l.qty - q
        OBVIOUS
      <4>3. level \in [Sides -> [Ticks -> Level]]
        BY DEF TypeOK
      <4> HIDE DEF m
      <4>4. level'[s0][t0] = m
        BY <1>2, <4>1, <4>3
      <4> QED BY <2>3, <4>2, <4>4
    <3>2. At(s, t, node') = S \ {i} /\ i \in S
      BY <1>0, <1>1, <2>3 DEF At, live
    <3>3. \A j \in S \ {i} : Qtys(node')[j] = Qtys(node)[j]
      BY <1>1, <3>2 DEF At, live, Qtys
    <3>4. /\ IsFiniteSet(S) /\ IsFiniteSet(S \ {i}) /\ Qtys(node)[i] = q
          /\ \A j \in S : Qtys(node)[j] \in Int
      BY <1>0, <3>2, AtFinite, FS_RemoveElement
    <3> HIDE DEF S
    <3>5. SumFunctionOnSet(Qtys(node), S) = q + SumFunctionOnSet(Qtys(node), S \ {i})
      BY <3>2, <3>4, SumRemove
    <3>6. SumFunctionOnSet(Qtys(node'), S \ {i}) = SumFunctionOnSet(Qtys(node), S \ {i})
      BY <3>3, <3>4, SumSame
    <3>7. SumFunctionOnSet(Qtys(node), S \ {i}) \in Int
      BY <3>4, SumInt
    <3> QED BY <1>2, <2>1, <3>1, <3>2, <3>5, <3>6, <3>7 DEF S
  <2> QED BY <2>2, <2>3
<1> QED BY <1>3, <1>4 DEF Queued, LevelSums

LEMMA RestLists ==
  ASSUME QInv, free # <<>> \/ top < MaxSlots, NEW n \in Node, n.next = NIL, rest(n)
  PROVE  Queued' /\ LevelSums'
<1> USE DEF QInv, IInv
<1>0. PICK i, s0, t0, q : i = alloc /\ s0 = n.side /\ t0 = n.tick /\ q = n.qty
  OBVIOUS
<1>1. /\ live' = live \cup {i} /\ i \notin live
      /\ \A j \in live :
           /\ node'[j].side = node[j].side /\ node'[j].tick = node[j].tick
           /\ node'[j].next = IF j = level[s0][t0].tail THEN i ELSE node[j].next
           /\ node'[j].qty = node[j].qty
      /\ node'[i].side = s0 /\ node'[i].tick = t0 /\ node'[i].qty = q
  BY <1>0, RestNodes, RestFree
<1>2. s0 \in Sides /\ t0 \in Ticks /\ q \in Nat
  BY <1>0 DEF Node
<1>3. ASSUME NEW s \in Sides PROVE \E R : Ordered(R, s, node')
  <2>1. PICK Q : Ordered(Q, s, node)
    BY DEF Queued
  <2>2. CASE s = s0
    <3>1. PICK p : Place(Q, s, t0, node, p)
      BY <1>2, <2>1, PlaceExists
    <3>2. Ordered(With(Q, p, alloc), s, node')
      BY <1>0, <2>1, <2>2, <3>1, RestQueue
    <3> QED BY <3>2
  <2>3. CASE s # s0
    <3>1. {j \in DOMAIN node' : node'[j].side = s} = {j \in DOMAIN node : node[j].side = s}
      BY <1>1, <2>3 DEF live
    <3>2. \A j \in {m \in DOMAIN node : node[m].side = s} :
             node'[j].tick = node[j].tick /\ node'[j].next = node[j].next
      <4> SUFFICES ASSUME NEW j \in live, node[j].side = s
                   PROVE  node'[j].tick = node[j].tick /\ node'[j].next = node[j].next
        BY DEF live
      <4>1. j # NIL
        BY NodeFields
      <4>2. LevelLinked(s0, t0)
        BY <1>2 DEF LinkIntegrity
      <4>3. j # level[s0][t0].tail
        BY <2>3, <4>1, <4>2 DEF LevelLinked
      <4> QED BY <1>1, <4>3
    <3>3. Ordered(Q, s, node')
      BY <2>1, <3>1, <3>2, OrderedSame
    <3> QED BY <3>3
  <2> QED BY <2>2, <2>3
<1>4. ASSUME NEW s \in Sides, NEW t \in Ticks
      PROVE  level'[s][t].qty = SumFunctionOnSet(Qtys(node'), At(s, t, node'))
  <2>1. level[s][t].qty = SumFunctionOnSet(Qtys(node), At(s, t, node))
    BY DEF LevelSums
  <2>2. CASE s # s0 \/ t # t0
    <3>1. level'[s][t] = level[s][t]
      BY <1>0, <2>2, RestLevels
    <3>2. At(s, t, node') = At(s, t, node)
      BY <1>1, <2>2 DEF At, live
    <3>3. \A j \in At(s, t, node) : node'[j].qty = node[j].qty
      BY <1>1 DEF At, live
    <3> QED BY <2>1, <3>1, <3>2, <3>3, SumKept
  <2>3. CASE s = s0 /\ t = t0
    <3> DEFINE S == At(s, t, node)
    <3>1. level'[s][t].qty = level[s][t].qty + q
      <4> DEFINE l == level[s0][t0]
                 m == [head |-> IF l.tail = NIL THEN i ELSE l.head, tail |-> i, qty |-> l.qty + q]
      <4>1. level' = [level EXCEPT ![s0][t0] = m]
        BY <1>0, Zenon DEF rest, alloc
      <4>2. m.qty = l.qty + q
        OBVIOUS
      <4>3. level \in [Sides -> [Ticks -> Level]]
        BY DEF TypeOK
      <4> HIDE DEF m
      <4>4. level'[s0][t0] = m
        BY <1>2, <4>1, <4>3
      <4> QED BY <2>3, <4>2, <4>4
    <3>2. At(s, t, node') = S \cup {i} /\ i \notin S
      BY <1>1, <2>3 DEF At, live
    <3>3. (\A j \in S : Qtys(node')[j] = Qtys(node)[j]) /\ Qtys(node')[i] = q
      BY <1>1, <3>2 DEF At, live, Qtys
    <3>4. /\ IsFiniteSet(S)
          /\ \A j \in S : Qtys(node)[j] \in Int
      BY AtFinite
    <3> HIDE DEF S
    <3>5. Qtys(node')[i] \in Int
      BY <1>2, <3>3
    <3>6. SumFunctionOnSet(Qtys(node'), S \cup {i}) = SumFunctionOnSet(Qtys(node), S) + Qtys(node')[i]
      BY <3>2, <3>3, <3>4, <3>5, SumAdd
    <3> QED BY <2>1, <3>1, <3>2, <3>3, <3>6 DEF S
  <2> QED BY <2>2, <2>3
<1> QED BY <1>3, <1>4 DEF Queued, LevelSums

LEMMA PartFillLists ==
  ASSUME QInv, PartFillHead
  PROVE  Queued' /\ LevelSums'
<1> USE DEF QInv, IInv
<1>0. PICK i, s0, t0, q : i = Front /\ s0 = Opp /\ t0 = Touch /\ q = req.qty
  OBVIOUS
<1>1. req.phase \in Phases /\ Touch # NoTick
  BY DEF PartFillHead, Matching, Phases
<1>2. /\ i \in live /\ node[i].side = s0 /\ node[i].tick = t0
      /\ s0 \in Sides /\ t0 \in Ticks /\ q \in Nat
  <2>1. i \in live /\ node[i].side = s0 /\ node[i].tick = t0
    BY <1>0, <1>1, FrontLive
  <2> QED BY <2>1, <1>0, <1>1, CallFields DEF TypeOK, Node
<1>3. /\ node' = [node EXCEPT ![i].qty = @ - q]
      /\ level' = [level EXCEPT ![s0][t0].qty = @ - q]
  BY <1>0, Zenon DEF PartFillHead
<1>4. /\ node \in [live -> Node] /\ level \in [Sides -> [Ticks -> Level]]
      /\ \A j \in live : node[j] \in Node
      /\ \A s \in Sides, t \in Ticks : level[s][t] \in Level
  BY DEF TypeOK
<1>5. /\ DOMAIN node' = live
      /\ \A j \in live : /\ node'[j].side = node[j].side /\ node'[j].tick = node[j].tick
                         /\ node'[j].next = node[j].next
                         /\ j # i => node'[j].qty = node[j].qty
      /\ node'[i].qty = node[i].qty - q
  <2> DEFINE m == [node[i] EXCEPT !.qty = @ - q]
  <2>1. node' = [node EXCEPT ![i] = m]
    BY <1>3
  <2>2. /\ m.side = node[i].side /\ m.tick = node[i].tick /\ m.next = node[i].next
        /\ m.qty = node[i].qty - q
    BY <1>2, <1>4 DEF Node
  <2> HIDE DEF m
  <2> QED BY <2>1, <2>2, <1>2, <1>4
<1>6. \A s \in Sides, t \in Ticks :
         level'[s][t].qty = IF s = s0 /\ t = t0 THEN level[s][t].qty - q ELSE level[s][t].qty
  <2> DEFINE m == [level[s0][t0] EXCEPT !.qty = @ - q]
  <2>1. level' = [level EXCEPT ![s0][t0] = m]
    BY <1>3
  <2>2. m.qty = level[s0][t0].qty - q
    BY <1>2, <1>4 DEF Level
  <2> HIDE DEF m
  <2> QED BY <2>1, <2>2, <1>2, <1>4
<1>7. ASSUME NEW s \in Sides PROVE \E R : Ordered(R, s, node')
  <2>1. PICK Q : Ordered(Q, s, node)
    BY DEF Queued
  <2>2. {j \in DOMAIN node' : node'[j].side = s} = {j \in DOMAIN node : node[j].side = s}
    BY <1>5 DEF live
  <2>3. \A j \in {m \in DOMAIN node : node[m].side = s} :
           node'[j].tick = node[j].tick /\ node'[j].next = node[j].next
    BY <1>5 DEF live
  <2> QED BY <2>1, <2>2, <2>3, OrderedSame
<1>8. ASSUME NEW s \in Sides, NEW t \in Ticks
      PROVE  level'[s][t].qty = SumFunctionOnSet(Qtys(node'), At(s, t, node'))
  <2>1. level[s][t].qty = SumFunctionOnSet(Qtys(node), At(s, t, node))
    BY DEF LevelSums
  <2>2. At(s, t, node') = At(s, t, node)
    BY <1>5 DEF At, live
  <2>3. CASE s # s0 \/ t # t0
    <3>1. \A j \in At(s, t, node) : node'[j].qty = node[j].qty
      BY <1>2, <1>5, <2>3 DEF At, live
    <3>2. level'[s][t].qty = level[s][t].qty
      BY <1>6, <2>3
    <3> QED BY <2>1, <2>2, <3>1, <3>2, SumKept
  <2>4. CASE s = s0 /\ t = t0
    <3> DEFINE S == At(s, t, node)
    <3>1. i \in S
      BY <1>2, <2>4 DEF At, live
    <3>2. /\ \A j \in S \ {i} : Qtys(node')[j] = Qtys(node)[j]
          /\ Qtys(node')[i] = node[i].qty - q /\ Qtys(node)[i] = node[i].qty
      BY <1>2, <1>5 DEF At, live, Qtys
    <3>3. IsFiniteSet(S) /\ (\A j \in S : Qtys(node)[j] \in Int) /\ SumFunctionOnSet(Qtys(node), S) \in Int
      BY AtFinite
    <3>4. node[i].qty \in Int /\ q \in Int
      BY <1>2, NodeFields
    <3> HIDE DEF S
    <3>5. Qtys(node')[i] \in Int
      BY <3>2, <3>4
    <3>6. SumFunctionOnSet(Qtys(node'), S) = SumFunctionOnSet(Qtys(node), S) + Qtys(node')[i] - Qtys(node)[i]
      BY <3>1, <3>2, <3>3, <3>5, SumChange
    <3>7. level'[s][t].qty = SumFunctionOnSet(Qtys(node), S) - q
      BY <1>6, <2>1, <2>4 DEF S
    <3> QED
      <4>1. SumFunctionOnSet(Qtys(node'), S) = SumFunctionOnSet(Qtys(node), S) - q
        BY <3>2, <3>3, <3>4, <3>6
      <4> QED BY <2>2, <3>7, <4>1 DEF S
  <2> QED BY <2>3, <2>4
<1> QED BY <1>7, <1>8 DEF Queued, LevelSums

LEMMA InitLists == Init => Queued /\ LevelSums
<1> SUFFICES ASSUME Init PROVE Queued /\ LevelSums
  OBVIOUS
<1>1. node = <<>> /\ DOMAIN node = {} /\ level = [s \in Sides |-> [t \in Ticks |-> EmptyLevel]]
  BY DEF Init
<1>2. Queued
  <2>1. \A s \in Sides : Ordered(<<>>, s, node)
    BY <1>1 DEF Ordered
  <2> QED BY <2>1 DEF Queued
<1>3. LevelSums
  <2> SUFFICES ASSUME NEW s \in Sides, NEW t \in Ticks
               PROVE  level[s][t].qty = SumFunctionOnSet(Qtys(node), At(s, t, node))
    BY DEF LevelSums
  <2>1. level[s][t].qty = 0
    BY <1>1 DEF EmptyLevel
  <2>2. At(s, t, node) = {}
    BY <1>1 DEF At
  <2> QED BY <2>1, <2>2, SumEmpty
<1> QED BY <1>2, <1>3

\* Every step keeps the queues and the sums of the levels.
LEMMA ListsKept ==
  ASSUME QInv, [Next]_vars
  PROVE  QInv'
<1>1. IInv'
  BY InvariantKept DEF QInv
<1>2. TypeOK
  BY DEF QInv, IInv
<1>3. Queued' /\ LevelSums'
  <2>1. CASE UNCHANGED <<node, level>>
    BY <2>1 DEF QInv, Queued, LevelSums
  <2>2. CASE \E i \in live : unlink(i)
    BY <2>2, UnlinkLists
  <2>3. CASE PartFillHead
    BY <2>3, PartFillLists
  <2>4. CASE Rest
    <3>0. PICK n : n = [tick |-> req.order.tick, qty |-> req.qty, side |-> req.order.side,
                        owner |-> req.order.owner, expiry |-> req.order.expiry,
                        prev |-> NIL, next |-> NIL]
      OBVIOUS
    <3>1. rest(n) /\ req.phase = "match" /\ req.phase \in Phases
      BY <2>4, <3>0, Zenon DEF Rest, Phases
    <3>2. n \in Node /\ n.next = NIL
      <4>1. /\ req.qty \in Nat /\ req.order.side \in Sides /\ req.order.tick \in Ticks
            /\ req.order.owner \in Owners /\ req.order.expiry \in Expiries \cup {Never}
        BY <1>2, <3>1, CallFields
      <4> QED BY <3>0, <4>1 DEF Node
    <3>3. free # <<>> \/ top < MaxSlots
      BY <3>1 DEF QInv, IInv, SlotReserved
    <3> QED BY <3>1, <3>2, <3>3, RestLists
  <2>5. CASE \E o \in NewOrder : Submit(o)
    BY <2>1, <2>5 DEF Submit, bookVars
  <2>6. CASE PostOnlyGuard \/ FillOrKillGuard \/ Finish \/ Return
    BY <2>1, <2>6 DEF PostOnlyGuard, FillOrKillGuard, Finish, Return, bookVars
  <2>7. CASE PruneExpiredHead \/ DropHead \/ FillHead
    <3>1. unlink(Front) /\ req.phase \in Phases /\ Touch # NoTick
      BY <2>7 DEF PruneExpiredHead, DropHead, FillHead, Matching, Phases
    <3>2. Front \in live
      BY <3>1, FrontLive DEF QInv
    <3> QED BY <2>2, <3>1, <3>2
  <2>8. CASE \E i \in Slots : Cancel(i)
    BY <2>2, <2>8 DEF Cancel, live
  <2>9. CASE UNCHANGED vars
    BY <2>1, <2>9 DEF vars
  <2> QED BY <2>3, <2>4, <2>5, <2>6, <2>7, <2>8, <2>9 DEF Next, Step
<1> QED BY <1>1, <1>3 DEF QInv

\* The queues and the sums make the property.
LEMMA NoneStranded == QInv => NoOrderStranded
<1> SUFFICES ASSUME QInv, NEW s \in Sides
             PROVE  LET q == QueueOf(s) IN
                    /\ {q[k].id : k \in 1..Len(q)} = {i \in live : node[i].side = s}
                    /\ \A j, k \in 1..Len(q) : q[j].id = q[k].id => j = k
                    /\ \A t \in Ticks :
                         level[s][t].qty = SumFunctionOnSet([i \in live |-> node[i].qty],
                                                {i \in live : node[i].side = s /\ node[i].tick = t})
  BY DEF NoOrderStranded
<1>1. TypeOK /\ LinkIntegrity /\ TouchExact
  BY DEF QInv, IInv
<1>2. PICK Q : Ordered(Q, s, node)
  BY DEF QInv, Queued
<1>3. PICK q, N : q = QueueOf(s) /\ N = Len(Q)
  OBVIOUS
<1>4. N \in Nat /\ \A k \in 1..N : Q[k] \in live /\ node[Q[k]].side = s
  BY <1>1, <1>2, <1>3, OrderedIds
<1>5. q = From(Q, 1, node)
  BY <1>1, <1>2, <1>3, QueueRead
<1>6. Len(q) = N /\ \A k \in 1..N : q[k].id = Q[k]
  <2>1. N + 1 - 1 = N /\ \A k \in 1..N : 1 + k - 1 = k
    BY <1>4
  <2>2. q = [k \in 1..N |-> Rec(Q[k], node)]
    BY <1>3, <1>5, <2>1 DEF From
  <2>3. Len(q) = N
    BY <1>4, <2>2
  <2> QED BY <2>2, <2>3 DEF Rec
<1>7. \A i \in live : node[i].side = s => \E k \in 1..N : Q[k] = i
  BY <1>2, <1>3 DEF Ordered, live
<1>8. \A j, k \in 1..N : Q[j] = Q[k] => j = k
  BY <1>2, <1>3 DEF Ordered
<1>9. {q[k].id : k \in 1..Len(q)} = {i \in live : node[i].side = s}
  BY <1>4, <1>6, <1>7
<1>10. \A j, k \in 1..Len(q) : q[j].id = q[k].id => j = k
  BY <1>6, <1>8
<1>11. \A t \in Ticks :
          level[s][t].qty = SumFunctionOnSet([i \in live |-> node[i].qty],
                                {i \in live : node[i].side = s /\ node[i].tick = t})
  BY Zenon DEF QInv, LevelSums, Qtys, At, live
<1> QED BY <1>3, <1>9, <1>10, <1>11

\* No sequence of submits, fills, expiries and cancels strands an order.
THEOREM NothingStranded == MCSpec => []NoOrderStranded
<1>1. MCInit => QInv
  BY InitInv, InitLists DEF MCInit, QInv
<1>2. QInv /\ [MCNext]_<<vars, snap>> => QInv'
  <2> SUFFICES ASSUME QInv, [MCNext]_<<vars, snap>> PROVE QInv'
    OBVIOUS
  <2>1. [Next]_vars
    BY DEF MCNext
  <2> QED BY <2>1, ListsKept
<1>3. MCSpec => []QInv
  BY <1>1, <1>2, PTL DEF MCSpec
<1> QED BY <1>3, NoneStranded, PTL

-----------------------------------------------------------------------------
(* The queues as lists of resting orders, and what each change of the book *)
(* does to them.                                                           *)

Resting == [id : Slots, tick : Ticks, qty : Nat \ {0}, owner : Owners, expiry : Expiries \cup {Never}]

\* The orders of a queue as PriceTimeBook shows them.
ListOf(Q, nd) == [j \in 1..Len(Q) |-> Rec(Q[j], nd)]

Reads == \A s \in Sides : \A Q : Ordered(Q, s, node) => QueueOf(s) = ListOf(Q, node)

\* Every resting order has a quantity.
Positive == \A i \in live : node[i].qty > 0

\* The walk returns the list of the queue.
LEMMA ReadsNow == QInv => Reads
<1> SUFFICES ASSUME QInv, NEW s \in Sides, NEW Q, Ordered(Q, s, node)
             PROVE  QueueOf(s) = ListOf(Q, node)
  BY DEF Reads
<1>1. TypeOK /\ LinkIntegrity /\ TouchExact
  BY DEF QInv, IInv
<1>2. Len(Q) \in Nat
  BY <1>1, OrderedIds
<1>3. QueueOf(s) = From(Q, 1, node)
  BY <1>1, QueueRead
<1>4. Len(Q) + 1 - 1 = Len(Q) /\ \A j \in 1..Len(Q) : 1 + j - 1 = j
  BY <1>2
<1> QED BY <1>3, <1>4 DEF From, ListOf

\* It does so before and after a step.
LEMMA ReadsNext ==
  ASSUME QInv, QInv'
  PROVE  Reads /\ Reads'
<1>1. (QInv => Reads)'
  BY ReadsNow, PTL
<1> QED BY <1>1, ReadsNow

\* A side as a list: who is in it, in which order, and where its touch is.
LEMMA ListFacts ==
  ASSUME QInv, Positive, NEW s \in Sides, NEW C, C = QueueOf(s)
  PROVE  /\ C \in Seq(Resting) /\ Len(C) \in Nat
         /\ \A k \in 1..Len(C) : /\ C[k] \in Resting /\ C[k].id \in live /\ node[C[k].id].side = s
                                 /\ C[k] = Rec(C[k].id, node)
         /\ \A j, k \in 1..Len(C) : C[j].id = C[k].id => j = k
         /\ \A i \in live : node[i].side = s => \E k \in 1..Len(C) : C[k].id = i
         /\ \A j, k \in 1..Len(C) : j < k => ~Better(s, C[k].tick, C[j].tick)
         /\ IF Len(C) = 0 THEN best[s] = NoTick
            ELSE best[s] # NoTick /\ best[s] = C[1].tick /\ level[s][best[s]].head = C[1].id
<1>1. TypeOK /\ LinkIntegrity /\ TouchExact
  BY DEF QInv, IInv
<1>2. PICK Q : Ordered(Q, s, node)
  BY DEF QInv, Queued
<1>3. /\ Len(Q) \in Nat
      /\ \A k \in 1..Len(Q) : Q[k] \in live /\ node[Q[k]].side = s
  BY <1>1, <1>2, OrderedIds
<1>4. C = [j \in 1..Len(Q) |-> Rec(Q[j], node)]
  BY <1>2, ReadsNow DEF Reads, ListOf
<1>5. Len(C) = Len(Q)
  BY <1>3, <1>4
<1>6. \A k \in 1..Len(Q) : C[k] = Rec(Q[k], node) /\ C[k].id = Q[k] /\ C[k].tick = node[Q[k]].tick
  BY <1>4 DEF Rec
<1>7. \A i \in live : Rec(i, node) \in Resting
  BY <1>1, NodeFields DEF Rec, Resting, Positive
<1>8. \A k \in 1..Len(C) : C[k] \in Resting
  BY <1>3, <1>5, <1>6, <1>7
<1>9. C \in Seq(Resting)
  BY <1>3, <1>4, <1>5, <1>8
<1>10. \A k \in 1..Len(C) : C[k].id \in live /\ node[C[k].id].side = s /\ C[k] = Rec(C[k].id, node)
  BY <1>3, <1>5, <1>6
<1>11. \A j, k \in 1..Len(C) : C[j].id = C[k].id => j = k
  BY <1>2, <1>5, <1>6 DEF Ordered
<1>12. \A i \in live : node[i].side = s => \E k \in 1..Len(C) : C[k].id = i
  BY <1>2, <1>5, <1>6 DEF Ordered, live
<1>13. \A j, k \in 1..Len(C) : j < k => ~Better(s, C[k].tick, C[j].tick)
  BY <1>2, <1>5, <1>6 DEF Ordered
<1>14. IF Len(C) = 0 THEN best[s] = NoTick
       ELSE best[s] # NoTick /\ best[s] = C[1].tick /\ level[s][best[s]].head = C[1].id
  <2>1. IF Len(Q) = 0 THEN best[s] = NoTick
        ELSE /\ 1 \in 1..Len(Q) /\ best[s] = node[Q[1]].tick /\ best[s] # NoTick
             /\ level[s][best[s]].head = Q[1]
    BY <1>1, <1>2, OrderedTouch
  <2> QED BY <2>1, <1>5, <1>6
<1> QED BY <1>3, <1>5, <1>8, <1>9, <1>10, <1>11, <1>12, <1>13, <1>14

\* A side whose orders stay as they are reads the same.
LEMMA ListSame ==
  ASSUME QInv, QInv', NEW s \in Sides, NEW Q, Ordered(Q, s, node), Ordered(Q, s, node'),
         \A k \in 1..Len(Q) : Rec(Q[k], node') = Rec(Q[k], node)
  PROVE  QueueOf(s)' = QueueOf(s)
<1>1. QueueOf(s) = ListOf(Q, node)
  BY ReadsNext DEF Reads
<1>2. QueueOf(s)' = ListOf(Q, node')
  BY ReadsNext DEF Reads
<1> QED BY <1>1, <1>2 DEF ListOf

\* Nothing changes where the book does not.
LEMMA ListsSame ==
  ASSUME QInv, QInv', node' = node, NEW s \in Sides
  PROVE  QueueOf(s)' = QueueOf(s)
<1>1. PICK Q : Ordered(Q, s, node)
  BY DEF QInv, Queued
<1>2. Ordered(Q, s, node') /\ \A k \in 1..Len(Q) : Rec(Q[k], node') = Rec(Q[k], node)
  BY <1>1
<1> QED BY <1>1, <1>2, ListSame

\* unlink takes its order out of the list.
LEMMA ListUnlink ==
  ASSUME QInv, QInv', NEW i \in live, unlink(i), NEW s, s = node[i].side, NEW C, C = QueueOf(s),
         NEW k \in 1..Len(C), C[k].id = i
  PROVE  /\ QueueOf(s)' = Without(C, k)
         /\ \A z \in Sides : z # s => QueueOf(z)' = QueueOf(z)
<1>1. TypeOK /\ LinkIntegrity /\ TouchExact
  BY DEF QInv, IInv
<1>2. s \in Sides
  BY <1>1, NodeFields
<1>3. PICK Q : Ordered(Q, s, node)
  BY <1>2 DEF QInv, Queued
<1>4. /\ Len(Q) \in Nat
      /\ \A m \in 1..Len(Q) : Q[m] \in live /\ node[Q[m]].side = s
  BY <1>1, <1>2, <1>3, OrderedIds
<1>5. C = [j \in 1..Len(Q) |-> Rec(Q[j], node)]
  BY <1>2, <1>3, ReadsNow DEF Reads, ListOf
<1>6. Len(C) = Len(Q) /\ k \in 1..Len(Q) /\ Q[k] = i
  <2>1. Len(C) = Len(Q)
    BY <1>4, <1>5
  <2> QED BY <2>1, <1>5 DEF Rec
<1>7. \A j \in live' : Rec(j, node') = Rec(j, node)
  BY <1>1, UnlinkNodes DEF Rec
<1>8. live' = live \ {i}
  BY <1>1, UnlinkNodes
<1>9. QueueOf(s)' = Without(C, k)
  <2>1. Ordered(Without(Q, k), s, node')
    BY <1>1, <1>3, <1>6, UnlinkQueue
  <2>2. QueueOf(s)' = ListOf(Without(Q, k), node')
    BY <1>2, <2>1, ReadsNext DEF Reads
  <2>3. Len(Without(Q, k)) = Len(Q) - 1 /\ Len(Q) - 1 \in Nat
    BY <1>4, <1>6 DEF Without
  <2>4. \A j \in 1..(Len(Q) - 1) : LET m == IF j < k THEN j ELSE j + 1 IN
           m \in 1..Len(Q) /\ m # k /\ Without(Q, k)[j] = Q[m]
    BY <1>4, <1>6 DEF Without
  <2>5. \A m \in 1..Len(Q) : m # k => Rec(Q[m], node') = C[m]
    <3> SUFFICES ASSUME NEW m \in 1..Len(Q), m # k PROVE Rec(Q[m], node') = C[m]
      OBVIOUS
    <3>1. Q[m] # i
      BY <1>3, <1>6 DEF Ordered
    <3>2. Q[m] \in live'
      BY <1>4, <1>8, <3>1
    <3> QED BY <1>5, <1>7, <3>2
  <2>6. Without(C, k) = [j \in 1..(Len(Q) - 1) |-> C[IF j < k THEN j ELSE j + 1]]
    BY <1>6 DEF Without
  <2>7. ListOf(Without(Q, k), node') = [j \in 1..(Len(Q) - 1) |-> Rec(Without(Q, k)[j], node')]
    BY <2>3 DEF ListOf
  <2>8. \A j \in 1..(Len(Q) - 1) : Rec(Without(Q, k)[j], node') = C[IF j < k THEN j ELSE j + 1]
    BY <2>4, <2>5
  <2> QED BY <2>2, <2>6, <2>7, <2>8
<1>10. ASSUME NEW z \in Sides, z # s PROVE QueueOf(z)' = QueueOf(z)
  <2>1. PICK R : Ordered(R, z, node)
    BY DEF QInv, Queued
  <2>2. \A m \in 1..Len(R) : R[m] \in live /\ node[R[m]].side = z
    BY <1>1, <2>1, OrderedIds
  <2>3. {j \in DOMAIN node' : node'[j].side = z} = {j \in DOMAIN node : node[j].side = z}
    <3>1. \A j \in live' : node'[j].side = node[j].side
      BY <1>1, UnlinkNodes
    <3> QED BY <1>8, <1>10, <3>1 DEF live
  <2>4. \A j \in {m \in DOMAIN node : node[m].side = z} :
           node'[j].tick = node[j].tick /\ node'[j].next = node[j].next
    <3> SUFFICES ASSUME NEW j \in live, node[j].side = z
                 PROVE  node'[j].tick = node[j].tick /\ node'[j].next = node[j].next
      BY DEF live
    <3>1. j \in live' /\ j # NIL
      BY <1>1, <1>8, <1>10, NodeFields
    <3>2. NodeLinked(i)
      BY <1>1 DEF LinkIntegrity
    <3>3. j # node[i].prev
      BY <1>10, <3>1, <3>2 DEF NodeLinked
    <3> QED BY <1>1, <3>1, <3>3, UnlinkNodes
  <2>5. Ordered(R, z, node')
    BY <2>1, <2>3, <2>4, OrderedSame
  <2>6. \A m \in 1..Len(R) : Rec(R[m], node') = Rec(R[m], node)
    BY <1>7, <1>8, <1>10, <2>2
  <2> QED BY <2>1, <2>5, <2>6, ListSame
<1> QED BY <1>9, <1>10

\* rest puts its order into the list behind every order that is not worse.
LEMMA ListRest ==
  ASSUME QInv, QInv', free # <<>> \/ top < MaxSlots, NEW n \in Node, n.next = NIL, rest(n),
         NEW s, s = n.side, NEW C, C = QueueOf(s), NEW r,
         r = [id |-> alloc, tick |-> n.tick, qty |-> n.qty, owner |-> n.owner, expiry |-> n.expiry]
  PROVE  /\ alloc \in Slots \ live
         /\ \A z \in Sides : z # s => QueueOf(z)' = QueueOf(z)
         /\ \E p \in 0..Len(C) :
              /\ \A k \in 1..Len(C) : k <= p => ~Better(s, r.tick, C[k].tick)
              /\ \A k \in 1..Len(C) : k > p => Better(s, r.tick, C[k].tick)
              /\ QueueOf(s)' = With(C, p, r)
<1>0. PICK i, t : i = alloc /\ t = n.tick
  OBVIOUS
<1>1. TypeOK /\ LinkIntegrity /\ TouchExact /\ FreeListExact
  BY DEF QInv, IInv
<1>2. s \in Sides /\ t \in Ticks
  BY <1>0 DEF Node
<1>3. PICK Q : Ordered(Q, s, node)
  BY <1>2 DEF QInv, Queued
<1>4. /\ Len(Q) \in Nat
      /\ \A m \in 1..Len(Q) : Q[m] \in live /\ node[Q[m]].side = s
  BY <1>1, <1>2, <1>3, OrderedIds
<1>5. C = [j \in 1..Len(Q) |-> Rec(Q[j], node)]
  BY <1>2, <1>3, ReadsNow DEF Reads, ListOf
<1>6. Len(C) = Len(Q) /\ \A k \in 1..Len(Q) : C[k].tick = node[Q[k]].tick
  <2>1. Len(C) = Len(Q)
    BY <1>4, <1>5
  <2> QED BY <2>1, <1>5 DEF Rec
<1>7. i \in Slots \ live /\ live' = live \cup {i}
  BY <1>0, <1>1, RestFree
<1>8. PICK tail : /\ tail = level[s][t].tail
                  /\ \A j \in live : /\ node'[j].side = node[j].side /\ node'[j].tick = node[j].tick
                                     /\ node'[j].next = IF j = tail THEN i ELSE node[j].next
                                     /\ Rec(j, node') = Rec(j, node)
                  /\ node'[i].side = s /\ Rec(i, node') = r
  BY <1>0, <1>1, RestNodes DEF Rec
<1>9. PICK p : Place(Q, s, t, node, p)
  BY <1>1, <1>2, <1>3, PlaceExists
<1>10. p \in 0..Len(Q)
  BY <1>9 DEF Place
<1>11. QueueOf(s)' = With(C, p, r)
  <2>1. Ordered(With(Q, p, i), s, node')
    BY <1>0, <1>1, <1>3, <1>9, RestQueue
  <2>2. QueueOf(s)' = ListOf(With(Q, p, i), node')
    BY <1>2, <2>1, ReadsNext DEF Reads
  <2>3. Len(With(Q, p, i)) = Len(Q) + 1 /\ Len(Q) + 1 \in Nat
    BY <1>4 DEF With
  <2>4. ListOf(With(Q, p, i), node') = [j \in 1..(Len(Q) + 1) |-> Rec(With(Q, p, i)[j], node')]
    BY <2>3 DEF ListOf
  <2>5. With(C, p, r) = [j \in 1..(Len(Q) + 1) |->
                           IF j <= p THEN C[j] ELSE IF j = p + 1 THEN r ELSE C[j - 1]]
    BY <1>6 DEF With
  <2>6. \A j \in 1..Len(Q) : Rec(Q[j], node') = C[j]
    BY <1>4, <1>5, <1>8
  <2>7. ASSUME NEW j \in 1..(Len(Q) + 1)
        PROVE  Rec(With(Q, p, i)[j], node') = IF j <= p THEN C[j] ELSE IF j = p + 1 THEN r ELSE C[j - 1]
    <3>1. With(Q, p, i)[j] = IF j <= p THEN Q[j] ELSE IF j = p + 1 THEN i ELSE Q[j - 1]
      BY DEF With
    <3>2. CASE j <= p
      <4>1. j \in 1..Len(Q)
        BY <1>4, <1>10, <3>2
      <4> QED BY <2>6, <3>1, <3>2, <4>1
    <3>3. CASE ~(j <= p) /\ j = p + 1
      BY <1>8, <3>1, <3>3
    <3>4. CASE ~(j <= p) /\ j # p + 1
      <4>1. j - 1 \in 1..Len(Q)
        BY <1>4, <1>10, <3>4
      <4> QED BY <2>6, <3>1, <3>4, <4>1
    <3> QED BY <3>2, <3>3, <3>4
  <2> QED BY <2>2, <2>4, <2>5, <2>7
<1>12. ASSUME NEW z \in Sides, z # s PROVE QueueOf(z)' = QueueOf(z)
  <2>1. PICK R : Ordered(R, z, node)
    BY DEF QInv, Queued
  <2>2. \A m \in 1..Len(R) : R[m] \in live
    BY <1>1, <2>1, OrderedIds
  <2>3. {j \in DOMAIN node' : node'[j].side = z} = {j \in DOMAIN node : node[j].side = z}
    BY <1>7, <1>8, <1>12 DEF live
  <2>4. \A j \in {m \in DOMAIN node : node[m].side = z} :
           node'[j].tick = node[j].tick /\ node'[j].next = node[j].next
    <3> SUFFICES ASSUME NEW j \in live, node[j].side = z
                 PROVE  node'[j].tick = node[j].tick /\ node'[j].next = node[j].next
      BY DEF live
    <3>1. j # NIL
      BY <1>1, NodeFields
    <3>2. LevelLinked(s, t)
      BY <1>1, <1>2 DEF LinkIntegrity
    <3>3. j # tail
      BY <1>8, <1>12, <3>1, <3>2 DEF LevelLinked
    <3> QED BY <1>8, <3>3
  <2>5. Ordered(R, z, node')
    BY <2>1, <2>3, <2>4, OrderedSame
  <2>6. \A m \in 1..Len(R) : Rec(R[m], node') = Rec(R[m], node)
    BY <1>8, <2>2
  <2> QED BY <2>1, <2>5, <2>6, ListSame
<1>13. r.tick = t
  BY <1>0
<1>14. /\ \A k \in 1..Len(C) : k <= p => ~Better(s, r.tick, C[k].tick)
       /\ \A k \in 1..Len(C) : k > p => Better(s, r.tick, C[k].tick)
  BY <1>6, <1>9, <1>13 DEF Place
<1> QED BY <1>0, <1>6, <1>7, <1>10, <1>11, <1>12, <1>14

\* A partial fill takes the taker's quantity off the first of the list.
LEMMA ListPartFill ==
  ASSUME QInv, QInv', PartFillHead, NEW s0, s0 = Opp, NEW C, C = QueueOf(s0)
  PROVE  /\ Len(C) # 0 => QueueOf(s0)' = [C EXCEPT ![1].qty = @ - req.qty]
         /\ \A z \in Sides : z # s0 => QueueOf(z)' = QueueOf(z)
<1>0. PICK i, q : i = Front /\ q = req.qty
  OBVIOUS
<1>1. TypeOK /\ LinkIntegrity /\ TouchExact /\ IInv
  BY DEF QInv, IInv
<1>2. req.phase \in Phases /\ Touch # NoTick
  BY DEF PartFillHead, Matching, Phases
<1>3. i \in live /\ node[i].side = s0 /\ s0 \in Sides
  <2>1. i \in live /\ node[i].side = s0
    BY <1>0, <1>1, <1>2, FrontLive
  <2> QED BY <2>1, <1>1, NodeFields
<1>4. node' = [node EXCEPT ![i].qty = @ - q] /\ node \in [live -> Node]
  BY <1>0, <1>1, Zenon DEF PartFillHead, TypeOK
<1>5. /\ DOMAIN node' = live
      /\ \A j \in live : /\ node'[j].side = node[j].side /\ node'[j].tick = node[j].tick
                         /\ node'[j].next = node[j].next
                         /\ j # i => Rec(j, node') = Rec(j, node)
      /\ Rec(i, node') = [Rec(i, node) EXCEPT !.qty = @ - q]
  <2> DEFINE m == [node[i] EXCEPT !.qty = @ - q]
  <2>1. node' = [node EXCEPT ![i] = m]
    BY <1>4
  <2>2. /\ m.side = node[i].side /\ m.tick = node[i].tick /\ m.next = node[i].next
        /\ m.qty = node[i].qty - q /\ m.owner = node[i].owner /\ m.expiry = node[i].expiry
    BY <1>3, <1>4 DEF Node
  <2> HIDE DEF m
  <2>3. DOMAIN node' = live /\ node'[i] = m /\ \A j \in live : j # i => node'[j] = node[j]
    BY <1>3, <1>4, <2>1
  <2>4. Rec(i, node') = [Rec(i, node) EXCEPT !.qty = @ - q]
    BY <2>2, <2>3 DEF Rec
  <2> QED BY <2>2, <2>3, <2>4 DEF Rec
<1>6. ASSUME NEW z \in Sides, NEW Q, Ordered(Q, z, node) PROVE Ordered(Q, z, node')
  <2>1. {j \in DOMAIN node' : node'[j].side = z} = {j \in DOMAIN node : node[j].side = z}
    BY <1>5 DEF live
  <2>2. \A j \in {m \in DOMAIN node : node[m].side = z} :
           node'[j].tick = node[j].tick /\ node'[j].next = node[j].next
    BY <1>5 DEF live
  <2> QED BY <1>6, <2>1, <2>2, OrderedSame
<1>7. ASSUME NEW z \in Sides, z # s0 PROVE QueueOf(z)' = QueueOf(z)
  <2>1. PICK R : Ordered(R, z, node)
    BY DEF QInv, Queued
  <2>2. \A m \in 1..Len(R) : R[m] \in live /\ node[R[m]].side = z
    BY <1>1, <2>1, OrderedIds
  <2>3. \A m \in 1..Len(R) : Rec(R[m], node') = Rec(R[m], node)
    BY <1>3, <1>5, <1>7, <2>2
  <2> QED BY <1>6, <2>1, <2>3, ListSame
<1>8. ASSUME Len(C) # 0 PROVE QueueOf(s0)' = [C EXCEPT ![1].qty = @ - q]
  <2>1. PICK Q : Ordered(Q, s0, node)
    BY <1>3 DEF QInv, Queued
  <2>2. /\ Len(Q) \in Nat
        /\ \A m \in 1..Len(Q) : Q[m] \in live
        /\ \A j, k \in 1..Len(Q) : Q[j] = Q[k] => j = k
    BY <1>1, <1>3, <2>1, OrderedIds DEF Ordered
  <2>3. C = [j \in 1..Len(Q) |-> Rec(Q[j], node)]
    BY <1>0, <1>3, <2>1, ReadsNow DEF Reads, ListOf
  <2>4. Len(C) = Len(Q)
    BY <2>2, <2>3
  <2>5. 1 \in 1..Len(Q) /\ Q[1] = i
    <3>1. IF Len(Q) = 0 THEN best[s0] = NoTick
          ELSE 1 \in 1..Len(Q) /\ level[s0][best[s0]].head = Q[1]
      BY <1>1, <1>3, <2>1, OrderedTouch
    <3> QED BY <1>0, <1>8, <2>4, <3>1 DEF Front, Touch
  <2>6. Ordered(Q, s0, node')
    BY <1>3, <1>6, <2>1
  <2>7. QueueOf(s0)' = [j \in 1..Len(Q) |-> Rec(Q[j], node')]
    BY <1>3, <2>6, ReadsNext DEF Reads, ListOf
  <2>8. \A j \in 1..Len(Q) : Rec(Q[j], node') = IF j = 1 THEN [C[1] EXCEPT !.qty = @ - q] ELSE C[j]
    <3> SUFFICES ASSUME NEW j \in 1..Len(Q)
                 PROVE  Rec(Q[j], node') = IF j = 1 THEN [C[1] EXCEPT !.qty = @ - q] ELSE C[j]
      OBVIOUS
    <3>1. CASE j = 1
      <4>1. C[1] = Rec(i, node)
        BY <2>3, <2>5
      <4> QED BY <1>5, <2>5, <3>1, <4>1
    <3>2. CASE j # 1
      <4>1. Q[j] # i /\ Q[j] \in live
        BY <2>2, <2>5, <3>2
      <4> QED BY <1>5, <2>3, <3>2, <4>1
    <3> QED BY <3>1, <3>2
  <2>9. [C EXCEPT ![1].qty = @ - q] = [j \in 1..Len(Q) |-> IF j = 1 THEN [C[1] EXCEPT !.qty = @ - q] ELSE C[j]]
    <3>1. DOMAIN C = 1..Len(Q)
      BY <2>3
    <3>2. PICK e : e = [C[1] EXCEPT !.qty = @ - q]
      OBVIOUS
    <3>3. [C EXCEPT ![1].qty = @ - q] = [C EXCEPT ![1] = e]
      BY <3>2
    <3>4. [C EXCEPT ![1] = e] = [j \in 1..Len(Q) |-> IF j = 1 THEN e ELSE C[j]]
      BY <3>1
    <3> QED BY <3>2, <3>3, <3>4
  <2> DEFINE changed == [j \in 1..Len(Q) |-> IF j = 1 THEN [C[1] EXCEPT !.qty = @ - q] ELSE C[j]]
  <2>10. [j \in 1..Len(Q) |-> Rec(Q[j], node')] = changed
    BY <2>8
  <2> HIDE DEF changed
  <2>11. QueueOf(s0)' = changed
    BY <2>7, <2>10, Zenon
  <2>12. [C EXCEPT ![1].qty = @ - q] = changed
    BY <2>9 DEF changed
  <2> QED BY <2>11, <2>12
<1> QED BY <1>0, <1>7, <1>8

-----------------------------------------------------------------------------
(* The closed form of PriceTime, over a queue q and an order o.            *)

\* The order at position i crosses o; it is neither expired nor o's owner's.
Hit(q, o, i)  == Crosses(o.side, o.tick, q[i].tick)
Good(q, o, i) == ~is_expired(q[i], o.now) /\ q[i].owner # o.owner

\* What each position can give o, and what the first m can.
Gives(q, o) == [i \in 1..Len(q) |-> IF Hit(q, o, i) /\ Good(q, o, i) THEN q[i].qty ELSE 0]
Before(q, o, m) == SumFunctionOnSet(Gives(q, o), 1..m)

\* The operators of PriceTime by these names.
LEMMA SameNames ==
  ASSUME NEW q, NEW o
  PROVE  /\ Abstract!Crossed(q, o) = {i \in 1..Len(q) : Hit(q, o, i)}
         /\ \A i : Abstract!Eligible(q, o, i) <=> Good(q, o, i)
         /\ \A S : Abstract!Quantity(q, S) = SumFunctionOnSet([i \in S |-> q[i].qty], S)
<1>1. Abstract!Crossed(q, o) = {i \in 1..Len(q) : Hit(q, o, i)}
  BY DEF Abstract!Crossed, Abstract!Crosses, Hit, Crosses
<1>2. \A i : Abstract!Eligible(q, o, i) <=> Good(q, o, i)
  BY DEF Abstract!Eligible, Abstract!Expired, Good, is_expired
<1>3. ASSUME NEW f, NEW S PROVE Abstract!SumFunctionOnSet(f, S) = SumFunctionOnSet(f, S)
  BY Zenon DEF Abstract!SumFunctionOnSet, Abstract!FoldFunctionOnSet, Abstract!MapThenFoldSet,
               SumFunctionOnSet, FoldFunctionOnSet, MapThenFoldSet
<1>4. \A S : Abstract!Quantity(q, S) = SumFunctionOnSet([i \in S |-> q[i].qty], S)
  BY <1>3, Zenon DEF Abstract!Quantity
<1> QED BY <1>1, <1>2, <1>4

\* A queue's elements.
LEMMA QueueFields ==
  ASSUME NEW q \in Seq(Resting), NEW o
  PROVE  /\ Len(q) \in Nat /\ DOMAIN q = 1..Len(q)
         /\ \A i \in 1..Len(q) : /\ q[i] \in Resting /\ q[i].qty \in Nat \ {0} /\ q[i].tick \in Ticks
                                 /\ Gives(q, o)[i] = (IF Hit(q, o, i) /\ Good(q, o, i) THEN q[i].qty ELSE 0)
                                 /\ Gives(q, o)[i] \in Nat /\ Gives(q, o)[i] \in Int
<1>1. Len(q) \in Nat /\ DOMAIN q = 1..Len(q) /\ \A i \in 1..Len(q) : q[i] \in Resting
  BY ElementOfSeq
<1>2. \A i \in 1..Len(q) : q[i].qty \in Nat \ {0} /\ q[i].tick \in Ticks
  BY <1>1 DEF Resting
<1>3. \A i \in 1..Len(q) : /\ Gives(q, o)[i] = (IF Hit(q, o, i) /\ Good(q, o, i) THEN q[i].qty ELSE 0)
                           /\ Gives(q, o)[i] \in Nat
  BY <1>2 DEF Gives
<1>4. \A i \in 1..Len(q) : Gives(q, o)[i] \in Int
  BY <1>3
<1> QED BY <1>1, <1>2, <1>3, <1>4

\* One more position; what is before grows, and stops where nothing is given.
LEMMA BeforeNext ==
  ASSUME NEW q \in Seq(Resting), NEW o, NEW m \in 0..Len(q)
  PROVE  /\ m \in Nat /\ Before(q, o, m) \in Nat /\ Before(q, o, 0) = 0
         /\ m < Len(q) => Before(q, o, m + 1) = Before(q, o, m) + Gives(q, o)[m + 1]
<1>1. m \in Nat /\ Len(q) \in Nat
  BY QueueFields
<1>2. \A i \in 1..Len(q) : Gives(q, o)[i] \in Nat /\ Gives(q, o)[i] \in Int
  BY QueueFields
<1>3. \A i \in 1..m : Gives(q, o)[i] \in Nat /\ Gives(q, o)[i] \in Int
  BY <1>1, <1>2
<1>4. Before(q, o, m) \in Nat
  <2>1. IsFiniteSet(1..m)
    BY <1>1, FS_Interval
  <2> QED BY <1>3, <2>1, SumNat DEF Before
<1>5. Before(q, o, 0) = 0
  <2>1. 1..0 = {}
    OBVIOUS
  <2> QED BY <2>1, SumEmpty DEF Before
<1>6. ASSUME m < Len(q) PROVE Before(q, o, m + 1) = Before(q, o, m) + Gives(q, o)[m + 1]
  <2>1. m + 1 \in 1..Len(q)
    BY <1>1, <1>6
  <2>2. Gives(q, o)[m + 1] \in Int
    BY <1>2, <2>1
  <2>3. SumFunctionOnSet(Gives(q, o), 1..m + 1) = SumFunctionOnSet(Gives(q, o), 1..m) + Gives(q, o)[m + 1]
    BY <1>1, <1>3, <2>2, SumNext
  <2> QED BY <2>3 DEF Before
<1> QED BY <1>1, <1>4, <1>5, <1>6

\* More positions give no less.
LEMMA BeforeGrows ==
  ASSUME NEW q \in Seq(Resting), NEW o, NEW m \in 0..Len(q), NEW k \in 0..Len(q), m <= k
  PROVE  Before(q, o, m) <= Before(q, o, k)
<1>0. Len(q) \in Nat /\ m \in Nat /\ k \in Nat
  BY QueueFields
<1> DEFINE G == {n \in Nat : m + n <= Len(q) => Before(q, o, m) <= Before(q, o, m + n)}
<1>1. 0 \in G
  <2>1. Before(q, o, m) \in Nat /\ m + 0 = m
    BY <1>0, BeforeNext
  <2> QED BY <2>1
<1>2. ASSUME NEW n \in Nat, n \in G PROVE n + 1 \in G
  <2>1. n + 1 \in Nat
    OBVIOUS
  <2> SUFFICES ASSUME m + (n + 1) <= Len(q) PROVE Before(q, o, m) <= Before(q, o, m + (n + 1))
    BY <2>1
  <2>2. PICK j : j = m + n
    OBVIOUS
  <2>3. j \in 0..Len(q) /\ j < Len(q) /\ j + 1 \in 1..Len(q) /\ m + (n + 1) = j + 1
    BY <1>0, <2>2
  <2>4. Before(q, o, m) <= Before(q, o, j)
    BY <1>2, <2>2, <2>3
  <2>5. Before(q, o, j + 1) = Before(q, o, j) + Gives(q, o)[j + 1] /\ Before(q, o, j) \in Nat
    BY <2>3, BeforeNext
  <2>6. Gives(q, o)[j + 1] \in Nat
    BY <2>3, QueueFields
  <2>7. Before(q, o, m) \in Nat
    BY BeforeNext
  <2> HIDE DEF G
  <2> QED BY <2>3, <2>4, <2>5, <2>6, <2>7
<1>3. Nat \subseteq G
  <2> HIDE DEF G
  <2> QED BY <1>1, <1>2, Induction
<1>4. k - m \in Nat /\ m + (k - m) = k /\ m + (k - m) <= Len(q)
  BY <1>0
<1>5. k - m \in G
  BY <1>3, <1>4
<1> QED BY <1>4, <1>5

\* What no longer crosses gives nothing.
LEMMA BeforeStops ==
  ASSUME NEW q \in Seq(Resting), NEW o, NEW m \in 0..Len(q),
         \A i \in 1..Len(q) : i > m => ~Hit(q, o, i)
  PROVE  Before(q, o, Len(q)) = Before(q, o, m)
<1> DEFINE S == 1..Len(q)
           U == 1..m
<1>1. Len(q) \in Nat /\ m \in Nat
  BY QueueFields
<1>2. IsFiniteSet(S) /\ U \subseteq S
  BY <1>1, FS_Interval
<1>3. \A i \in S : Gives(q, o)[i] \in Int
  BY QueueFields
<1>4. \A i \in S \ U : Gives(q, o)[i] = 0
  <2> SUFFICES ASSUME NEW i \in S, i \notin U PROVE Gives(q, o)[i] = 0
    OBVIOUS
  <2>1. i > m
    BY <1>1
  <2> QED BY <2>1, QueueFields
<1> HIDE DEF S, U
<1>5. SumFunctionOnSet(Gives(q, o), U) = SumFunctionOnSet(Gives(q, o), S)
  BY <1>2, <1>3, <1>4, SumWithin
<1> QED BY <1>5 DEF S, U, Before

\* Ahead and Available are these sums.
LEMMA AheadIs ==
  ASSUME NEW q \in Seq(Resting), NEW o
  PROVE  /\ \A i \in 1..Len(q) : Abstract!Ahead(q, o, i) = Before(q, o, i - 1)
         /\ Abstract!Available(q, o) = Before(q, o, Len(q))
<1>1. Len(q) \in Nat
  BY QueueFields
<1>2. ASSUME NEW m \in 0..Len(q)
      PROVE  LET U == {j \in 1..m : Hit(q, o, j) /\ Good(q, o, j)} IN
             SumFunctionOnSet([j \in U |-> q[j].qty], U) = Before(q, o, m)
  <2> DEFINE U == {j \in 1..m : Hit(q, o, j) /\ Good(q, o, j)}
             h == [j \in U |-> q[j].qty]
             S == 1..m
  <2>0. m \in Nat /\ m <= Len(q)
    BY <1>1
  <2>1. IsFiniteSet(S) /\ U \subseteq S /\ S \subseteq 1..Len(q)
    <3>1. IsFiniteSet(1..m)
      BY <2>0, FS_Interval
    <3>2. 1..m \subseteq 1..Len(q)
      BY <1>1, <2>0
    <3> QED BY <3>1, <3>2
  <2>2. \A i \in S : /\ Gives(q, o)[i] = (IF Hit(q, o, i) /\ Good(q, o, i) THEN q[i].qty ELSE 0)
                     /\ Gives(q, o)[i] \in Int
    BY <2>1, QueueFields
  <2>3. \A i \in S \ U : Gives(q, o)[i] = 0
    BY <2>2
  <2>4. \A i \in U : h[i] = Gives(q, o)[i]
    BY <2>2
  <2>5. \A i \in S : Gives(q, o)[i] \in Int
    BY <2>2
  <2> HIDE DEF S, U, h
  <2>6. SumFunctionOnSet(h, U) = SumFunctionOnSet(Gives(q, o), S)
    BY <2>1, <2>3, <2>4, <2>5, SumWithin
  <2> QED BY <2>6 DEF Before, S, U, h
<1>3. ASSUME NEW i \in 1..Len(q) PROVE Abstract!Ahead(q, o, i) = Before(q, o, i - 1)
  <2> DEFINE A == {j \in Abstract!Crossed(q, o) : j < i /\ Abstract!Eligible(q, o, j)}
             U == {j \in 1..(i - 1) : Hit(q, o, j) /\ Good(q, o, j)}
  <2>1. i - 1 \in 0..Len(q)
    BY <1>1
  <2>2. A = U
    <3>1. \A j \in 1..Len(q) : j < i <=> j \in 1..(i - 1)
      BY <1>1
    <3>2. 1..(i - 1) \subseteq 1..Len(q)
      BY <1>1
    <3> QED BY <3>1, <3>2, SameNames
  <2>3. Abstract!Ahead(q, o, i) = Abstract!Quantity(q, A)
    BY DEF Abstract!Ahead
  <2>4. Abstract!Quantity(q, U) = SumFunctionOnSet([j \in U |-> q[j].qty], U)
    BY SameNames, Zenon
  <2>5. SumFunctionOnSet([j \in U |-> q[j].qty], U) = Before(q, o, i - 1)
    BY <1>2, <2>1
  <2> QED BY <2>2, <2>3, <2>4, <2>5
<1>4. Abstract!Available(q, o) = Before(q, o, Len(q))
  <2> DEFINE A == {j \in Abstract!Crossed(q, o) : Abstract!Eligible(q, o, j)}
             U == {j \in 1..Len(q) : Hit(q, o, j) /\ Good(q, o, j)}
  <2>1. Len(q) \in 0..Len(q)
    BY <1>1
  <2>2. A = U
    BY SameNames
  <2>3. Abstract!Available(q, o) = Abstract!Quantity(q, A)
    BY DEF Abstract!Available
  <2>4. Abstract!Quantity(q, U) = SumFunctionOnSet([j \in U |-> q[j].qty], U)
    BY SameNames, Zenon
  <2>5. SumFunctionOnSet([j \in U |-> q[j].qty], U) = Before(q, o, Len(q))
    BY <1>2, <2>1
  <2> QED BY <2>2, <2>3, <2>4, <2>5
<1> QED BY <1>3, <1>4

\* The queue without the positions from a to b.
Cut(q, a, b) == [j \in 1..(Len(q) - (b + 1 - a)) |-> q[IF j < a THEN j ELSE j + (b + 1 - a)]]

\* The recursive definition of Kept.
KeptOf(kept, q, S) ==
  kept = [n \in 0..Len(q) |->
            IF n = 0 THEN <<>> ELSE IF n \in S THEN Append(kept[n - 1], q[n]) ELSE kept[n - 1]]

\* What is kept of the first n positions.
FirstOf(q, a, b, n) ==
  [j \in 1..(IF n < a THEN n ELSE IF n <= b THEN a - 1 ELSE n - (b + 1 - a)) |->
     q[IF j < a THEN j ELSE j + (b + 1 - a)]]

\* Append, elementwise.
LEMMA AppendIs ==
  ASSUME NEW V, NEW M \in Nat, NEW f, NEW e \in V, \A j \in 1..M : f[j] \in V
  PROVE  Append([j \in 1..M |-> f[j]], e) = [j \in 1..(M + 1) |-> IF j <= M THEN f[j] ELSE e]
<1> DEFINE s == [j \in 1..M |-> f[j]]
           c == Append(s, e)
<1>1. s \in Seq(V) /\ Len(s) = M /\ \A j \in 1..M : s[j] = f[j]
  <2>1. s \in [1..M -> V]
    OBVIOUS
  <2> HIDE DEF s
  <2>2. s \in Seq(V) /\ Len(s) = M
    BY <2>1
  <2> QED BY <2>2 DEF s
<1> HIDE DEF s
<1>2. c \in Seq(V) /\ Len(c) = M + 1 /\ c[M + 1] = e /\ \A j \in 1..M : c[j] = s[j]
  BY <1>1, AppendProperties
<1> HIDE DEF c
<1>3. c = [j \in 1..(M + 1) |-> c[j]]
  BY <1>2, LenProperties, Zenon
<1>4. \A j \in 1..(M + 1) : c[j] = IF j <= M THEN f[j] ELSE e
  BY <1>1, <1>2
<1> SUFFICES c = [j \in 1..(M + 1) |-> IF j <= M THEN f[j] ELSE e]
  BY DEF c, s
<1> QED BY <1>3, <1>4

\* The next position is kept or not.
LEMMA FirstNext ==
  ASSUME NEW V, NEW q \in Seq(V), NEW a \in 1..(Len(q) + 1), NEW b \in (a - 1)..Len(q),
         NEW n \in 1..Len(q), NEW S, S = {i \in 1..Len(q) : i < a \/ i > b}
  PROVE  FirstOf(q, a, b, n) = IF n \in S THEN Append(FirstOf(q, a, b, n - 1), q[n])
                               ELSE FirstOf(q, a, b, n - 1)
<1> DEFINE N == Len(q)
           c == b + 1 - a
           pos(j) == IF j < a THEN j ELSE j + c
           size(k) == IF k < a THEN k ELSE IF k <= b THEN a - 1 ELSE k - c
           f == [j \in 1..N |-> q[pos(j)]]
<1>1. /\ N \in Nat /\ a \in Nat /\ b \in Nat /\ n \in Nat /\ c \in Nat
      /\ 1 <= a /\ a <= N + 1 /\ a <= b + 1 /\ b <= N /\ 1 <= n /\ n <= N
  <2>1. N \in Nat
    OBVIOUS
  <2> HIDE DEF N
  <2>2. a \in 1..(N + 1) /\ b \in (a - 1)..N /\ n \in 1..N
    BY DEF N
  <2> QED BY <2>1, <2>2
<1>2. \A j \in 1..N : q[j] \in V
  BY ElementOfSeq
<1>3. \A k \in 0..N : FirstOf(q, a, b, k) = [j \in 1..size(k) |-> q[pos(j)]]
  BY DEF FirstOf
<1> HIDE DEF N
<1>4. CASE n \in S
  <2> DEFINE M == size(n - 1)
             g == [j \in 1..M |-> q[pos(j)]]
  <2>1. n < a \/ n > b
    BY <1>4
  <2>2. M \in Nat /\ size(n) = M + 1 /\ pos(M + 1) = n /\ M <= N
    BY <1>1, <2>1
  <2>3. \A j \in 1..M : pos(j) \in 1..N
    BY <1>1, <2>1
  <2> HIDE DEF M, pos, size
  <2>4. /\ \A j \in 1..M : g[j] = q[pos(j)] /\ g[j] \in V
        /\ g = [j \in 1..M |-> g[j]]
    BY <1>2, <2>3
  <2>5. q[n] \in V
    BY <1>1, <1>2
  <2>6. Append(g, q[n]) = [j \in 1..(M + 1) |-> IF j <= M THEN g[j] ELSE q[n]]
    <3> HIDE DEF g
    <3>1. Append([j \in 1..M |-> g[j]], q[n]) = [j \in 1..(M + 1) |-> IF j <= M THEN g[j] ELSE q[n]]
      BY <2>2, <2>4, <2>5, AppendIs
    <3> QED BY <2>4, <3>1
  <2>7. \A j \in 1..(M + 1) : (IF j <= M THEN g[j] ELSE q[n]) = q[pos(j)]
    <3> TAKE j \in 1..(M + 1)
    <3>1. j <= M => j \in 1..M
      BY <2>2
    <3>2. ~(j <= M) => j = M + 1
      BY <2>2
    <3> HIDE DEF g
    <3> QED BY <2>2, <2>4, <3>1, <3>2
  <2>8. n \in 0..N /\ n - 1 \in 0..N
    BY <1>1
  <2>9. FirstOf(q, a, b, n - 1) = g
    BY <1>3, <2>8 DEF M
  <2>10. FirstOf(q, a, b, n) = [j \in 1..(M + 1) |-> q[pos(j)]]
    BY <1>3, <2>2, <2>8
  <2> HIDE DEF g
  <2> QED BY <1>4, <2>6, <2>7, <2>9, <2>10
<1>5. CASE n \notin S
  <2>1. a <= n /\ n <= b
    BY <1>1, <1>5 DEF N
  <2>2. size(n) = size(n - 1)
    BY <1>1, <2>1
  <2>3. n \in 0..N /\ n - 1 \in 0..N
    BY <1>1
  <2> HIDE DEF size
  <2> QED BY <1>3, <1>5, <2>2, <2>3
<1> QED BY <1>4, <1>5

\* Kept, of all positions but those from a to b.
LEMMA KeptIs ==
  ASSUME NEW V, NEW q \in Seq(V), NEW a \in 1..(Len(q) + 1), NEW b \in (a - 1)..Len(q),
         NEW S, S = {i \in 1..Len(q) : i < a \/ i > b}
  PROVE  Abstract!Kept(q, S) = Cut(q, a, b)
<1> DEFINE N == Len(q)
           kept == CHOOSE k : KeptOf(k, q, S)
           f == [n \in 0..N |-> FirstOf(q, a, b, n)]
<1>1. N \in Nat /\ a \in Nat /\ 1 <= a /\ a <= N + 1 /\ b \in Nat /\ a <= b + 1 /\ b <= N
  <2>1. N \in Nat
    OBVIOUS
  <2> HIDE DEF N
  <2>2. a \in 1..(N + 1) /\ b \in (a - 1)..N
    BY DEF N
  <2> QED BY <2>1, <2>2
<1>2. FirstOf(q, a, b, 0) = <<>>
  <2>1. 0 < a
    BY <1>1
  <2> QED BY <2>1 DEF FirstOf
<1>3. \A n \in 1..N : FirstOf(q, a, b, n) = IF n \in S THEN Append(FirstOf(q, a, b, n - 1), q[n])
                                           ELSE FirstOf(q, a, b, n - 1)
  <2> TAKE n \in 1..N
  <2> QED BY FirstNext
<1>4. KeptOf(f, q, S)
  <2>1. \A n \in 0..N : FirstOf(q, a, b, n) =
          IF n = 0 THEN <<>> ELSE IF n \in S THEN Append(f[n - 1], q[n]) ELSE f[n - 1]
    <3> SUFFICES ASSUME NEW n \in 0..N, n # 0
                 PROVE  FirstOf(q, a, b, n) = IF n \in S THEN Append(f[n - 1], q[n]) ELSE f[n - 1]
      BY <1>2
    <3>1. n \in 1..N /\ n - 1 \in 0..N
      BY <1>1
    <3>2. f[n - 1] = FirstOf(q, a, b, n - 1)
      BY <3>1
    <3> HIDE DEF f, N
    <3> QED BY <1>3, <3>1, <3>2
  <2>2. f = [n \in 0..N |-> IF n = 0 THEN <<>> ELSE IF n \in S THEN Append(f[n - 1], q[n]) ELSE f[n - 1]]
    <3> DEFINE rhs(n) == IF n = 0 THEN <<>> ELSE IF n \in S THEN Append(f[n - 1], q[n]) ELSE f[n - 1]
    <3>1. \A n \in 0..N : FirstOf(q, a, b, n) = rhs(n)
      BY <2>1
    <3> HIDE DEF rhs
    <3>2. [n \in 0..N |-> FirstOf(q, a, b, n)] = [n \in 0..N |-> rhs(n)]
      BY <3>1
    <3> QED BY <3>2 DEF rhs
  <2> HIDE DEF f
  <2> QED BY <2>2 DEF KeptOf
<1>5. KeptOf(kept, q, S)
  <2> HIDE DEF f
  <2> QED BY <1>4, Zenon
<1>6. Abstract!Kept(q, S) = kept[N]
  BY Zenon DEF Abstract!Kept, KeptOf
<1> HIDE DEF kept, f
<1>7. \A n \in 0..N : kept[n] = IF n = 0 THEN <<>> ELSE IF n \in S THEN Append(kept[n - 1], q[n]) ELSE kept[n - 1]
  <2> HIDE DEF N
  <2> QED BY <1>5 DEF KeptOf, N
<1> DEFINE G == {n \in Nat : n <= N => kept[n] = FirstOf(q, a, b, n)}
<1>8. 0 \in G
  <2>1. 0 \in 0..N
    BY <1>1
  <2> QED BY <1>2, <1>7, <2>1
<1>9. ASSUME NEW n \in Nat, n \in G PROVE n + 1 \in G
  <2>1. n + 1 \in Nat
    OBVIOUS
  <2> SUFFICES ASSUME n + 1 <= N PROVE kept[n + 1] = FirstOf(q, a, b, n + 1)
    BY <2>1, Zenon
  <2>2. n <= N /\ n + 1 \in 0..N /\ n + 1 \in 1..N /\ n + 1 # 0 /\ (n + 1) - 1 = n
    BY <1>1
  <2>3. kept[n] = FirstOf(q, a, b, n)
    BY <1>9, <2>2
  <2> HIDE DEF G, N
  <2> QED BY <1>3, <1>7, <2>2, <2>3
<1>10. Nat \subseteq G
  <2> HIDE DEF G
  <2> QED BY <1>8, <1>9, Induction
<1>11. kept[N] = FirstOf(q, a, b, N)
  BY <1>1, <1>10
<1>12. FirstOf(q, a, b, N) = Cut(q, a, b)
  <2>1. (IF N < a THEN N ELSE IF N <= b THEN a - 1 ELSE N - (b + 1 - a)) = N - (b + 1 - a)
    BY <1>1
  <2> QED BY <2>1 DEF FirstOf, Cut
<1> QED BY <1>6, <1>11, <1>12

\* Cut takes one order out, none, or the first m.
LEMMA CutForms ==
  ASSUME NEW V, NEW q \in Seq(V)
  PROVE  /\ Cut(q, 1, 0) = q
         /\ \A k \in 1..Len(q) : Cut(q, k, k) = Without(q, k)
         /\ \A m \in 0..Len(q) : /\ Cut(q, 1, m) = [j \in 1..(Len(q) - m) |-> q[j + m]]
                                 /\ Cut(q, 1, m) \in Seq(V) /\ Len(Cut(q, 1, m)) = Len(q) - m
                                 /\ \A j \in 1..(Len(q) - m) : Cut(q, 1, m)[j] = q[j + m]
<1>1. Len(q) \in Nat /\ q = [j \in 1..Len(q) |-> q[j]] /\ \A j \in 1..Len(q) : q[j] \in V
  BY ElementOfSeq, LenProperties
<1>2. Cut(q, 1, 0) = q
  <2>1. Len(q) - (0 + 1 - 1) = Len(q) /\ \A j \in 1..Len(q) : (IF j < 1 THEN j ELSE j + (0 + 1 - 1)) = j
    BY <1>1
  <2>2. Cut(q, 1, 0) = [j \in 1..Len(q) |-> q[j]]
    BY <2>1 DEF Cut
  <2> QED BY <1>1, <2>2
<1>3. ASSUME NEW k \in 1..Len(q) PROVE Cut(q, k, k) = Without(q, k)
  <2>1. k + 1 - k = 1
    BY <1>1
  <2> QED BY <2>1 DEF Cut, Without
<1>4. ASSUME NEW m \in 0..Len(q)
      PROVE  /\ Cut(q, 1, m) = [j \in 1..(Len(q) - m) |-> q[j + m]]
             /\ Cut(q, 1, m) \in Seq(V) /\ Len(Cut(q, 1, m)) = Len(q) - m
             /\ \A j \in 1..(Len(q) - m) : Cut(q, 1, m)[j] = q[j + m]
  <2>1. m + 1 - 1 = m /\ Len(q) - m \in Nat
    BY <1>1
  <2>2. \A j \in 1..(Len(q) - m) : ~(j < 1) /\ j + m \in 1..Len(q)
    BY <1>1
  <2>3. Cut(q, 1, m) = [j \in 1..(Len(q) - m) |-> q[j + m]]
    BY <2>1, <2>2 DEF Cut
  <2>4. Cut(q, 1, m) \in [1..(Len(q) - m) -> V]
    BY <1>1, <2>2, <2>3
  <2>5. Cut(q, 1, m) \in Seq(V) /\ Len(Cut(q, 1, m)) = Len(q) - m
    BY <2>1, <2>4
  <2> QED BY <2>3, <2>5
<1> QED BY <1>2, <1>3, <1>4

\* The suffix and the prefix at m.
LEMMA SubSeqIs ==
  ASSUME NEW V, NEW q \in Seq(V), NEW m \in 0..Len(q)
  PROVE  /\ SubSeq(q, m + 1, Len(q)) = Cut(q, 1, m)
         /\ SubSeq(q, 1, m) \in Seq(V) /\ Len(SubSeq(q, 1, m)) = m
         /\ \A j \in 1..m : SubSeq(q, 1, m)[j] = q[j]
<1> DEFINE N == Len(q)
           c == SubSeq(q, m + 1, N)
           d == SubSeq(q, 1, m)
<1>1. N \in Nat /\ m \in Nat /\ m <= N /\ \A j \in 1..N : q[j] \in V
  BY ElementOfSeq, LenProperties
<1>2. /\ m + 1 \in Int /\ N \in Int /\ m \in Int /\ 1 \in Int
      /\ \A i \in (m + 1)..N : q[i] \in V
      /\ \A i \in 1..m : q[i] \in V
  BY <1>1
<1> HIDE DEF N
<1>3. /\ c \in Seq(V) /\ Len(c) = N - m
      /\ \A j \in 1..(N - m) : c[j] = q[j + m]
  <2>1. /\ c \in Seq(V) /\ Len(c) = IF m + 1 <= N THEN N - (m + 1) + 1 ELSE 0
        /\ \A i \in 1..N - (m + 1) + 1 : c[i] = q[(m + 1) + i - 1]
    BY <1>2, SubSeqProperties
  <2> HIDE DEF c
  <2>2. Len(c) = N - m /\ N - (m + 1) + 1 = N - m
    BY <1>1, <2>1
  <2>3. \A j \in 1..(N - m) : (m + 1) + j - 1 = j + m
    BY <1>1
  <2>4. \A j \in 1..(N - m) : c[j] = q[(m + 1) + j - 1]
    BY <2>1, <2>2
  <2> QED BY <2>1, <2>2, <2>3, <2>4
<1>4. /\ d \in Seq(V) /\ Len(d) = m
      /\ \A j \in 1..m : d[j] = q[j]
  <2>1. /\ d \in Seq(V) /\ Len(d) = IF 1 <= m THEN m - 1 + 1 ELSE 0
        /\ \A i \in 1..m - 1 + 1 : d[i] = q[1 + i - 1]
    BY <1>2, SubSeqProperties
  <2> HIDE DEF d
  <2>2. Len(d) = m /\ m - 1 + 1 = m /\ \A j \in 1..m : 1 + j - 1 = j
    BY <1>1, <2>1
  <2>3. \A j \in 1..m : d[j] = q[1 + j - 1]
    BY <2>1, <2>2
  <2> QED BY <2>1, <2>2, <2>3
<1>5. Cut(q, 1, m) = [j \in 1..(N - m) |-> q[j + m]]
  BY CutForms DEF N
<1> HIDE DEF c
<1>6. c = [j \in 1..(N - m) |-> c[j]]
  BY <1>3, LenProperties, Zenon
<1>7. c = Cut(q, 1, m)
  BY <1>3, <1>5, <1>6
<1> HIDE DEF d
<1>8. d \in Seq(V) /\ Len(d) = m /\ \A j \in 1..m : d[j] = q[j]
  BY <1>4
<1> QED BY <1>7, <1>8 DEF c, d, N

\* Queued puts the new order where rest does.
LEMMA QueuedIs ==
  ASSUME NEW V, NEW q \in Seq(V), NEW s, NEW r \in V, NEW p \in 0..Len(q),
         \A k \in 1..Len(q) : k <= p => ~Better(s, r.tick, q[k].tick),
         \A k \in 1..Len(q) : k > p => Better(s, r.tick, q[k].tick)
  PROVE  Abstract!Queued(q, s, r) = With(q, p, r)
<1> DEFINE N == Len(q)
           a == SubSeq(q, 1, p)
           b == SubSeq(q, p + 1, N)
           e == <<r>>
           A == {i \in 1..N : ~Better(s, r.tick, q[i].tick)}
<1>1. N \in Nat /\ p \in Nat /\ p <= N
  BY LenProperties
<1>2. A = 1..p
  <2>1. 1..p \subseteq 1..N
    BY <1>1
  <2>2. \A i \in 1..N : i \in 1..p <=> i <= p
    BY <1>1
  <2>3. \A i \in 1..N : i <= p \/ i > p
    BY <1>1
  <2> QED BY <2>1, <2>2, <2>3
<1>3. Cardinality(A) = p
  <2>1. Cardinality(1..p) = IF 1 > p THEN 0 ELSE p - 1 + 1
    BY <1>1, FS_Interval
  <2>2. Cardinality(1..p) = p
    BY <1>1, <2>1
  <2> HIDE DEF A
  <2> QED BY <1>2, <2>2
<1>4. Abstract!Queued(q, s, r) = SubSeq(q, 1, (p + 1) - 1) \o e \o SubSeq(q, p + 1, N)
  <2>1. Abstract!Queued(q, s, r) = Abstract!InsertAt(q, Cardinality(A) + 1, r)
    <3>1. Abstract!Cardinality(A) = Cardinality(A)
      BY Zenon DEF Abstract!Cardinality, Cardinality
    <3>2. Abstract!Queued(q, s, r) = Abstract!InsertAt(q, Abstract!Cardinality(A) + 1, r)
      BY Zenon DEF Abstract!Queued, Abstract!Better, Better
    <3> QED BY <3>1, <3>2
  <2>2. Abstract!InsertAt(q, p + 1, r) = SubSeq(q, 1, (p + 1) - 1) \o e \o SubSeq(q, p + 1, N)
    BY Zenon DEF Abstract!InsertAt
  <2> HIDE DEF A
  <2> QED BY <1>3, <2>1, <2>2
<1>5. (p + 1) - 1 = p
  BY <1>1
<1>6. Abstract!Queued(q, s, r) = (a \o e) \o b
  BY <1>4, <1>5
<1>7. a \in Seq(V) /\ Len(a) = p /\ \A j \in 1..p : a[j] = q[j]
  BY SubSeqIs
<1>8. b \in Seq(V) /\ Len(b) = N - p /\ \A j \in 1..(N - p) : b[j] = q[j + p]
  BY SubSeqIs, CutForms
<1>9. e \in Seq(V) /\ Len(e) = 1 /\ e[1] = r
  OBVIOUS
<1> HIDE DEF a, b, e, N, A
<1> DEFINE c == a \o e
           d == c \o b
<1>10. /\ c \in Seq(V) /\ Len(c) = p + 1
       /\ \A i \in 1..(p + 1) : c[i] = IF i <= p THEN a[i] ELSE e[i - p]
  <2>1. /\ c \in Seq(V) /\ Len(c) = Len(a) + Len(e)
        /\ \A i \in 1..Len(a) + Len(e) : c[i] = IF i <= Len(a) THEN a[i] ELSE e[i - Len(a)]
    BY <1>7, <1>9, ConcatProperties, Zenon
  <2> HIDE DEF c
  <2> QED BY <1>7, <1>9, <2>1
<1>11. \A i \in 1..(p + 1) : c[i] = IF i <= p THEN q[i] ELSE r
  <2> HIDE DEF c
  <2> TAKE i \in 1..(p + 1)
  <2>1. CASE i <= p
    <3>1. i \in 1..p
      BY <1>1, <2>1
    <3> QED BY <1>7, <1>10, <2>1, <3>1
  <2>2. CASE ~(i <= p)
    <3>1. i - p = 1
      BY <1>1, <2>2
    <3> QED BY <1>9, <1>10, <2>2, <3>1
  <2> QED BY <2>1, <2>2
<1> HIDE DEF c
<1>12. /\ d \in Seq(V) /\ Len(d) = (p + 1) + (N - p)
       /\ \A i \in 1..((p + 1) + (N - p)) : d[i] = IF i <= p + 1 THEN c[i] ELSE b[i - (p + 1)]
  <2>1. /\ d \in Seq(V) /\ Len(d) = Len(c) + Len(b)
        /\ \A i \in 1..Len(c) + Len(b) : d[i] = IF i <= Len(c) THEN c[i] ELSE b[i - Len(c)]
    BY <1>8, <1>10, ConcatProperties, Zenon
  <2> HIDE DEF d
  <2> QED BY <1>8, <1>10, <2>1
<1> HIDE DEF d
<1>13. (p + 1) + (N - p) = N + 1
  BY <1>1
<1>14. d = [j \in 1..(N + 1) |-> d[j]]
  <2>1. d \in Seq(V) /\ Len(d) = N + 1
    BY <1>12, <1>13
  <2>2. d \in [1..Len(d) -> V]
    BY <2>1, LenProperties
  <2> QED BY <2>1, <2>2
<1>15. \A i \in 1..(N + 1) : d[i] = IF i <= p THEN q[i] ELSE IF i = p + 1 THEN r ELSE q[i - 1]
  <2> TAKE i \in 1..(N + 1)
  <2>1. CASE i <= p + 1
    <3>1. i \in 1..(p + 1) /\ (i <= p \/ i = p + 1)
      BY <1>1, <2>1
    <3>2. i = p + 1 => ~(i <= p)
      BY <1>1
    <3> QED BY <1>11, <1>12, <1>13, <2>1, <3>1, <3>2
  <2>2. CASE ~(i <= p + 1)
    <3>1. /\ i - (p + 1) \in 1..(N - p) /\ (i - (p + 1)) + p = i - 1 /\ ~(i <= p) /\ i # p + 1
      BY <1>1, <2>2
    <3> QED BY <1>8, <1>12, <1>13, <2>2, <3>1
  <2> QED BY <2>1, <2>2
<1>16. With(q, p, r) = [j \in 1..(N + 1) |-> IF j <= p THEN q[j] ELSE IF j = p + 1 THEN r ELSE q[j - 1]]
  BY DEF With, N
<1>17. d = With(q, p, r)
  BY <1>14, <1>15, <1>16
<1> QED BY <1>6, <1>17 DEF c, d

\* Pruned takes the expired orders in front.
LEMMA PrunedIs ==
  ASSUME NEW V, NEW q \in Seq(V), NEW now, NEW m \in 0..Len(q),
         \A i \in 1..m : is_expired(q[i], now),
         m < Len(q) => ~is_expired(q[m + 1], now)
  PROVE  Abstract!Pruned(q, now) = Cut(q, 1, m)
<1> DEFINE N == Len(q)
           T == {i \in 1..N : ~is_expired(q[i], now)} \cup {N + 1}
<1>1. N \in Nat /\ m \in Nat /\ m <= N
  BY LenProperties
<1>2. Abstract!Pruned(q, now) = SubSeq(q, Abstract!Min(T), N)
  BY DEF Abstract!Pruned, Abstract!Expired, is_expired
<1>3. m + 1 \in T /\ \A y \in T : m + 1 <= y
  <2>1. m + 1 \in T
    <3>1. CASE m < N
      <4>1. m + 1 \in 1..N
        BY <1>1, <3>1
      <4> QED BY <3>1, <4>1
    <3>2. CASE m = N
      BY <3>2
    <3> QED BY <1>1, <3>1, <3>2
  <2>2. ASSUME NEW y \in T PROVE m + 1 <= y
    <3>1. CASE y = N + 1
      BY <1>1, <3>1
    <3>2. CASE y \in 1..N /\ ~is_expired(q[y], now)
      <4>1. y \notin 1..m
        BY <3>2
      <4> HIDE DEF N, T
      <4> QED BY <1>1, <3>2, <4>1
    <3> QED BY <3>1, <3>2
  <2> QED BY <2>1, <2>2
<1>4. T \subseteq Int
  BY <1>1
<1> HIDE DEF T, N
<1>5. Abstract!Min(T) = m + 1
  <2>1. Abstract!Min(T) = CHOOSE x \in T : \A y \in T : x <= y
    BY Zenon DEF Abstract!Min
  <2>2. PICK x : x = Abstract!Min(T)
    OBVIOUS
  <2>3. x \in T /\ \A y \in T : x <= y
    BY <1>3, <2>1, <2>2
  <2>4. x <= m + 1 /\ m + 1 <= x /\ x \in Int
    BY <1>3, <1>4, <2>3
  <2> QED BY <1>1, <2>2, <2>4
<1> QED BY <1>2, <1>5, SubSeqIs DEF N

\* The loop of submit has gone past the first m positions of q and taken d of
\* the next one: C is left of the queue and rem of the order.
Swath(q, C, o, rem, m, d) ==
  /\ m \in 0..Len(q) /\ d \in Nat /\ rem \in Nat
  /\ C \in Seq(Resting) /\ Len(C) = Len(q) - m
  /\ \A j \in 1..Len(C) : C[j] = IF j = 1 THEN [q[m + 1] EXCEPT !.qty = @ - d] ELSE q[m + j]
  /\ \A i \in 1..m : Hit(q, o, i) /\ Before(q, o, i - 1) < o.qty
  /\ rem = o.qty - Before(q, o, m) - d
  /\ d # 0 => m < Len(q) /\ Hit(q, o, m + 1) /\ Good(q, o, m + 1) /\ rem = 0 /\ d < q[m + 1].qty

\* The loop starts past nothing.
LEMMA SwathStart ==
  ASSUME NEW q \in Seq(Resting), NEW o, o.qty \in Nat
  PROVE  Swath(q, q, o, o.qty, 0, 0)
<1>1. Len(q) \in Nat /\ \A i \in 1..Len(q) : q[i] \in Resting /\ q[i].qty \in Nat
  BY QueueFields
<1>2. Before(q, o, 0) = 0 /\ 0 \in 0..Len(q)
  <2>1. 0 \in 0..Len(q)
    BY <1>1
  <2> QED BY <2>1, BeforeNext
<1>3. \A j \in 1..Len(q) : q[j] = IF j = 1 THEN [q[0 + 1] EXCEPT !.qty = @ - 0] ELSE q[0 + j]
  <2> TAKE j \in 1..Len(q)
  <2>1. 0 + 1 = 1 /\ 0 + j = j
    BY <1>1
  <2>2. ASSUME j = 1 PROVE [q[1] EXCEPT !.qty = @ - 0] = q[1]
    <3>1. q[1] \in Resting /\ q[1].qty - 0 = q[1].qty
      BY <1>1, <2>2
    <3> QED BY <3>1 DEF Resting
  <2> QED BY <2>1, <2>2
<1>4. 1..0 = {} /\ o.qty = o.qty - 0 - 0 /\ Len(q) = Len(q) - 0
  BY <1>1
<1> QED BY <1>2, <1>3, <1>4 DEF Swath

\* The first of what is left, and how the sums go on.
LEMMA SwathHead ==
  ASSUME NEW q \in Seq(Resting), NEW o, o.qty \in Nat, NEW C, NEW rem, NEW m, Swath(q, C, o, rem, m, 0),
         Len(C) # 0
  PROVE  /\ m + 1 \in 1..Len(q) /\ m < Len(q) /\ m \in Nat /\ Len(q) \in Nat /\ 1 \in 1..Len(C)
         /\ C[1] = q[m + 1] /\ (Hit(C, o, 1) <=> Hit(q, o, m + 1)) /\ (Good(C, o, 1) <=> Good(q, o, m + 1))
         /\ \A j \in 1..Len(C) : m + j \in 1..Len(q) /\ C[j] = q[m + j]
         /\ Before(q, o, m) \in Nat /\ rem = o.qty - Before(q, o, m)
         /\ Before(q, o, m + 1) = Before(q, o, m) + (IF Hit(q, o, m + 1) /\ Good(q, o, m + 1) THEN q[m + 1].qty ELSE 0)
         /\ q[m + 1].qty \in Nat \ {0}
<1>1. m \in 0..Len(q) /\ Len(C) = Len(q) - m /\ Len(q) \in Nat
  BY QueueFields DEF Swath
<1>2. m + 1 \in 1..Len(q) /\ m < Len(q) /\ m \in Nat /\ 1 \in 1..Len(C)
  BY <1>1
<1>3. \A i \in 1..Len(q) : q[i] \in Resting /\ q[i].qty \in Nat \ {0}
  BY QueueFields
<1>4. [q[m + 1] EXCEPT !.qty = @ - 0] = q[m + 1]
  <2>1. q[m + 1] \in Resting /\ q[m + 1].qty - 0 = q[m + 1].qty
    BY <1>2, <1>3
  <2> QED BY <2>1 DEF Resting
<1>5. \A j \in 1..Len(C) : m + j \in 1..Len(q) /\ C[j] = q[m + j]
  <2> TAKE j \in 1..Len(C)
  <2>1. m + j \in 1..Len(q)
    BY <1>1
  <2> QED BY <1>4, <2>1 DEF Swath
<1>6. C[1] = q[m + 1]
  BY <1>2, <1>5
<1>7. /\ Before(q, o, m) \in Nat
      /\ Before(q, o, m + 1) = Before(q, o, m) + Gives(q, o)[m + 1]
  BY <1>1, <1>2, BeforeNext
<1>8. rem = o.qty - Before(q, o, m)
  BY <1>7 DEF Swath
<1>9. Gives(q, o)[m + 1] = IF Hit(q, o, m + 1) /\ Good(q, o, m + 1) THEN q[m + 1].qty ELSE 0
  BY <1>2, QueueFields
<1> QED BY <1>1, <1>2, <1>3, <1>5, <1>6, <1>7, <1>8, <1>9 DEF Hit, Good

\* The head goes, filled or skipped.
LEMMA SwathNext ==
  ASSUME NEW q \in Seq(Resting), NEW o, o.qty \in Nat, NEW C, NEW rem, NEW m, NEW d, Swath(q, C, o, rem, m, d),
         rem > 0, Len(C) # 0, Hit(C, o, 1), Good(C, o, 1) => C[1].qty <= rem,
         NEW left, left = IF Good(C, o, 1) THEN rem - C[1].qty ELSE rem
  PROVE  Swath(q, Without(C, 1), o, left, m + 1, 0)
<1>1. d = 0 /\ rem \in Nat /\ C \in Seq(Resting) /\ Len(C) = Len(q) - m
  BY DEF Swath
<1>2. /\ m + 1 \in 1..Len(q) /\ m < Len(q) /\ m \in Nat /\ Len(q) \in Nat
      /\ C[1] = q[m + 1] /\ Hit(q, o, m + 1) /\ (Good(C, o, 1) <=> Good(q, o, m + 1))
      /\ \A j \in 1..Len(C) : m + j \in 1..Len(q) /\ C[j] = q[m + j]
      /\ Before(q, o, m) \in Nat /\ rem = o.qty - Before(q, o, m)
      /\ Before(q, o, m + 1) = Before(q, o, m) + (IF Good(q, o, m + 1) THEN q[m + 1].qty ELSE 0)
      /\ q[m + 1].qty \in Nat \ {0}
  BY <1>1, SwathHead
<1> DEFINE E == Without(C, 1)
<1>3. /\ E = [j \in 1..(Len(C) - 1) |-> C[IF j < 1 THEN j ELSE j + 1]]
      /\ Len(C) - 1 = Len(q) - (m + 1) /\ Len(C) - 1 \in Nat
  BY <1>1, <1>2 DEF Without
<1>4. /\ Len(E) = Len(q) - (m + 1)
      /\ \A j \in 1..(Len(C) - 1) : j + 1 \in 1..Len(C) /\ E[j] = C[j + 1]
  <2>1. \A j \in 1..(Len(C) - 1) : j + 1 \in 1..Len(C) /\ ~(j < 1)
    BY <1>3
  <2> QED BY <1>3, <2>1
<1>5. E \in Seq(Resting)
  <2>1. \A j \in 1..Len(C) : C[j] \in Resting
    BY <1>1, ElementOfSeq
  <2>2. \A j \in 1..(Len(C) - 1) : E[j] \in Resting
    BY <1>4, <2>1
  <2>3. E = [j \in 1..(Len(C) - 1) |-> E[j]]
    BY <1>3
  <2> HIDE DEF E
  <2>4. PICK K : K = Len(C) - 1
    OBVIOUS
  <2>5. E \in [1..K -> Resting] /\ K \in Nat
    BY <1>3, <2>2, <2>3, <2>4
  <2> QED BY <2>5
<1>6. \A j \in 1..Len(E) : E[j] = IF j = 1 THEN [q[(m + 1) + 1] EXCEPT !.qty = @ - 0] ELSE q[(m + 1) + j]
  <2> TAKE j \in 1..Len(E)
  <2>1. j \in 1..(Len(C) - 1) /\ j + 1 \in 1..Len(C) /\ m + (j + 1) = (m + 1) + j
    <3>1. j \in 1..(Len(C) - 1) /\ j + 1 \in 1..Len(C)
      BY <1>3, <1>4
    <3> QED BY <1>2, <3>1
  <2>2. E[j] = q[(m + 1) + j] /\ (m + 1) + j \in 1..Len(q)
    <3>1. E[j] = C[j + 1]
      BY <1>4, <2>1
    <3>2. C[j + 1] = q[m + (j + 1)] /\ m + (j + 1) \in 1..Len(q)
      BY <1>2, <2>1
    <3> QED BY <2>1, <3>1, <3>2
  <2>3. ASSUME j = 1 PROVE [q[(m + 1) + 1] EXCEPT !.qty = @ - 0] = q[(m + 1) + 1]
    <3>1. PICK x : x = q[(m + 1) + 1]
      OBVIOUS
    <3>2. x \in Resting /\ x.qty \in Nat
      BY <2>2, <2>3, <3>1, QueueFields
    <3>3. [x EXCEPT !.qty = @ - 0] = x
      <4>1. x.qty - 0 = x.qty
        BY <3>2
      <4> QED BY <3>2, <4>1 DEF Resting
    <3> QED BY <3>1, <3>3
  <2> QED BY <2>2, <2>3
<1>7. \A i \in 1..(m + 1) : Hit(q, o, i) /\ Before(q, o, i - 1) < o.qty
  <2> TAKE i \in 1..(m + 1)
  <2>1. CASE i = m + 1
    <3>1. i - 1 = m
      BY <1>2, <2>1
    <3> QED BY <1>2, <2>1, <3>1
  <2>2. CASE i # m + 1
    <3>1. i \in 1..m
      BY <1>2, <2>2
    <3> QED BY <3>1 DEF Swath
  <2> QED BY <2>1, <2>2
<1>8. left \in Nat /\ left = o.qty - Before(q, o, m + 1) - 0
  <2>1. PICK b, c, x : b = Before(q, o, m) /\ c = Before(q, o, m + 1) /\ x = q[m + 1].qty
    OBVIOUS
  <2>2. /\ b \in Nat /\ x \in Nat /\ rem = o.qty - b /\ c = b + (IF Good(C, o, 1) THEN x ELSE 0)
        /\ Good(C, o, 1) => x <= rem
        /\ left = IF Good(C, o, 1) THEN rem - x ELSE rem
    BY <1>2, <2>1
  <2>3. left \in Nat /\ left = o.qty - c - 0
    <3>1. CASE Good(C, o, 1)
      BY <1>1, <2>2, <3>1
    <3>2. CASE ~Good(C, o, 1)
      BY <1>1, <2>2, <3>2
    <3> QED BY <3>1, <3>2
  <2> QED BY <2>1, <2>3
<1>9. m + 1 \in 0..Len(q)
  BY <1>2
<1> HIDE DEF E
<1>10. Swath(q, E, o, left, m + 1, 0)
  BY <1>4, <1>5, <1>6, <1>7, <1>8, <1>9 DEF Swath
<1> QED BY <1>10 DEF E

\* The head is taken in part, and the order is exhausted.
LEMMA SwathPart ==
  ASSUME NEW q \in Seq(Resting), NEW o, o.qty \in Nat, NEW C, NEW rem, NEW m, NEW d, Swath(q, C, o, rem, m, d),
         rem > 0, Len(C) # 0, Hit(C, o, 1), Good(C, o, 1), C[1].qty > rem
  PROVE  Swath(q, [C EXCEPT ![1].qty = @ - rem], o, 0, m, rem)
<1>1. /\ d = 0 /\ rem \in Nat /\ C \in Seq(Resting) /\ Len(C) = Len(q) - m /\ m \in 0..Len(q)
      /\ \A i \in 1..m : Hit(q, o, i) /\ Before(q, o, i - 1) < o.qty
  BY DEF Swath
<1>2. /\ m + 1 \in 1..Len(q) /\ m < Len(q) /\ m \in Nat /\ Len(q) \in Nat /\ 1 \in 1..Len(C)
      /\ C[1] = q[m + 1] /\ Hit(q, o, m + 1) /\ Good(q, o, m + 1)
      /\ \A j \in 1..Len(C) : m + j \in 1..Len(q) /\ C[j] = q[m + j]
      /\ Before(q, o, m) \in Nat /\ rem = o.qty - Before(q, o, m)
      /\ q[m + 1].qty \in Nat \ {0}
  <2>1. Swath(q, C, o, rem, m, 0)
    BY <1>1
  <2>2. /\ m + 1 \in 1..Len(q) /\ m < Len(q) /\ m \in Nat /\ Len(q) \in Nat /\ 1 \in 1..Len(C)
        /\ C[1] = q[m + 1] /\ (Hit(C, o, 1) <=> Hit(q, o, m + 1)) /\ (Good(C, o, 1) <=> Good(q, o, m + 1))
        /\ \A j \in 1..Len(C) : m + j \in 1..Len(q) /\ C[j] = q[m + j]
        /\ Before(q, o, m) \in Nat /\ rem = o.qty - Before(q, o, m)
        /\ q[m + 1].qty \in Nat \ {0}
    BY <2>1, SwathHead
  <2> QED BY <2>2
<1> DEFINE x == [C[1] EXCEPT !.qty = @ - rem]
           E == [C EXCEPT ![1] = x]
<1>3. x \in Resting /\ x = [q[m + 1] EXCEPT !.qty = @ - rem]
  <2>1. C[1] \in Resting /\ C[1].qty - rem \in Nat \ {0}
    <3>1. C[1] \in Resting
      BY <1>1, <1>2, ElementOfSeq
    <3> QED BY <1>1, <1>2, <3>1
  <2> QED BY <1>2, <2>1 DEF Resting
<1> HIDE DEF x
<1>4. E \in Seq(Resting) /\ Len(E) = Len(C) /\ E[1] = x /\ \A j \in 1..Len(C) : j # 1 => E[j] = C[j]
  BY <1>1, <1>2, <1>3
<1> HIDE DEF E
<1>5. \A j \in 1..Len(E) : E[j] = IF j = 1 THEN [q[m + 1] EXCEPT !.qty = @ - rem] ELSE q[m + j]
  BY <1>2, <1>3, <1>4
<1>6. 0 = o.qty - Before(q, o, m) - rem /\ rem < q[m + 1].qty
  BY <1>1, <1>2
<1>7. Swath(q, E, o, 0, m, rem)
  BY <1>1, <1>2, <1>4, <1>5, <1>6 DEF Swath
<1> QED BY <1>7 DEF E, x

\* The smaller of two.
LEMMA LesserOf ==
  ASSUME NEW x \in Int, NEW y \in Int
  PROVE  Abstract!Min({x, y}) = IF x <= y THEN x ELSE y
<1>1. Abstract!Min({x, y}) = CHOOSE z \in {x, y} : \A v \in {x, y} : z <= v
  BY Zenon DEF Abstract!Min
<1>2. \E z \in {x, y} : \A v \in {x, y} : z <= v
  BY x <= y \/ y <= x
<1>3. PICK z : z = CHOOSE w \in {x, y} : \A v \in {x, y} : w <= v
  OBVIOUS
<1>4. z \in {x, y} /\ \A v \in {x, y} : z <= v
  BY <1>2, <1>3
<1> QED BY <1>1, <1>3, <1>4

\* What the sweep leaves at a position.
LEMMA LeftIs ==
  ASSUME NEW q \in Seq(Resting), NEW o, o.qty \in Nat, NEW i \in 1..Len(q)
  PROVE  Abstract!LeftAt(q, o, i) =
           IF Hit(q, o, i) /\ Before(q, o, i - 1) < o.qty
           THEN IF ~Good(q, o, i) THEN 0
                ELSE IF Before(q, o, i - 1) + q[i].qty <= o.qty THEN 0
                ELSE q[i].qty - (o.qty - Before(q, o, i - 1))
           ELSE q[i].qty
<1>1. PICK b : b = Before(q, o, i - 1)
  OBVIOUS
<1>2. i - 1 \in 0..Len(q) /\ q[i].qty \in Nat
  <2>1. Len(q) \in Nat
    BY QueueFields
  <2> QED BY <2>1, QueueFields
<1>3. b \in Nat
  BY <1>1, <1>2, BeforeNext
<1>4. Abstract!Ahead(q, o, i) = b
  BY <1>1, AheadIs
<1>5. Abstract!Reached(q, o, i) <=> Hit(q, o, i) /\ b < o.qty
  BY <1>4, SameNames DEF Abstract!Reached
<1>6. Abstract!Eligible(q, o, i) <=> Good(q, o, i)
  BY SameNames
<1>7. Abstract!Min({q[i].qty, o.qty - b}) = IF q[i].qty <= o.qty - b THEN q[i].qty ELSE o.qty - b
  BY <1>2, <1>3, LesserOf
<1>8. Abstract!Taken(q, o, i) = IF Hit(q, o, i) /\ b < o.qty /\ Good(q, o, i)
                                THEN IF q[i].qty <= o.qty - b THEN q[i].qty ELSE o.qty - b ELSE 0
  BY <1>4, <1>5, <1>6, <1>7 DEF Abstract!Taken
<1>9. Abstract!LeftAt(q, o, i) = IF Hit(q, o, i) /\ b < o.qty /\ ~Good(q, o, i) THEN 0
                                 ELSE q[i].qty - Abstract!Taken(q, o, i)
  BY <1>5, <1>6 DEF Abstract!LeftAt
<1> QED BY <1>1, <1>2, <1>3, <1>8, <1>9

\* The orders of a queue of side s stand by priority.
Sorted(q, s) == \A j, k \in 1..Len(q) : j < k => ~Better(s, q[k].tick, q[j].tick)

\* Behind an order that does not cross, none does.
LEMMA HitsFirst ==
  ASSUME NEW q \in Seq(Resting), NEW o, o.side \in Sides, o.tick \in Nat, Sorted(q, opposite_side(o.side)),
         NEW i \in 1..Len(q), ~Hit(q, o, i), NEW k \in 1..Len(q), i <= k
  PROVE  ~Hit(q, o, k)
<1>1. Len(q) \in Nat /\ q[i].tick \in Nat /\ q[k].tick \in Nat
  <2>1. q[i].tick \in Ticks /\ q[k].tick \in Ticks
    BY QueueFields
  <2> QED BY <2>1, BookAssumption DEF Ticks
<1>2. i = k \/ i < k
  BY <1>1
<1>3. i < k => ~Better(opposite_side(o.side), q[k].tick, q[i].tick)
  BY DEF Sorted
<1> QED BY <1>1, <1>2, <1>3 DEF Hit, Crosses, Better, opposite_side, Sides

\* When the loop ends, what is left is what the sweep leaves, and it has filled
\* what the sweep fills.
LEMMA SwathLeft ==
  ASSUME NEW q \in Seq(Resting), NEW o, o.qty \in Nat, NEW C, NEW rem, NEW m, NEW d, Swath(q, C, o, rem, m, d),
         rem # 0 => \A i \in 1..Len(q) : i > m => ~Hit(q, o, i)
  PROVE  \A i \in 1..Len(q) :
           Abstract!LeftAt(q, o, i) = IF i <= m THEN 0 ELSE IF i = m + 1 THEN q[i].qty - d ELSE q[i].qty
<1> DEFINE N == Len(q)
<1>1. N \in Nat /\ m \in 0..N /\ m \in Nat /\ d \in Nat /\ rem \in Nat
  BY QueueFields DEF Swath
<1>2. PICK bm : bm = Before(q, o, m) /\ bm \in Nat
  BY <1>1, BeforeNext
<1>3. /\ rem = o.qty - bm - d
      /\ d # 0 => m < N /\ Hit(q, o, m + 1) /\ Good(q, o, m + 1) /\ rem = 0 /\ d < q[m + 1].qty
      /\ \A i \in 1..m : Hit(q, o, i) /\ Before(q, o, i - 1) < o.qty
  BY <1>2 DEF Swath
<1> SUFFICES ASSUME NEW i \in 1..N
             PROVE  Abstract!LeftAt(q, o, i) =
                      IF i <= m THEN 0 ELSE IF i = m + 1 THEN q[i].qty - d ELSE q[i].qty
  OBVIOUS
<1>4. PICK b, x : /\ b = Before(q, o, i - 1) /\ x = q[i].qty
  OBVIOUS
<1>5. i - 1 \in 0..N /\ i \in Nat /\ b \in Nat /\ x \in Nat
  <2>1. i - 1 \in 0..N /\ i \in Nat
    BY <1>1
  <2> QED BY <2>1, <1>4, BeforeNext, QueueFields
<1>6. Abstract!LeftAt(q, o, i) = IF Hit(q, o, i) /\ b < o.qty
                                 THEN IF ~Good(q, o, i) THEN 0
                                      ELSE IF b + x <= o.qty THEN 0 ELSE x - (o.qty - b)
                                 ELSE x
  BY <1>4, LeftIs
<1>7. i < N + 1 /\ (Hit(q, o, i) /\ Good(q, o, i) => Before(q, o, i) = b + x)
  <2>1. i - 1 < N /\ (i - 1) + 1 = i
    BY <1>1
  <2>2. Before(q, o, (i - 1) + 1) = Before(q, o, i - 1) + Gives(q, o)[(i - 1) + 1]
    BY <1>5, <2>1, BeforeNext
  <2>3. Before(q, o, i) = b + Gives(q, o)[i]
    BY <1>4, <2>1, <2>2
  <2>4. Hit(q, o, i) /\ Good(q, o, i) => Gives(q, o)[i] = x
    BY <1>4, QueueFields
  <2> QED BY <1>1, <2>3, <2>4
<1>8. CASE i <= m
  <2>1. i \in 1..m /\ i \in 0..N
    BY <1>1, <1>8
  <2>2. Hit(q, o, i) /\ b < o.qty
    BY <1>3, <1>4, <2>1
  <2>3. Before(q, o, i) <= bm
    BY <1>1, <1>2, <1>8, <2>1, BeforeGrows
  <2>4. bm <= o.qty
    BY <1>1, <1>2, <1>3
  <2>5. Good(q, o, i) => b + x <= o.qty
    BY <1>2, <1>5, <1>7, <2>2, <2>3, <2>4
  <2> QED BY <1>6, <1>8, <2>2, <2>5
<1>9. CASE i = m + 1
  <2>1. b = bm /\ ~(i <= m)
    <3>1. i - 1 = m
      BY <1>1, <1>9
    <3> QED BY <1>1, <1>2, <1>4, <1>9, <3>1
  <2>2. CASE d # 0
    <3>1. Hit(q, o, i) /\ Good(q, o, i) /\ rem = 0 /\ d < x
      BY <1>3, <1>4, <1>9, <2>2
    <3>2. b < o.qty /\ ~(b + x <= o.qty) /\ x - (o.qty - b) = x - d
      <4>1. PICK oq : oq = o.qty
        OBVIOUS
      <4>2. oq \in Nat /\ 0 = oq - b - d /\ d \in Nat /\ d # 0 /\ d < x /\ b \in Nat /\ x \in Nat
        BY <1>1, <1>3, <1>5, <2>1, <2>2, <3>1, <4>1
      <4>3. b < oq /\ ~(b + x <= oq) /\ x - (oq - b) = x - d
        BY <4>2
      <4> QED BY <4>1, <4>3
    <3> QED BY <1>4, <1>6, <1>9, <2>1, <3>1, <3>2
  <2>3. CASE d = 0
    <3>1. rem = 0 => ~(b < o.qty)
      BY <1>1, <1>2, <1>3, <2>1, <2>3
    <3>2. rem # 0 => ~Hit(q, o, i)
      BY <1>1, <1>9
    <3>3. x - d = x
      BY <1>5, <2>3
    <3> QED BY <1>4, <1>6, <1>9, <2>1, <3>1, <3>2, <3>3
  <2> QED BY <2>2, <2>3
<1>10. CASE i > m + 1
  <2>1. i > m /\ ~(i <= m) /\ i # m + 1 /\ m + 1 \in 0..N /\ m + 1 <= i - 1 /\ m <= i - 1 /\ m < N /\ m + 1 \in 1..N
    BY <1>1, <1>5, <1>10
  <2>2. rem # 0 => ~Hit(q, o, i)
    BY <2>1
  <2>3. CASE rem = 0
    <3>1. Before(q, o, m + 1) <= b
      BY <1>4, <1>5, <2>1, BeforeGrows
    <3>2. Before(q, o, m + 1) = bm + Gives(q, o)[m + 1] /\ Gives(q, o)[m + 1] \in Nat
      BY <1>1, <1>2, <2>1, BeforeNext, QueueFields
    <3>3. d # 0 => Gives(q, o)[m + 1] = q[m + 1].qty /\ q[m + 1].qty \in Nat
      BY <1>3, <2>1, QueueFields
    <3>4. PICK g : g = Gives(q, o)[m + 1]
      OBVIOUS
    <3>5. g \in Nat /\ d <= g /\ bm + g <= b
      <4>1. CASE d # 0
        <5>1. g = q[m + 1].qty /\ g \in Nat /\ d < q[m + 1].qty
          BY <1>3, <3>3, <3>4, <4>1
        <5> QED BY <1>1, <3>1, <3>2, <3>4, <5>1
      <4>2. CASE d = 0
        BY <3>1, <3>2, <3>4, <4>2
      <4> QED BY <4>1, <4>2
    <3>6. ~(b < o.qty)
      BY <1>1, <1>2, <1>3, <1>5, <2>3, <3>5
    <3> QED BY <1>4, <1>6, <2>1, <3>6
  <2> QED BY <1>4, <1>6, <2>1, <2>2, <2>3
<1>11. i <= m \/ i = m + 1 \/ i > m + 1
  BY <1>1, <1>5
<1> QED BY <1>8, <1>9, <1>10, <1>11

\* So the loop ends with the sweep's queue and the sweep's fill.
LEMMA SwathEnd ==
  ASSUME NEW q \in Seq(Resting), NEW o, o.qty \in Nat, o.side \in Sides, o.tick \in Nat,
         Sorted(q, opposite_side(o.side)), NEW C, NEW rem, NEW m, NEW d, Swath(q, C, o, rem, m, d),
         rem = 0 \/ Len(C) = 0 \/ ~Hit(C, o, 1)
  PROVE  /\ Abstract!Swept(q, o) = C
         /\ Abstract!Min({o.qty, Abstract!Available(q, o)}) = o.qty - rem
<1> DEFINE N == Len(q)
<1>1. /\ N \in Nat /\ m \in 0..N /\ m \in Nat /\ d \in Nat /\ rem \in Nat /\ C \in Seq(Resting) /\ Len(C) = N - m
      /\ \A i \in 1..N : q[i] \in Resting /\ q[i].qty \in Nat \ {0}
  <2>1. N \in Nat /\ \A i \in 1..N : q[i] \in Resting /\ q[i].qty \in Nat \ {0}
    BY QueueFields
  <2>2. m \in 0..N /\ d \in Nat /\ rem \in Nat /\ C \in Seq(Resting) /\ Len(C) = N - m
    BY DEF Swath
  <2> QED BY <2>1, <2>2
<1>2. PICK bm : bm = Before(q, o, m) /\ bm \in Nat
  BY <1>1, BeforeNext
<1>3. /\ rem = o.qty - bm - d
      /\ d # 0 => m < N /\ Hit(q, o, m + 1) /\ Good(q, o, m + 1) /\ rem = 0 /\ d < q[m + 1].qty
      /\ \A j \in 1..Len(C) : C[j] = IF j = 1 THEN [q[m + 1] EXCEPT !.qty = @ - d] ELSE q[m + j]
  BY <1>2 DEF Swath
<1>4. ASSUME rem # 0, NEW i \in 1..N, i > m PROVE ~Hit(q, o, i)
  <2>1. d = 0 /\ Len(C) # 0
    BY <1>1, <1>3, <1>4
  <2>2. m + 1 \in 1..N /\ (Hit(C, o, 1) <=> Hit(q, o, m + 1))
    BY <2>1, SwathHead
  <2>3. ~Hit(q, o, m + 1) /\ m + 1 <= i
    BY <1>1, <1>4, <2>1, <2>2
  <2> QED BY <2>2, <2>3, HitsFirst
<1>5. \A i \in 1..N :
        Abstract!LeftAt(q, o, i) = IF i <= m THEN 0 ELSE IF i = m + 1 THEN q[i].qty - d ELSE q[i].qty
  BY <1>4, SwathLeft
<1>6. Abstract!Swept(q, o) = C
  <2> DEFINE f == [i \in 1..N |-> [q[i] EXCEPT !.qty = Abstract!LeftAt(q, o, i)]]
             S == {i \in 1..N : Abstract!LeftAt(q, o, i) > 0}
             V == {f[i] : i \in 1..N}
  <2>1. Abstract!Swept(q, o) = Abstract!Kept(f, S)
    BY Zenon DEF Abstract!Swept
  <2>2. f \in Seq(V) /\ Len(f) = N
    <3>1. f = [i \in 1..N |-> f[i]] /\ \A i \in 1..N : f[i] \in V
      OBVIOUS
    <3>2. PICK K : K = N
      OBVIOUS
    <3> HIDE DEF f, V
    <3>3. f \in [1..K -> V] /\ K \in Nat
      BY <1>1, <3>1, <3>2
    <3>4. f \in Seq(V) /\ Len(f) = K
      BY <3>3
    <3> QED BY <3>2, <3>4
  <2>3. S = {i \in 1..N : i < 1 \/ i > m}
    <3> SUFFICES ASSUME NEW i \in 1..N PROVE Abstract!LeftAt(q, o, i) > 0 <=> i < 1 \/ i > m
      OBVIOUS
    <3>1. q[i].qty \in Nat \ {0} /\ i \in Nat /\ ~(i < 1)
      BY <1>1
    <3>2. CASE i <= m
      <4>1. Abstract!LeftAt(q, o, i) = 0
        BY <1>5, <3>2
      <4> QED BY <1>1, <3>1, <3>2, <4>1
    <3>3. CASE i = m + 1
      <4>1. Abstract!LeftAt(q, o, i) = q[i].qty - d /\ i > m
        BY <1>1, <1>5, <3>3
      <4>2. q[i].qty - d > 0
        BY <1>1, <1>3, <3>1, <3>3
      <4> QED BY <4>1, <4>2
    <3>4. CASE i > m + 1
      <4>1. Abstract!LeftAt(q, o, i) = q[i].qty /\ i > m
        BY <1>1, <1>5, <3>1, <3>4
      <4> QED BY <3>1, <4>1
    <3> QED BY <1>1, <3>1, <3>2, <3>3, <3>4
  <2>4. 1 \in 1..(Len(f) + 1) /\ m \in (1 - 1)..Len(f)
    BY <1>1, <2>2
  <2>5. \A j \in 1..(N - m) : f[j + m] = C[j]
    <3> SUFFICES ASSUME NEW j \in 1..(N - m) PROVE f[j + m] = C[j]
      OBVIOUS
    <3>1. j + m \in 1..N /\ j \in 1..Len(C) /\ m + j = j + m /\ ~(j + m <= m)
          /\ (j + m = m + 1 <=> j = 1)
      BY <1>1
    <3>2. PICK i : i = j + m
      OBVIOUS
    <3>3. f[i] = [q[i] EXCEPT !.qty = Abstract!LeftAt(q, o, i)]
      BY <3>1, <3>2
    <3>4. Abstract!LeftAt(q, o, i) = IF j = 1 THEN q[i].qty - d ELSE q[i].qty
      BY <1>5, <3>1, <3>2
    <3>5. CASE j = 1
      <4>1. i = m + 1
        BY <3>1, <3>2, <3>5
      <4>2. C[j] = [q[i] EXCEPT !.qty = @ - d]
        BY <1>3, <3>1, <3>5, <4>1
      <4> HIDE DEF f
      <4> QED BY <3>2, <3>3, <3>4, <3>5, <4>2
    <3>6. CASE j # 1
      <4>1. C[j] = q[i]
        BY <1>3, <3>1, <3>2, <3>6
      <4>2. q[i] \in Resting
        BY <1>1, <3>1, <3>2
      <4>3. [q[i] EXCEPT !.qty = q[i].qty] = q[i]
        BY <4>2 DEF Resting
      <4> HIDE DEF f
      <4> QED BY <3>2, <3>3, <3>4, <3>6, <4>1, <4>3
    <3> QED BY <3>5, <3>6
  <2> HIDE DEF f, S, V
  <2>6. S = {i \in 1..Len(f) : i < 1 \/ i > m}
    BY <2>2, <2>3
  <2>7. Abstract!Kept(f, S) = Cut(f, 1, m)
    BY <2>2, <2>4, <2>6, KeptIs
  <2>8. Cut(f, 1, m) = [j \in 1..(N - m) |-> f[j + m]]
    BY <1>1, <2>2, CutForms
  <2>9. C = [j \in 1..(N - m) |-> C[j]]
    BY <1>1, LenProperties, Zenon
  <2> HIDE DEF N
  <2> QED BY <2>1, <2>5, <2>7, <2>8, <2>9
<1>7. Abstract!Min({o.qty, Abstract!Available(q, o)}) = o.qty - rem
  <2>1. PICK a : a = Before(q, o, N)
    OBVIOUS
  <2>2. Abstract!Available(q, o) = a
    BY <2>1, AheadIs
  <2>3. a \in Nat /\ bm <= a
    <3>1. N \in 0..N /\ m <= N
      BY <1>1
    <3> QED BY <1>1, <1>2, <2>1, <3>1, BeforeNext, BeforeGrows
  <2>4. Abstract!Min({o.qty, a}) = IF o.qty <= a THEN o.qty ELSE a
    BY <2>3, LesserOf
  <2>5. CASE rem = 0
    <3>1. o.qty <= a
      <4>1. CASE d = 0
        BY <1>1, <1>2, <1>3, <2>3, <2>5, <4>1
      <4>2. CASE d # 0
        <5>1. m < N /\ m + 1 \in 1..N /\ m + 1 \in 0..N /\ m + 1 <= N /\ N \in 0..N
          BY <1>1, <1>3, <4>2
        <5>2. Before(q, o, m + 1) = bm + q[m + 1].qty
          <6>1. Before(q, o, m + 1) = bm + Gives(q, o)[m + 1]
            BY <1>1, <1>2, <5>1, BeforeNext
          <6>2. Gives(q, o)[m + 1] = q[m + 1].qty
            BY <1>3, <4>2, <5>1, QueueFields
          <6> QED BY <6>1, <6>2
        <5>3. Before(q, o, m + 1) <= a
          BY <2>1, <5>1, BeforeGrows
        <5>4. q[m + 1].qty \in Nat /\ d < q[m + 1].qty
          BY <1>1, <1>3, <4>2, <5>1
        <5>5. PICK oq, x : oq = o.qty /\ x = q[m + 1].qty
          OBVIOUS
        <5>6. /\ oq \in Nat /\ x \in Nat /\ d \in Nat /\ bm \in Nat /\ a \in Nat
              /\ d < x /\ bm + x <= a /\ 0 = oq - bm - d
          BY <1>1, <1>2, <1>3, <2>3, <2>5, <5>2, <5>3, <5>4, <5>5
        <5>7. oq <= a
          BY <5>6
        <5> QED BY <5>5, <5>7
      <4> QED BY <4>1, <4>2
    <3> QED BY <2>2, <2>4, <2>5, <3>1
  <2>6. CASE rem # 0
    <3>1. a = bm
      BY <1>1, <1>2, <1>4, <2>1, <2>6, BeforeStops
    <3>2. d = 0
      BY <1>3, <2>6
    <3>3. ~(o.qty <= a) /\ o.qty - rem = a
      <4>1. PICK oq : oq = o.qty
        OBVIOUS
      <4>2. oq \in Nat /\ rem \in Nat /\ rem # 0 /\ a \in Nat /\ rem = oq - a - 0
        BY <1>1, <1>2, <1>3, <2>6, <3>1, <3>2, <4>1
      <4>3. ~(oq <= a) /\ oq - rem = a
        BY <4>2
      <4> QED BY <4>1, <4>3
    <3> QED BY <2>2, <2>4, <3>3
  <2> QED BY <2>5, <2>6
<1> QED BY <1>6, <1>7

-----------------------------------------------------------------------------
(* The walk of available_to_match *)

\* One step of the walk, from order i on.
TakeStep(w, o, i) ==
  LET opp  == opposite_side(o.side)
      n    == node[i]
      here == IF ~is_expired(n, o.now) /\ n.owner # o.owner THEN n.qty ELSE 0
      down == next_worse_level(opp, occupied[opp], n.tick)
      cont == IF n.next # NIL THEN w[n.next]
              ELSE IF down # NoTick /\ Crosses(o.side, o.tick, down) THEN w[level[opp][down].head]
              ELSE 0
  IN here + cont

TakeOf(w, o) ==
  w = [i \in {j \in DOMAIN node : node[j].side = opposite_side(o.side)} |-> TakeStep(w, o, i)]

\* What the k-th order of a queue gives, crossing or not.
Here(C, o, k) == IF Good(C, o, k) THEN C[k].qty ELSE 0

\* The walk goes on from the k-th order.
Goes(Q, C, o, k) == k < Len(Q) /\ (node[Q[k]].next # NIL \/ Hit(C, o, k + 1))

\* A step of the walk adds what its order gives and goes on along the queue.
LEMMA TakeStepIs ==
  ASSUME TypeOK, LinkIntegrity, TouchExact, NEW o, o.side \in Sides, NEW Q,
         Ordered(Q, opposite_side(o.side), node), NEW C, C = ListOf(Q, node), NEW k \in 1..Len(Q)
  PROVE  /\ \A w : TakeStep(w, o, Q[k]) = Here(C, o, k) + (IF Goes(Q, C, o, k) THEN w[Q[k + 1]] ELSE 0)
         /\ Hit(C, o, k) => (Goes(Q, C, o, k) <=> k < Len(Q) /\ Hit(C, o, k + 1))
<1> DEFINE s == opposite_side(o.side)
<1>0. PICK down, N, n : /\ down = next_worse_level(s, occupied[s], node[Q[k]].tick)
                        /\ N = Len(Q) /\ n = node[Q[k]]
  OBVIOUS
<1>1. s \in Sides
  BY DEF opposite_side, Sides
<1>2. N \in Nat /\ k \in Nat
  BY <1>0, <1>1, OrderedIds
<1>3. \A j \in 1..N : C[j] = Rec(Q[j], node)
  BY <1>0 DEF ListOf
<1>4. \A j \in 1..N : /\ C[j].tick = node[Q[j]].tick /\ C[j].qty = node[Q[j]].qty
                      /\ C[j].owner = node[Q[j]].owner /\ C[j].expiry = node[Q[j]].expiry
  <2> TAKE j \in 1..N
  <2>1. C[j] = Rec(Q[j], node)
    BY <1>3
  <2> QED BY <2>1 DEF Rec
<1>5. k < N => k + 1 \in 1..N
  BY <1>2
<1>6. Here(C, o, k) = IF ~is_expired(n, o.now) /\ n.owner # o.owner THEN n.qty ELSE 0
  BY <1>0, <1>4 DEF Here, Good, is_expired
<1>7. \A w : TakeStep(w, o, Q[k]) =
        Here(C, o, k) + (IF n.next # NIL THEN w[n.next]
                         ELSE IF down # NoTick /\ Crosses(o.side, o.tick, down) THEN w[level[s][down].head]
                         ELSE 0)
  BY <1>0, <1>6, Zenon DEF TakeStep
<1>8. IF k < N
      THEN IF n.next # NIL THEN n.next = Q[k + 1]
           ELSE down # NoTick /\ level[s][down].head = Q[k + 1] /\ down = node[Q[k + 1]].tick
      ELSE n.next = NIL /\ down = NoTick
  BY <1>0, <1>1, OrderedNext
<1>9. n.next # NIL => k < N /\ (Hit(C, o, k) <=> Hit(C, o, k + 1))
  <2> SUFFICES ASSUME n.next # NIL PROVE k < N /\ (Hit(C, o, k) <=> Hit(C, o, k + 1))
    OBVIOUS
  <2>1. k < N /\ node[Q[k + 1]].tick = node[Q[k]].tick
    BY <1>0 DEF Ordered
  <2> QED BY <1>0, <1>4, <1>5, <2>1 DEF Hit
<1>10. k < N => (Hit(C, o, k + 1) <=> Crosses(o.side, o.tick, node[Q[k + 1]].tick))
  BY <1>4, <1>5 DEF Hit
<1>11. \A w : (IF n.next # NIL THEN w[n.next]
               ELSE IF down # NoTick /\ Crosses(o.side, o.tick, down) THEN w[level[s][down].head] ELSE 0)
              = IF Goes(Q, C, o, k) THEN w[Q[k + 1]] ELSE 0
  BY <1>0, <1>8, <1>9, <1>10 DEF Goes
<1>12. Hit(C, o, k) => (Goes(Q, C, o, k) <=> k < Len(Q) /\ Hit(C, o, k + 1))
  BY <1>0, <1>9 DEF Goes
<1> QED BY <1>7, <1>11, <1>12

\* The walk exists: its values from the last order of the queue to the first.
LEMMA TakeExists ==
  ASSUME TypeOK, LinkIntegrity, TouchExact, NEW o, o.side \in Sides, NEW s, s = opposite_side(o.side),
         NEW Q, Ordered(Q, s, node), NEW C, C = ListOf(Q, node),
         \A k \in 1..Len(Q) : Here(C, o, k) \in Int
  PROVE  \E w : TakeOf(w, o)
<1>0. \A k \in 1..Len(Q) : \A v :
        TakeStep(v, o, Q[k]) = Here(C, o, k) + (IF Goes(Q, C, o, k) THEN v[Q[k + 1]] ELSE 0)
  <2> TAKE k \in 1..Len(Q)
  <2>1. /\ \A w : TakeStep(w, o, Q[k]) = Here(C, o, k) + (IF Goes(Q, C, o, k) THEN w[Q[k + 1]] ELSE 0)
        /\ Hit(C, o, k) => (Goes(Q, C, o, k) <=> k < Len(Q) /\ Hit(C, o, k + 1))
    BY TakeStepIs
  <2> QED BY <2>1
<1> DEFINE N == Len(Q)
           D == {j \in DOMAIN node : node[j].side = s}
           goes(k) == Goes(Q, C, o, k)
           step == [x \in Int \X (1..N) |-> Here(C, o, N + 1 - x[2]) + (IF goes(N + 1 - x[2]) THEN x[1] ELSE 0)]
           pos(i) == CHOOSE k \in 1..N : Q[k] = i
<1>1. N \in Nat /\ (\A k \in 1..N : Q[k] \in D /\ pos(Q[k]) = k) /\ \A i \in D : \E k \in 1..N : Q[k] = i
  <2>1. s \in Sides
    BY DEF opposite_side, Sides
  <2>2. N \in Nat /\ \A k \in 1..N : Q[k] \in D
    BY <2>1, OrderedIds DEF live
  <2> QED BY <2>2 DEF Ordered
<1>2. \A k \in 1..N : Here(C, o, k) \in Int
  OBVIOUS
<1>3. \A n \in 1..N : N + 1 - n \in 1..N
  BY <1>1
<1>4. step \in StepsOf(Int, N)
  <2>1. ASSUME NEW x \in Int \X (1..N)
        PROVE  Here(C, o, N + 1 - x[2]) + (IF goes(N + 1 - x[2]) THEN x[1] ELSE 0) \in Int
    <3>1. x[1] \in Int /\ x[2] \in 1..N
      OBVIOUS
    <3>2. Here(C, o, N + 1 - x[2]) \in Int
      BY <1>2, <1>3, <3>1
    <3> HIDE DEF goes
    <3> QED BY <3>1, <3>2
  <2> HIDE DEF goes, N
  <2> QED BY <2>1 DEF StepsOf
<1>5. PICK run : RunOf(run, Int, N, 0, step)
  <2>1. 0 \in Int
    OBVIOUS
  <2> HIDE DEF step, N
  <2> QED BY <1>1, <1>4, <2>1, RunExists
<1>6. \A n \in 1..N : run[n] = Here(C, o, N + 1 - n) + (IF goes(N + 1 - n) THEN run[n - 1] ELSE 0)
  <2> SUFFICES ASSUME NEW n \in 1..N
               PROVE  run[n] = Here(C, o, N + 1 - n) + (IF goes(N + 1 - n) THEN run[n - 1] ELSE 0)
    OBVIOUS
  <2>1. n - 1 \in 0..N /\ run[n - 1] \in Int
    BY <1>1, <1>5 DEF RunOf
  <2>2. run[n] = step[<<run[n - 1], n>>]
    BY <1>5 DEF RunOf
  <2> HIDE DEF goes, N
  <2>3. <<run[n - 1], n>> \in Int \X (1..N)
    BY <2>1
  <2> QED BY <2>2, <2>3
<1> DEFINE w == [i \in D |-> run[N + 1 - pos(i)]]
<1>7. \A k \in 1..N : w[Q[k]] = run[N + 1 - k]
  <2> HIDE DEF pos, D, N
  <2> QED BY <1>1
<1>8. \A k \in 1..N : w[Q[k]] = TakeStep(w, o, Q[k])
  <2> SUFFICES ASSUME NEW k \in 1..N PROVE w[Q[k]] = TakeStep(w, o, Q[k])
    OBVIOUS
  <2>1. N + 1 - k \in 1..N /\ N + 1 - (N + 1 - k) = k /\ (N + 1 - k) - 1 = N + 1 - (k + 1)
    BY <1>1
  <2>2. goes(k) => k + 1 \in 1..N
    BY <1>1 DEF Goes
  <2>3. TakeStep(w, o, Q[k]) = Here(C, o, k) + (IF goes(k) THEN w[Q[k + 1]] ELSE 0)
    <3> HIDE DEF w
    <3> QED BY <1>0
  <2>4. run[N + 1 - k] = Here(C, o, k) + (IF goes(k) THEN run[N + 1 - (k + 1)] ELSE 0)
    <3> HIDE DEF goes, N
    <3>1. run[N + 1 - k] = Here(C, o, N + 1 - (N + 1 - k))
                           + (IF goes(N + 1 - (N + 1 - k)) THEN run[(N + 1 - k) - 1] ELSE 0)
      BY <1>6, <2>1
    <3> QED BY <2>1, <3>1
  <2> HIDE DEF w, goes, N
  <2> QED BY <1>7, <2>2, <2>3, <2>4
<1>9. w = [i \in D |-> TakeStep(w, o, i)]
  <2>1. w = [i \in D |-> w[i]]
    OBVIOUS
  <2>2. \A i \in D : w[i] = TakeStep(w, o, i)
    <3> HIDE DEF w, D
    <3> QED BY <1>1, <1>8
  <2> HIDE DEF w, D
  <2> QED BY <2>1, <2>2
<1> HIDE DEF w
<1> QED BY <1>9 DEF TakeOf

\* From an order that crosses on, the walk adds up what is left to take.
LEMMA TakeIs ==
  ASSUME TypeOK, LinkIntegrity, TouchExact, NEW o, o.side \in Sides, o.tick \in Nat,
         NEW s, s = opposite_side(o.side),
         NEW Q, Ordered(Q, s, node), NEW C, C = ListOf(Q, node), C \in Seq(Resting), Len(C) = Len(Q),
         Sorted(C, s), NEW w, TakeOf(w, o), NEW k \in 1..Len(Q), Hit(C, o, k)
  PROVE  w[Q[k]] = Before(C, o, Len(C)) - Before(C, o, k - 1)
<1>0. PICK N, D, T : N = Len(Q) /\ D = {j \in DOMAIN node : node[j].side = s} /\ T = Before(C, o, N)
  OBVIOUS
<1>1. s \in Sides /\ N \in Nat /\ N \in 0..N /\ T \in Nat /\ \A j \in 1..N : Q[j] \in D
  <2>1. s \in Sides
    BY DEF opposite_side, Sides
  <2>2. N \in Nat /\ \A j \in 1..N : Q[j] \in D
    BY <1>0, <2>1, OrderedIds DEF live
  <2> QED BY <1>0, <2>1, <2>2, BeforeNext
<1>2. \A j \in 1..N : w[Q[j]] = TakeStep(w, o, Q[j])
  <2>1. w = [i \in D |-> TakeStep(w, o, i)]
    BY <1>0 DEF TakeOf
  <2> QED BY <1>1, <2>1
<1>3. \A j \in 1..N : /\ j - 1 \in 0..N /\ j \in 0..N /\ Before(C, o, j - 1) \in Nat
                      /\ Hit(C, o, j) => Before(C, o, j) = Before(C, o, j - 1) + Here(C, o, j)
                      /\ Here(C, o, j) \in Nat
  <2> SUFFICES ASSUME NEW j \in 1..N
               PROVE  /\ j - 1 \in 0..N /\ j \in 0..N /\ Before(C, o, j - 1) \in Nat
                      /\ Hit(C, o, j) => Before(C, o, j) = Before(C, o, j - 1) + Here(C, o, j)
                      /\ Here(C, o, j) \in Nat
    OBVIOUS
  <2>1. j - 1 \in 0..N /\ j \in 0..N /\ j - 1 < N /\ (j - 1) + 1 = j
    BY <1>1
  <2>2. Before(C, o, j - 1) \in Nat /\ Before(C, o, (j - 1) + 1) = Before(C, o, j - 1) + Gives(C, o)[(j - 1) + 1]
    BY <1>0, <2>1, BeforeNext
  <2>3. Hit(C, o, j) => Gives(C, o)[j] = Here(C, o, j)
    BY <1>0, QueueFields DEF Here
  <2>4. Here(C, o, j) \in Nat
    BY <1>0, QueueFields DEF Here
  <2> QED BY <2>1, <2>2, <2>3, <2>4
<1>4. ASSUME NEW j \in 1..N, j < N, ~Hit(C, o, j + 1) PROVE Before(C, o, j) = T
  <2>1. j + 1 \in 1..N /\ j \in 0..N
    BY <1>1, <1>4
  <2>2. \A i \in 1..N : i > j => ~Hit(C, o, i)
    <3> SUFFICES ASSUME NEW i \in 1..N, i > j PROVE ~Hit(C, o, i)
      OBVIOUS
    <3>1. j + 1 <= i
      BY <1>1
    <3> QED BY <1>0, <1>4, <2>1, <3>1, HitsFirst
  <2> QED BY <1>0, <2>1, <2>2, BeforeStops
<1>5. ASSUME NEW j \in 1..N, Hit(C, o, j),
             j < N /\ Hit(C, o, j + 1) => w[Q[j + 1]] = T - Before(C, o, j)
      PROVE  w[Q[j]] = T - Before(C, o, j - 1)
  <2>1. /\ w[Q[j]] = Here(C, o, j) + (IF Goes(Q, C, o, j) THEN w[Q[j + 1]] ELSE 0)
        /\ Hit(C, o, j) => (Goes(Q, C, o, j) <=> j < N /\ Hit(C, o, j + 1))
    BY <1>0, <1>2, TakeStepIs
  <2>2. w[Q[j]] = Here(C, o, j) + (IF j < N /\ Hit(C, o, j + 1) THEN w[Q[j + 1]] ELSE 0)
    BY <1>5, <2>1
  <2>3. j \in 1..N /\ ~(j < N /\ Hit(C, o, j + 1)) => Before(C, o, j) = T
    <3>1. ~(j < N) => j = N
      BY <1>1
    <3> QED BY <1>0, <1>4, <3>1
  <2>4. PICK b, c, h : b = Before(C, o, j - 1) /\ c = Before(C, o, j) /\ h = Here(C, o, j)
    OBVIOUS
  <2>5. b \in Nat /\ h \in Nat /\ c = b + h
    BY <1>3, <1>5, <2>4
  <2>6. CASE j < N /\ Hit(C, o, j + 1)
    <3>1. w[Q[j]] = h + (T - c)
      BY <1>5, <2>2, <2>4, <2>6
    <3> QED BY <1>1, <2>4, <2>5, <3>1
  <2>7. CASE ~(j < N /\ Hit(C, o, j + 1))
    <3>1. w[Q[j]] = h + 0 /\ c = T
      BY <2>2, <2>3, <2>4, <2>7
    <3> QED BY <1>1, <2>4, <2>5, <3>1
  <2> QED BY <2>6, <2>7
<1> DEFINE P(j) == Hit(C, o, j) => w[Q[j]] = T - Before(C, o, j - 1)
           G == {n \in Nat : n < N => P(N - n)}
<1>6. 0 \in G
  <2> SUFFICES ASSUME 0 < N PROVE P(N - 0)
    OBVIOUS
  <2>1. N - 0 = N /\ N \in 1..N /\ ~(N < N)
    BY <1>1
  <2>2. P(N)
    BY <1>5, <2>1
  <2> HIDE DEF P
  <2> QED BY <2>1, <2>2
<1>7. ASSUME NEW n \in Nat, n \in G PROVE n + 1 \in G
  <2>1. n + 1 \in Nat
    OBVIOUS
  <2> SUFFICES ASSUME n + 1 < N PROVE P(N - (n + 1))
    BY <2>1, Zenon
  <2>2. PICK j : j = N - (n + 1)
    OBVIOUS
  <2>3. j \in 1..N /\ j + 1 = N - n /\ n < N /\ (j + 1) - 1 = j
    BY <1>1, <2>2
  <2>4. P(j + 1)
    <3>1. P(N - n)
      BY <1>7, <2>3, Zenon
    <3> HIDE DEF P, G
    <3> QED BY <2>3, <3>1
  <2>5. Hit(C, o, j + 1) => w[Q[j + 1]] = T - Before(C, o, j)
    BY <2>3, <2>4
  <2>6. P(j)
    <3> HIDE DEF G
    <3> QED BY <1>5, <2>3, <2>5
  <2> HIDE DEF P, G
  <2> QED BY <2>2, <2>6
<1>8. Nat \subseteq G
  <2> HIDE DEF G
  <2> QED BY <1>6, <1>7, Induction
<1>9. P(k)
  <2>1. N - k \in Nat /\ N - k < N /\ N - (N - k) = k
    BY <1>0, <1>1
  <2>2. P(N - (N - k))
    <3>1. N - k \in G
      BY <1>8, <2>1
    <3> QED BY <2>1, <3>1, Zenon
  <2> HIDE DEF P
  <2> QED BY <2>1, <2>2
<1> QED BY <1>0, <1>9

\* available_to_match finds what is available.
LEMMA AvailableIs ==
  ASSUME QInv, Positive, NEW o, o.side \in Sides, o.tick \in Nat,
         NEW s, s = opposite_side(o.side), NEW C, C = QueueOf(s)
  PROVE  available_to_match(o) = Abstract!Available(C, o)
<1>0. s \in Sides
  BY DEF opposite_side, Sides
<1>1. TypeOK /\ LinkIntegrity /\ TouchExact
  BY DEF QInv, IInv
<1>2. PICK Q : Ordered(Q, s, node)
  BY <1>0 DEF QInv, Queued
<1>3. C = ListOf(Q, node)
  BY <1>0, <1>2, ReadsNow DEF Reads
<1>4. /\ C \in Seq(Resting) /\ Len(C) \in Nat /\ Sorted(C, s)
      /\ IF Len(C) = 0 THEN best[s] = NoTick
         ELSE best[s] # NoTick /\ best[s] = C[1].tick /\ level[s][best[s]].head = C[1].id
  BY <1>0, ListFacts DEF Sorted
<1>5. Len(C) = Len(Q) /\ \A k \in 1..Len(Q) : C[k].id = Q[k]
  <2>1. Len(Q) \in Nat
    BY <1>0, <1>1, <1>2, OrderedIds
  <2>2. Len(C) = Len(Q)
    BY <1>3, <2>1 DEF ListOf
  <2> QED BY <1>3, <2>2 DEF ListOf, Rec
<1>6. Abstract!Available(C, o) = Before(C, o, Len(C))
  BY <1>4, AheadIs
<1> DEFINE walk == CHOOSE w : TakeOf(w, o)
<1>7. TakeOf(walk, o)
  <2>1. \E w : TakeOf(w, o)
    <3>1. ASSUME NEW k \in 1..Len(Q)
          PROVE  Here(C, o, k) \in Int
      <4>1. C[k] \in Resting
        BY <1>4, <1>5
      <4>2. C[k].qty \in Int
        BY <4>1 DEF Resting
      <4> QED BY <4>2 DEF Here
    <3> QED BY <1>1, <1>2, <1>3, <3>1, TakeExists
  <2> QED BY <2>1, Zenon
<1>8. available_to_match(o) = IF best[s] # NoTick /\ Crosses(o.side, o.tick, best[s])
                              THEN walk[level[s][best[s]].head] ELSE 0
  <2>1. available_to_match(o) =
          IF best[opposite_side(o.side)] # NoTick /\ Crosses(o.side, o.tick, best[opposite_side(o.side)])
          THEN walk[level[opposite_side(o.side)][best[opposite_side(o.side)]].head] ELSE 0
    BY Zenon DEF available_to_match, Takeable, TakeOf, TakeStep
  <2> HIDE DEF walk
  <2> QED BY <2>1
<1> HIDE DEF walk
<1>9. 0 \in 0..Len(C) /\ Before(C, o, 0) = 0 /\ Before(C, o, Len(C)) \in Nat
  <2>1. 0 \in 0..Len(C) /\ Len(C) \in 0..Len(C)
    BY <1>4
  <2> QED BY <1>4, <2>1, BeforeNext
<1>10. CASE best[s] # NoTick /\ Crosses(o.side, o.tick, best[s])
  <2>1. Len(C) # 0 /\ 1 \in 1..Len(Q) /\ Hit(C, o, 1) /\ level[s][best[s]].head = Q[1]
    BY <1>4, <1>5, <1>10 DEF Hit
  <2>2. walk[Q[1]] = Before(C, o, Len(C)) - Before(C, o, 1 - 1)
    BY <1>1, <1>2, <1>3, <1>4, <1>5, <1>7, <2>1, TakeIs
  <2>3. walk[Q[1]] = Before(C, o, Len(C))
    BY <1>9, <2>2
  <2> QED BY <1>6, <1>8, <1>10, <2>1, <2>3
<1>11. CASE ~(best[s] # NoTick /\ Crosses(o.side, o.tick, best[s]))
  <2>1. \A i \in 1..Len(C) : i > 0 => ~Hit(C, o, i)
    <3> SUFFICES ASSUME NEW i \in 1..Len(C) PROVE ~Hit(C, o, i)
      OBVIOUS
    <3>1. Len(C) # 0 /\ 1 \in 1..Len(C) /\ 1 <= i
      BY <1>4
    <3>2. ~Hit(C, o, 1)
      BY <1>4, <1>11, <3>1 DEF Hit
    <3> QED BY <1>4, <3>1, <3>2, HitsFirst
  <2>2. Before(C, o, Len(C)) = 0
    BY <1>4, <1>9, <2>1, BeforeStops
  <2> QED BY <1>6, <1>8, <1>11, <2>2
<1> QED BY <1>10, <1>11

-----------------------------------------------------------------------------
(* What submit owes *)

\* The queue an order meets once the post-only prune has run, and the two
\* reasons to refuse it.
Makers(q, o)   == IF o.post_only THEN Abstract!Pruned(q, o.now) ELSE q
Rejected(q, o) == o.post_only /\ q # <<>> /\ Crosses(o.side, o.tick, q[1].tick)
Killed(q, o)   == o.tif = "FOK" /\ Abstract!Available(q, o) < o.qty

\* The answer of an order that is not refused.
Sweeps(r, q, o) ==
  /\ r.outcome = "accepted" /\ r.filled = Abstract!Min({o.qty, Abstract!Available(q, o)})
  /\ r.left = Abstract!Swept(q, o)
  /\ r.rests <=> r.filled < o.qty /\ o.tif \in {"GTC", "GTT"}

\* What Submitted answers.
LEMMA SubmittedIs ==
  ASSUME NEW q0, NEW o, NEW q, q = Makers(q0, o), NEW r, r = Abstract!Submitted(q0, o)
  PROVE  LET refused == Rejected(q, o) \/ Killed(q, o)
             fills == Abstract!Min({o.qty, Abstract!Available(q, o)})
         IN /\ r.outcome = IF Rejected(q, o) THEN "post_only_rejected"
                           ELSE IF Killed(q, o) THEN "fill_or_kill_failed" ELSE "accepted"
            /\ r.filled = IF refused THEN 0 ELSE fills
            /\ r.left = IF refused THEN q ELSE Abstract!Swept(q, o)
            /\ r.rests <=> (~refused /\ fills < o.qty /\ o.tif \in {"GTC", "GTT"})
<1> DEFINE rejected == Rejected(q, o)
           killed == ~rejected /\ o.tif = "FOK" /\ Abstract!Available(q, o) < o.qty
           refused == rejected \/ killed
           filled == IF refused THEN 0 ELSE Abstract!Min({o.qty, Abstract!Available(q, o)})
           taken == [i \in 1..Len(q) |-> IF refused THEN 0 ELSE Abstract!Taken(q, o, i)]
<1>1. r = [outcome |-> IF rejected THEN "post_only_rejected"
                       ELSE IF killed THEN "fill_or_kill_failed" ELSE "accepted",
           makers  |-> q,
           taken   |-> taken,
           filled  |-> filled,
           left    |-> IF refused THEN q ELSE Abstract!Swept(q, o),
           rests   |-> ~refused /\ filled < o.qty /\ o.tif \in {"GTC", "GTT"}]
  BY Zenon DEF Abstract!Submitted, Makers, Rejected, Abstract!Crosses, Crosses
<1>2. /\ r.outcome = IF rejected THEN "post_only_rejected"
                     ELSE IF killed THEN "fill_or_kill_failed" ELSE "accepted"
      /\ r.filled = filled
      /\ r.left = IF refused THEN q ELSE Abstract!Swept(q, o)
      /\ r.rests <=> (~refused /\ filled < o.qty /\ o.tif \in {"GTC", "GTT"})
  <2> DEFINE rests == ~refused /\ filled < o.qty /\ o.tif \in {"GTC", "GTT"}
             outcome == IF rejected THEN "post_only_rejected"
                        ELSE IF killed THEN "fill_or_kill_failed" ELSE "accepted"
             left == IF refused THEN q ELSE Abstract!Swept(q, o)
  <2>1. r = [outcome |-> outcome, makers |-> q, taken |-> taken, filled |-> filled, left |-> left,
             rests |-> rests]
    BY <1>1
  <2>2. rests \in BOOLEAN
    OBVIOUS
  <2> HIDE DEF taken, filled, killed, rejected, refused, rests, outcome, left
  <2>3. r.outcome = outcome /\ r.filled = filled /\ r.left = left
    BY <2>1
  <2>4. r.rests <=> rests
    <3>1. CASE rests
      <4>1. rests = TRUE
        BY <2>2, <3>1
      <4> QED BY <2>1, <4>1, <3>1
    <3>2. CASE ~rests
      <4>1. rests = FALSE
        BY <2>2, <3>2
      <4> QED BY <2>1, <4>1, <3>2
    <3> QED BY <3>1, <3>2
  <2> QED BY <2>3, <2>4 DEF rests, outcome, left
<1>3. killed <=> ~rejected /\ Killed(q, o)
  BY DEF Killed
<1> QED BY <1>2, <1>3

\* The three answers.
LEMMA RefusedIs ==
  ASSUME NEW q0, NEW o, NEW q, q = Makers(q0, o), NEW r, r = Abstract!Submitted(q0, o),
         Rejected(q, o) \/ Killed(q, o)
  PROVE  /\ r.outcome = IF Rejected(q, o) THEN "post_only_rejected" ELSE "fill_or_kill_failed"
         /\ r.filled = 0 /\ r.left = q /\ ~r.rests
BY SubmittedIs

\* It sweeps.
LEMMA AcceptedIs ==
  ASSUME NEW q0, NEW o, NEW q, q = Makers(q0, o), NEW r, r = Abstract!Submitted(q0, o),
         ~Rejected(q, o), ~Killed(q, o)
  PROVE  Sweeps(r, q, o)
BY SubmittedIs DEF Sweeps

\* The call that takes effect: the queues it leaves and the answer it gives are
\* those of Submitted.
LEMMA TakesEffect ==
  ASSUME snap \in [Sides -> Seq(Resting)], req.phase \in {"prune", "check", "match"},
         NEW o, o = req.order, NEW s \in Sides, s = o.side, NEW opp, opp = opposite_side(s),
         NEW r, r = Abstract!Submitted(snap[opp], o),
         snap' = NoSnap, req'.phase = "done", req'.order = o,
         req'.outcome = r.outcome, o.qty - req'.qty = r.filled,
         NEW id, req'.resting_id = id,
         IF r.rests THEN id \in Slots \ (Abstract!IdsOf(r.left) \cup Abstract!IdsOf(snap[s])) ELSE id = NIL,
         NEW rec, rec = [id |-> id, tick |-> o.tick, qty |-> o.qty - r.filled, owner |-> o.owner,
                         expiry |-> o.expiry],
         QueueOf(opp)' = r.left,
         QueueOf(s)' = IF r.rests THEN Abstract!Queued(snap[s], s, rec) ELSE snap[s]
  PROVE  Abstract!Execute(o)
<1> DEFINE own == IF r.rests THEN Abstract!Queued(snap[s], s, rec) ELSE snap[s]
           queue == IF snap = NoSnap THEN Queues ELSE snap
           call == IF req = Idle THEN NoCall ELSE req.order
           answer == IF req.phase = "done"
                     THEN [outcome |-> req.outcome, filled |-> Filled, resting_id |-> req.resting_id]
                     ELSE NoAnswer
           left == r.left
           dead == Slots \ (Abstract!IdsOf(r.left) \cup Abstract!IdsOf(snap[s]))
           result == [outcome |-> r.outcome, filled |-> r.filled, resting_id |-> id]
<1>1. opp \in Sides /\ opp # s /\ Sides = {s, opp}
  BY DEF opposite_side, Sides
<1>2. snap # NoSnap
  <2>1. DOMAIN snap = Sides /\ "Long" \in Sides
    BY DEF Sides
  <2>2. DOMAIN NoSnap = {}
    BY DEF NoSnap
  <2> QED BY <2>1, <2>2
<1>3. queue = snap /\ queue' = Queues'
  BY <1>2
<1>4. req # Idle /\ req' # Idle /\ req.phase # "done"
  BY DEF Idle
<1>5. call = o /\ call' = o /\ answer = NoAnswer
  BY <1>4
<1>6. answer' = result
  BY <1>4 DEF Filled
<1>7. own = IF r.rests THEN Abstract!Queued(snap[s], s, rec) ELSE snap[s]
  OBVIOUS
<1>8. QueueOf(s)' = own /\ QueueOf(opp)' = left
  OBVIOUS
<1>9. Queues' = [z \in Sides |-> IF z = s THEN own ELSE left]
  <2> HIDE DEF own, left
  <2>1. Queues' = [z \in Sides |-> QueueOf(z)']
    BY DEF Queues
  <2>2. \A z \in Sides : QueueOf(z)' = IF z = s THEN own ELSE left
    BY <1>1, <1>8
  <2> QED BY <2>1, <2>2
<1>10. id \in IF r.rests THEN dead ELSE {NIL}
  OBVIOUS
<1>11. Abstract!Opposite(s) = opp
  BY DEF Abstract!Opposite, opposite_side
<1>12. Queues' = [snap EXCEPT ![opp] = left, ![s] = IF r.rests THEN Abstract!Queued(@, s, rec) ELSE @]
  <2> HIDE DEF own, left
  <2>1. DOMAIN snap = Sides
    OBVIOUS
  <2>2. [snap EXCEPT ![opp] = left, ![s] = own] = [z \in Sides |-> IF z = s THEN own ELSE left]
    BY <1>1, <2>1
  <2>3. [snap EXCEPT ![opp] = left, ![s] = IF r.rests THEN Abstract!Queued(@, s, rec) ELSE @]
        = [snap EXCEPT ![opp] = left, ![s] = own]
    <3>1. CASE r.rests
      <4>1. own = Abstract!Queued(snap[s], s, rec)
        BY <1>7, <3>1
      <4>2. [snap EXCEPT ![opp] = left][s] = snap[s]
        BY <1>1, <2>1
      <4> QED BY <3>1, <4>1, <4>2, <1>1, <2>1
    <3>2. CASE ~r.rests
      <4>1. own = snap[s]
        BY <1>7, <3>2
      <4> QED BY <3>2, <4>1, <1>1, <2>1
    <3> QED BY <3>1, <3>2
  <2> QED BY <1>9, <2>2, <2>3
<1> QED
  <2>1. /\ answer = NoAnswer
        /\ queue' = [queue EXCEPT ![opp] = r.left,
                                  ![o.side] = IF r.rests THEN Abstract!Queued(@, o.side, rec) ELSE @]
        /\ answer' = result
        /\ call' = call
    BY <1>3, <1>5, <1>6, <1>12
  <2> QED BY <1>3, <1>10, <1>11, <2>1 DEF Abstract!Execute

\* Every order that rests has a quantity.
LEMMA PositiveKept ==
  ASSUME QInv, Positive, [Next]_vars
  PROVE  Positive'
<1>1. TypeOK /\ LinkIntegrity /\ FreeListExact
  BY DEF QInv, IInv
<1>2. CASE node' = node
  BY <1>2 DEF Positive, live
<1>3. CASE \E i \in live : unlink(i)
  <2>1. PICK i \in live : unlink(i)
    BY <1>3
  <2>2. live' = live \ {i} /\ \A j \in live' : node'[j].qty = node[j].qty
    BY <1>1, <2>1, UnlinkNodes
  <2>3. \A j \in live' : node'[j].qty > 0
    BY <2>2 DEF Positive
  <2> QED BY <2>3 DEF Positive
<1>4. CASE PartFillHead
  <2>1. req.phase \in Phases /\ Touch # NoTick /\ node[Front].qty > req.qty
    BY <1>4 DEF PartFillHead, Matching, Phases
  <2>2. PICK f : f = Front
    OBVIOUS
  <2>3. f \in live /\ node[f] \in Node /\ req.qty \in Nat
    BY <2>1, <2>2, <1>1, FrontLive, CallFields DEF QInv, TypeOK
  <2>4. PICK fq, rq : fq = node[f].qty /\ rq = req.qty /\ fq \in Nat /\ rq \in Nat /\ fq > rq
    BY <2>1, <2>2, <2>3 DEF Node
  <2>5. fq - rq > 0
    BY <2>4
  <2>6. node' = [node EXCEPT ![f].qty = @ - rq]
    BY <1>4, <2>2, <2>4 DEF PartFillHead
  <2>7. live' = live /\ \A j \in live' : node'[j].qty = IF j = f THEN fq - rq ELSE node[j].qty
    BY <2>3, <2>4, <2>6, <1>1 DEF live, TypeOK, Node
  <2> QED BY <2>5, <2>7 DEF Positive
<1>5. CASE Rest
  <2>0. PICK n : n = [tick |-> req.order.tick, qty |-> req.qty, side |-> req.order.side,
                      owner |-> req.order.owner, expiry |-> req.order.expiry,
                      prev |-> NIL, next |-> NIL]
    OBVIOUS
  <2>1. rest(n) /\ req.phase = "match" /\ req.phase \in Phases /\ req.qty > 0
    BY <1>5, <2>0, Zenon DEF Rest, Phases
  <2>2. n \in Node /\ n.next = NIL /\ n.qty = req.qty
    <3>1. /\ req.qty \in Nat /\ req.order.side \in Sides /\ req.order.tick \in Ticks
          /\ req.order.owner \in Owners /\ req.order.expiry \in Expiries \cup {Never}
      BY <1>1, <2>1, CallFields
    <3> QED BY <2>0, <3>1 DEF Node
  <2>3. free # <<>> \/ top < MaxSlots
    BY <2>1 DEF QInv, IInv, SlotReserved
  <2>4. live' = live \cup {alloc}
    BY <1>1, <2>1, <2>2, <2>3, RestFree DEF QInv, IInv
  <2>5. node'[alloc].qty = n.qty /\ \A j \in live : node'[j].qty = node[j].qty
    BY <1>1, <2>1, <2>2, <2>3, RestNodes
  <2>6. \A j \in live' : node'[j].qty > 0
    BY <2>1, <2>2, <2>4, <2>5 DEF Positive
  <2> QED BY <2>6 DEF Positive
<1>6. CASE \E o \in NewOrder : Submit(o)
  BY <1>2, <1>6 DEF Submit, bookVars
<1>7. CASE PostOnlyGuard \/ FillOrKillGuard \/ Finish \/ Return
  BY <1>2, <1>7 DEF PostOnlyGuard, FillOrKillGuard, Finish, Return, bookVars
<1>8. CASE PruneExpiredHead \/ DropHead \/ FillHead
  <2>1. unlink(Front) /\ req.phase \in Phases /\ Touch # NoTick
    BY <1>8 DEF PruneExpiredHead, DropHead, FillHead, Matching, Phases
  <2>2. Front \in live
    BY <2>1, FrontLive DEF QInv
  <2> QED BY <1>3, <2>1, <2>2
<1>9. CASE \E i \in Slots : Cancel(i)
  BY <1>3, <1>9 DEF Cancel, live
<1>10. CASE UNCHANGED vars
  BY <1>2, <1>10 DEF vars
<1> QED BY <1>4, <1>5, <1>6, <1>7, <1>8, <1>9, <1>10 DEF Next, Step

\* The head of the touch is the first of the list.
LEMMA FrontList ==
  ASSUME QInv, Positive, req.phase \in Phases, NEW s0, s0 = Opp, NEW C, C = QueueOf(s0)
  PROVE  /\ s0 \in Sides /\ C \in Seq(Resting) /\ Len(C) \in Nat
         /\ Touch = NoTick <=> Len(C) = 0
         /\ Touch # NoTick =>
              /\ Front \in live /\ node[Front].side = s0 /\ 1 \in 1..Len(C) /\ C[1].id = Front
              /\ Touch = C[1].tick /\ C[1] = Rec(Front, node)
              /\ \A now : is_expired(node[Front], now) <=> is_expired(C[1], now)
              /\ node[Front].owner = C[1].owner /\ node[Front].qty = C[1].qty
<1>1. s0 \in Sides
  BY CallFields DEF QInv, IInv
<1>2. /\ C \in Seq(Resting) /\ Len(C) \in Nat
      /\ \A k \in 1..Len(C) : C[k] = Rec(C[k].id, node)
      /\ IF Len(C) = 0 THEN best[s0] = NoTick
         ELSE best[s0] # NoTick /\ best[s0] = C[1].tick /\ level[s0][best[s0]].head = C[1].id
  BY <1>1, ListFacts
<1>3. Touch = best[s0]
  BY DEF Touch
<1>4. ASSUME Touch # NoTick
      PROVE  /\ Front \in live /\ node[Front].side = s0 /\ 1 \in 1..Len(C) /\ C[1].id = Front
             /\ Touch = C[1].tick /\ C[1] = Rec(Front, node)
             /\ \A now : is_expired(node[Front], now) <=> is_expired(C[1], now)
             /\ node[Front].owner = C[1].owner /\ node[Front].qty = C[1].qty
  <2>1. Front \in live /\ node[Front].side = s0
    BY <1>4, FrontLive DEF QInv
  <2>2. 1 \in 1..Len(C)
    BY <1>2, <1>3, <1>4
  <2>3. C[1].id = Front /\ Touch = C[1].tick
    BY <1>2, <1>3, <1>4 DEF Front
  <2>4. C[1] = Rec(Front, node)
    BY <1>2, <2>2, <2>3
  <2>5. /\ C[1].expiry = node[Front].expiry /\ C[1].owner = node[Front].owner
        /\ C[1].qty = node[Front].qty
    BY <2>4 DEF Rec
  <2> QED BY <2>1, <2>2, <2>3, <2>4, <2>5 DEF is_expired
<1> QED BY <1>1, <1>2, <1>3, <1>4

\* A step that unlinks the head of the touch takes the first of the list.
LEMMA UnlinkFrontList ==
  ASSUME QInv, QInv', Positive, req.phase \in Phases, Touch # NoTick, unlink(Front),
         NEW s0, s0 = Opp, NEW C, C = QueueOf(s0)
  PROVE  /\ QueueOf(s0)' = Without(C, 1)
         /\ \A z \in Sides : z # s0 => QueueOf(z)' = QueueOf(z)
<1>1. PICK i : i = Front
  OBVIOUS
<1>2. i \in live /\ node[i].side = s0 /\ 1 \in 1..Len(C) /\ C[1].id = i
  BY <1>1, FrontList
<1>3. unlink(i)
  BY <1>1
<1> QED BY <1>2, <1>3, ListUnlink

\* Rest queues the remainder of the order.
LEMMA RestList ==
  ASSUME QInv, QInv', Positive, Rest, NEW o, o = req.order, NEW s, s = o.side, NEW C, C = QueueOf(s),
         NEW r, r = [id |-> alloc, tick |-> o.tick, qty |-> req.qty, owner |-> o.owner, expiry |-> o.expiry]
  PROVE  /\ alloc \in Slots \ live
         /\ req' = [req EXCEPT !.phase = "done", !.resting_id = alloc]
         /\ \A z \in Sides : z # s => QueueOf(z)' = QueueOf(z)
         /\ QueueOf(s)' = Abstract!Queued(C, s, r)
<1>0. PICK n : n = [tick |-> req.order.tick, qty |-> req.qty, side |-> req.order.side,
                    owner |-> req.order.owner, expiry |-> req.order.expiry,
                    prev |-> NIL, next |-> NIL]
  OBVIOUS
<1>1. rest(n) /\ req.phase = "match" /\ req.phase \in Phases /\ req.qty > 0
  BY <1>0, Zenon DEF Rest, Phases
<1>2. /\ req.qty \in Nat /\ req.order.side \in Sides /\ req.order.tick \in Ticks
      /\ req.order.owner \in Owners /\ req.order.expiry \in Expiries \cup {Never}
  BY <1>1, CallFields DEF QInv, IInv
<1>3. /\ n \in Node /\ n.next = NIL /\ n.side = s /\ n.tick = o.tick /\ n.qty = req.qty
      /\ n.owner = o.owner /\ n.expiry = o.expiry /\ s \in Sides
  BY <1>0, <1>2 DEF Node
<1>4. free # <<>> \/ top < MaxSlots
  BY <1>1 DEF QInv, IInv, SlotReserved
<1>5. r = [id |-> alloc, tick |-> n.tick, qty |-> n.qty, owner |-> n.owner, expiry |-> n.expiry]
  BY <1>3
<1>6. /\ alloc \in Slots \ live
      /\ \A z \in Sides : z # s => QueueOf(z)' = QueueOf(z)
      /\ \E p \in 0..Len(C) :
           /\ \A k \in 1..Len(C) : k <= p => ~Better(s, r.tick, C[k].tick)
           /\ \A k \in 1..Len(C) : k > p => Better(s, r.tick, C[k].tick)
           /\ QueueOf(s)' = With(C, p, r)
  BY <1>1, <1>3, <1>4, <1>5, ListRest
<1>7. C \in Seq(Resting)
  BY <1>3, ListFacts
<1>8. r \in Resting
  <2>1. req.qty \in Nat \ {0} /\ alloc \in Slots
    BY <1>1, <1>2, <1>6
  <2> QED BY <2>1, <1>2 DEF Resting
<1>9. PICK p \in 0..Len(C) :
           /\ \A k \in 1..Len(C) : k <= p => ~Better(s, r.tick, C[k].tick)
           /\ \A k \in 1..Len(C) : k > p => Better(s, r.tick, C[k].tick)
           /\ QueueOf(s)' = With(C, p, r)
  BY <1>6
<1>10. Abstract!Queued(C, s, r) = With(C, p, r)
  BY <1>7, <1>8, <1>9, QueuedIs
<1>11. req' = [req EXCEPT !.phase = "done", !.resting_id = alloc]
  BY <1>1, Zenon DEF rest, alloc
<1> QED BY <1>6, <1>9, <1>10, <1>11

-----------------------------------------------------------------------------
(* A call in progress, against the queues it started from *)

Busy == {"prune", "check", "match"}

\* What the call has done to the queue q that it met: C is what is left of it,
\* rem what is left of the order o.
Progress(phase, q, C, o, rem) ==
  /\ phase = "prune" =>
       /\ o.post_only /\ rem = o.qty
       /\ \E m \in 0..Len(q) : C = Cut(q, 1, m) /\ \A i \in 1..m : is_expired(q[i], o.now)
  /\ phase = "check" => rem = o.qty /\ C = Makers(q, o) /\ ~Rejected(C, o)
  /\ phase = "match" =>
       \E M \in Seq(Resting) :
         /\ M = Makers(q, o) /\ Sorted(M, opposite_side(o.side)) /\ ~Rejected(M, o) /\ ~Killed(M, o)
         /\ \E m, d : Swath(M, C, o, rem, m, d)

CallInv ==
  /\ req.phase \notin Busy => snap = NoSnap
  /\ \A o, s, opp, C :
       req.phase \in Busy /\ o = req.order /\ s = o.side /\ opp = opposite_side(s) /\ C = QueueOf(opp) =>
         /\ snap \in [Sides -> Seq(Resting)] /\ snap[s] = QueueOf(s)
         /\ req.outcome = "accepted" /\ req.resting_id = NIL
         /\ Progress(req.phase, snap[opp], C, o, req.qty)

\* All that a step of the call starts from.
LEMMA CallFacts ==
  ASSUME QInv, Positive, CallInv, req.phase \in Busy, NEW o, o = req.order, NEW s, s = o.side,
         NEW opp, opp = opposite_side(s), NEW C, C = QueueOf(opp)
  PROVE  /\ req.phase \in Phases /\ req \in Call /\ opp = Opp
         /\ o \in NewOrder /\ o.qty \in Nat /\ o.tick \in Nat /\ req.qty \in Nat
         /\ s \in Sides /\ opp \in Sides /\ s # opp /\ Sides = {s, opp}
         /\ snap \in [Sides -> Seq(Resting)] /\ snap[s] = QueueOf(s) /\ snap[opp] \in Seq(Resting)
         /\ req.outcome = "accepted" /\ req.resting_id = NIL
         /\ C \in Seq(Resting) /\ Sorted(C, opp)
         /\ Progress(req.phase, snap[opp], C, o, req.qty)
<1>1. req.phase \in Phases
  BY DEF Busy, Phases
<1>2. req \in Call /\ req.qty \in Nat /\ o \in NewOrder /\ s \in Sides /\ o.tick \in Ticks
  BY <1>1, CallFields DEF QInv, IInv
<1>3. o.qty \in Nat /\ o.tick \in Nat
  BY <1>2, BookAssumption DEF NewOrder, Ticks
<1>4. opp \in Sides /\ s # opp /\ Sides = {s, opp} /\ opp = Opp
  BY <1>2 DEF Sides, opposite_side, Opp
<1>5. C \in Seq(Resting) /\ Sorted(C, opp)
  BY <1>4, ListFacts DEF Sorted
<1>6. /\ snap \in [Sides -> Seq(Resting)] /\ snap[s] = QueueOf(s)
      /\ req.outcome = "accepted" /\ req.resting_id = NIL
      /\ Progress(req.phase, snap[opp], C, o, req.qty)
  BY DEF CallInv
<1>7. snap[opp] \in Seq(Resting)
  BY <1>4, <1>6
<1> QED BY <1>1, <1>2, <1>3, <1>4, <1>5, <1>6, <1>7

\* A step that stays in the call, and the progress it has to show.
LEMMA CallNext ==
  ASSUME NEW o, req'.order = o, req'.phase \in Busy, NEW s, s = o.side, NEW opp, opp = opposite_side(s),
         snap' \in [Sides -> Seq(Resting)], snap'[s] = QueueOf(s)',
         req'.outcome = "accepted", req'.resting_id = NIL,
         NEW C, C = QueueOf(opp)', Progress(req'.phase, snap'[opp], C, o, req'.qty)
  PROVE  CallInv'
<1> SUFFICES ASSUME NEW o1, NEW s1, NEW opp1, NEW C1, o1 = req'.order, s1 = o1.side,
                    opp1 = opposite_side(s1), C1 = QueueOf(opp1)'
             PROVE  /\ snap' \in [Sides -> Seq(Resting)] /\ snap'[s1] = QueueOf(s1)'
                    /\ req'.outcome = "accepted" /\ req'.resting_id = NIL
                    /\ Progress(req'.phase, snap'[opp1], C1, o1, req'.qty)
  BY DEF CallInv
<1>1. o1 = o /\ s1 = s /\ opp1 = opp
  OBVIOUS
<1> QED BY <1>1

\* The end of the prune.
LEMMA PruneEnd ==
  ASSUME NEW q \in Seq(Resting), NEW o, NEW rem, NEW C, Progress("prune", q, C, o, rem),
         Len(C) # 0 => ~is_expired(C[1], o.now)
  PROVE  C = Makers(q, o) /\ rem = o.qty /\ o.post_only
<1>1. PICK m \in 0..Len(q) : C = Cut(q, 1, m) /\ \A i \in 1..m : is_expired(q[i], o.now)
  BY DEF Progress
<1>2. /\ Len(C) = Len(q) - m /\ Len(q) \in Nat
      /\ \A j \in 1..(Len(q) - m) : C[j] = q[j + m]
  BY <1>1, CutForms
<1>3. m < Len(q) => ~is_expired(q[m + 1], o.now)
  <2> SUFFICES ASSUME m < Len(q) PROVE ~is_expired(q[m + 1], o.now)
    OBVIOUS
  <2>1. Len(C) # 0 /\ 1 \in 1..(Len(q) - m) /\ 1 + m = m + 1
    BY <1>2
  <2>2. C[1] = q[m + 1]
    BY <1>2, <2>1
  <2> QED BY <2>1, <2>2
<1>4. Abstract!Pruned(q, o.now) = C
  BY <1>1, <1>3, PrunedIs
<1>5. rem = o.qty /\ o.post_only
  BY DEF Progress
<1> QED BY <1>4, <1>5 DEF Makers

\* One round of the prune.
LEMMA PruneNext ==
  ASSUME NEW q \in Seq(Resting), NEW o, NEW rem, NEW C, Progress("prune", q, C, o, rem),
         Len(C) # 0, is_expired(C[1], o.now)
  PROVE  Progress("prune", q, Without(C, 1), o, rem)
<1>1. PICK m \in 0..Len(q) : C = Cut(q, 1, m) /\ \A i \in 1..m : is_expired(q[i], o.now)
  BY DEF Progress
<1>2. /\ Len(C) = Len(q) - m /\ Len(q) \in Nat
      /\ \A j \in 1..(Len(q) - m) : C[j] = q[j + m]
  BY <1>1, CutForms
<1>3. 1 \in 1..(Len(q) - m) /\ 1 + m = m + 1 /\ m + 1 \in 0..Len(q)
  BY <1>2
<1>4. Cut(q, 1, m + 1) = [j \in 1..(Len(q) - (m + 1)) |-> q[j + (m + 1)]]
  <2>1. \A k \in 0..Len(q) : Cut(q, 1, k) = [j \in 1..(Len(q) - k) |-> q[j + k]]
    BY CutForms
  <2> QED BY <1>3, <2>1, Zenon
<1>5. Without(C, 1) = [j \in 1..(Len(q) - (m + 1)) |-> q[j + (m + 1)]]
  <2>1. Len(C) - 1 = Len(q) - (m + 1)
    BY <1>2
  <2>2. ASSUME NEW j \in 1..(Len(q) - (m + 1))
        PROVE  C[IF j < 1 THEN j ELSE j + 1] = q[j + (m + 1)]
    <3>1. ~(j < 1) /\ j + 1 \in 1..(Len(q) - m) /\ (j + 1) + m = j + (m + 1)
      BY <1>2
    <3> QED BY <1>2, <3>1
  <2> QED BY <2>1, <2>2 DEF Without
<1>6. \A i \in 1..(m + 1) : is_expired(q[i], o.now)
  <2>1. is_expired(q[m + 1], o.now)
    BY <1>2, <1>3
  <2>2. \A i \in 1..(m + 1) : i \in 1..m \/ i = m + 1
    OBVIOUS
  <2> QED BY <1>1, <2>1, <2>2
<1>7. o.post_only /\ rem = o.qty
  BY DEF Progress
<1> QED BY <1>3, <1>4, <1>5, <1>6, <1>7 DEF Progress

\* A step inside the call changes nothing that PriceTimeBook shows.
LEMMA Stutters ==
  ASSUME req.phase \in Busy, req'.phase \in Busy, req'.order = req.order,
         snap \in [Sides -> Seq(Resting)], snap' = snap
  PROVE  UNCHANGED Abstract!vars
<1>1. snap # NoSnap
  <2>1. DOMAIN snap = Sides /\ "Long" \in Sides
    BY DEF Sides
  <2>2. DOMAIN NoSnap = {}
    BY DEF NoSnap
  <2> QED BY <2>1, <2>2
<1>2. req # Idle /\ req' # Idle /\ req.phase # "done" /\ req'.phase # "done"
  BY DEF Idle, Busy
<1>3. (IF snap = NoSnap THEN Queues ELSE snap)' = IF snap = NoSnap THEN Queues ELSE snap
  BY <1>1
<1>4. (IF req = Idle THEN NoCall ELSE req.order)' = IF req = Idle THEN NoCall ELSE req.order
  BY <1>2
<1>5. /\ (IF req.phase = "done"
          THEN [outcome |-> req.outcome, filled |-> Filled, resting_id |-> req.resting_id]
          ELSE NoAnswer)' = NoAnswer
      /\ (IF req.phase = "done"
          THEN [outcome |-> req.outcome, filled |-> Filled, resting_id |-> req.resting_id]
          ELSE NoAnswer) = NoAnswer
  BY <1>2 DEF NoAnswer
<1> QED BY <1>3, <1>4, <1>5 DEF Abstract!vars

\* The step with which the call takes effect is a step of PriceTimeBook.
LEMMA Executes ==
  ASSUME req.phase \in Busy, NEW o \in NewOrder, o = req.order, Abstract!Execute(o)
  PROVE  Abstract!Next
<1> DEFINE call == IF req = Idle THEN NoCall ELSE req.order
<1>1. req # Idle
  BY DEF Idle, Busy
<1>2. call = o
  BY <1>1
<1>3. o # NoCall
  <2>1. o.side \in Sides /\ NoCall.side \notin Sides
    BY DEF NewOrder, NoCall, Sides
  <2> QED BY <2>1
<1>4. call # NoCall /\ Abstract!Execute(call)
  BY <1>2, <1>3
<1> QED BY <1>4 DEF Abstract!Next

\* A call that ends without resting an order.
LEMMA EndsHere ==
  ASSUME QInv, QInv', Positive, CallInv, req.phase \in Busy, node' = node, UNCHANGED best,
         NEW o, o = req.order, NEW s, s = o.side, NEW opp, opp = opposite_side(s), NEW C, C = QueueOf(opp),
         NEW r, r = Abstract!Submitted(snap[opp], o),
         snap' = NoSnap, req'.phase = "done", req'.order = o, req'.resting_id = NIL,
         req'.outcome = r.outcome, o.qty - req'.qty = r.filled, r.left = C, ~r.rests
  PROVE  CallInv' /\ Abstract!Next
<1>1. /\ s \in Sides /\ opp \in Sides /\ snap \in [Sides -> Seq(Resting)] /\ snap[s] = QueueOf(s)
      /\ o \in NewOrder /\ opp # s
  BY CallFacts
<1>2. \A z \in Sides : QueueOf(z)' = QueueOf(z)
  BY ListsSame
<1>3. QueueOf(opp)' = r.left /\ QueueOf(s)' = snap[s]
  BY <1>1, <1>2
<1>4. req.phase \in {"prune", "check", "match"}
  BY DEF Busy
<1>5. PICK id, rec : /\ id = NIL
                     /\ rec = [id |-> id, tick |-> o.tick, qty |-> o.qty - r.filled, owner |-> o.owner,
                               expiry |-> o.expiry]
  OBVIOUS
<1>6. Abstract!Execute(o)
  <2> USE <1>1, <1>3, <1>4, <1>5
  <2>1. IF r.rests THEN id \in Slots \ (Abstract!IdsOf(r.left) \cup Abstract!IdsOf(snap[s])) ELSE id = NIL
    OBVIOUS
  <2>2. QueueOf(s)' = IF r.rests THEN Abstract!Queued(snap[s], s, rec) ELSE snap[s]
    OBVIOUS
  <2>3. req'.resting_id = id
    OBVIOUS
  <2> QED BY <2>1, <2>2, <2>3, TakesEffect
<1>7. Abstract!Next
  BY <1>1, <1>6, Executes
<1>8. CallInv'
  <2>1. req'.phase \notin Busy /\ snap' = NoSnap
    BY DEF Busy
  <2> QED BY <2>1 DEF CallInv
<1> QED BY <1>7, <1>8

\* MCNext's clause for snap.
Snapped == snap' = IF req'.phase \in {"idle", "done"} THEN NoSnap
                   ELSE IF req = Idle THEN Queues ELSE snap

\* The queues found when the call began are kept while it runs.
LEMMA SnapStays ==
  ASSUME Snapped, req.phase \in Busy, req'.phase \in Busy
  PROVE  snap' = snap
BY DEF Snapped, Busy, Idle

-----------------------------------------------------------------------------
(* Every step of the book is one of PriceTimeBook, or changes nothing it   *)
(* shows.                                                                  *)

\* A round of prune_expired_head is not visible.
LEMMA PruneMaps ==
  ASSUME QInv, QInv', Positive, CallInv, Snapped, PruneExpiredHead
  PROVE  CallInv' /\ UNCHANGED Abstract!vars
<1>0. PICK o, s, opp, C, C1 : /\ o = req.order /\ s = o.side /\ opp = opposite_side(s)
                              /\ C = QueueOf(opp) /\ C1 = QueueOf(opp)'
  OBVIOUS
<1>1. /\ req.phase = "prune" /\ req.phase \in Busy /\ req' = req /\ Touch # NoTick /\ unlink(Front)
      /\ is_expired(node[Front], o.now)
  BY <1>0 DEF PruneExpiredHead, Busy
<1>2. /\ req.phase \in Phases /\ opp = Opp /\ s \in Sides /\ opp \in Sides /\ s # opp
      /\ snap \in [Sides -> Seq(Resting)] /\ snap[s] = QueueOf(s) /\ snap[opp] \in Seq(Resting)
      /\ req.outcome = "accepted" /\ req.resting_id = NIL
      /\ Progress(req.phase, snap[opp], C, o, req.qty)
  BY <1>0, <1>1, CallFacts
<1>3. C1 = Without(C, 1) /\ QueueOf(s)' = QueueOf(s)
  BY <1>0, <1>1, <1>2, UnlinkFrontList
<1>4. Len(C) # 0 /\ is_expired(C[1], o.now)
  BY <1>0, <1>1, <1>2, FrontList
<1>5. Progress("prune", snap[opp], C1, o, req.qty)
  BY <1>1, <1>2, <1>3, <1>4, PruneNext
<1>6. snap' = snap
  BY <1>1, SnapStays
<1>7. UNCHANGED Abstract!vars
  BY <1>1, <1>2, <1>6, Stutters
<1>8. CallInv'
  BY <1>0, <1>1, <1>2, <1>3, <1>5, <1>6, CallNext
<1> QED BY <1>7, <1>8

\* The post-only guard refuses what Submitted refuses.
LEMMA PostOnlyMaps ==
  ASSUME QInv, QInv', Positive, CallInv, Snapped, PostOnlyGuard
  PROVE  CallInv' /\ [Abstract!Next]_(Abstract!vars)
<1>0. PICK o, s, opp, C, q : /\ o = req.order /\ s = o.side /\ opp = opposite_side(s)
                             /\ C = QueueOf(opp) /\ q = snap[opp]
  OBVIOUS
<1>1. /\ req.phase = "prune" /\ req.phase \in Busy /\ node' = node /\ UNCHANGED best
      /\ Touch # NoTick => ~is_expired(node[Front], o.now)
  BY <1>0 DEF PostOnlyGuard, Busy, bookVars
<1>2. /\ req.phase \in Phases /\ req \in Call /\ opp = Opp /\ s \in Sides /\ opp \in Sides /\ s # opp
      /\ o.qty \in Nat /\ q \in Seq(Resting) /\ C \in Seq(Resting)
      /\ snap \in [Sides -> Seq(Resting)] /\ snap[s] = QueueOf(s)
      /\ req.outcome = "accepted" /\ req.resting_id = NIL
      /\ Progress(req.phase, q, C, o, req.qty)
  BY <1>0, <1>1, CallFacts
<1>3. /\ Len(C) \in Nat /\ (Touch = NoTick <=> Len(C) = 0)
      /\ Touch # NoTick => /\ Touch = C[1].tick
                           /\ is_expired(node[Front], o.now) <=> is_expired(C[1], o.now)
  BY <1>0, <1>1, <1>2, FrontList
<1>4. C = Makers(q, o) /\ req.qty = o.qty /\ o.post_only
  <2>1. Len(C) # 0 => ~is_expired(C[1], o.now)
    BY <1>1, <1>3
  <2> QED BY <1>1, <1>2, <2>1, PruneEnd
<1>5. Rejected(C, o) <=> Touch # NoTick /\ Crosses(o.side, o.tick, Touch)
  <2>1. C # <<>> <=> Len(C) # 0
    BY <1>2
  <2> QED BY <1>3, <1>4, <2>1 DEF Rejected
<1>6. \A z \in Sides : QueueOf(z)' = QueueOf(z)
  BY <1>1, ListsSame
<1>7. CASE Rejected(C, o)
  <2>1. req' = [req EXCEPT !.phase = "done", !.outcome = "post_only_rejected"]
    BY <1>0, <1>5, <1>7 DEF PostOnlyGuard
  <2>2. /\ req'.phase = "done" /\ req'.outcome = "post_only_rejected" /\ req'.order = o
        /\ req'.qty = req.qty /\ req'.resting_id = NIL
    BY <1>0, <1>2, <2>1 DEF Call
  <2>3. snap' = NoSnap
    BY <2>2 DEF Snapped
  <2>4. PICK r : r = Abstract!Submitted(q, o)
    OBVIOUS
  <2>5. r.outcome = "post_only_rejected" /\ r.filled = 0 /\ r.left = C /\ ~r.rests
    BY <1>4, <1>7, <2>4, RefusedIs
  <2>6. o.qty - req'.qty = r.filled
    BY <1>2, <1>4, <2>2, <2>5
  <2>7. CallInv' /\ Abstract!Next
    BY <1>0, <1>1, <2>2, <2>3, <2>4, <2>5, <2>6, EndsHere
  <2> QED BY <2>7
<1>8. CASE ~Rejected(C, o)
  <2>1. req' = [req EXCEPT !.phase = "check"]
    BY <1>0, <1>5, <1>8 DEF PostOnlyGuard
  <2>2. /\ req'.phase = "check" /\ req'.phase \in Busy /\ req'.outcome = "accepted" /\ req'.order = o
        /\ req'.qty = o.qty /\ req'.resting_id = NIL
    BY <1>0, <1>2, <1>4, <2>1 DEF Call, Busy
  <2>3. snap' = snap
    BY <1>1, <2>2, SnapStays
  <2>4. UNCHANGED Abstract!vars
    BY <1>0, <1>1, <1>2, <2>2, <2>3, Stutters
  <2>5. Progress("check", q, C, o, o.qty)
    BY <1>4, <1>8 DEF Progress
  <2>6. PICK C1 : C1 = QueueOf(opp)'
    OBVIOUS
  <2>7. C1 = C /\ snap'[s] = QueueOf(s)' /\ snap'[opp] = q
    BY <1>0, <1>2, <1>6, <2>3, <2>6
  <2>8. CallInv'
    BY <1>0, <1>2, <2>2, <2>3, <2>5, <2>6, <2>7, CallNext
  <2> QED BY <2>4, <2>8
<1> QED BY <1>7, <1>8

\* So does the Fill-or-Kill guard.
LEMMA FillOrKillMaps ==
  ASSUME QInv, QInv', Positive, CallInv, Snapped, FillOrKillGuard
  PROVE  CallInv' /\ [Abstract!Next]_(Abstract!vars)
<1>0. PICK o, s, opp, C, q : /\ o = req.order /\ s = o.side /\ opp = opposite_side(s)
                             /\ C = QueueOf(opp) /\ q = snap[opp]
  OBVIOUS
<1>1. req.phase = "check" /\ req.phase \in Busy /\ node' = node /\ UNCHANGED best
  BY DEF FillOrKillGuard, Busy, bookVars
<1>2. /\ req \in Call /\ s \in Sides /\ opp \in Sides /\ s # opp
      /\ o.qty \in Nat /\ o.tick \in Nat /\ q \in Seq(Resting) /\ C \in Seq(Resting) /\ Sorted(C, opp)
      /\ snap \in [Sides -> Seq(Resting)] /\ snap[s] = QueueOf(s)
      /\ req.outcome = "accepted" /\ req.resting_id = NIL
      /\ Progress(req.phase, q, C, o, req.qty)
  BY <1>0, <1>1, CallFacts
<1>3. C = Makers(q, o) /\ req.qty = o.qty /\ ~Rejected(C, o)
  BY <1>1, <1>2 DEF Progress
<1>4. Killed(C, o) <=> req.order.tif = "FOK" /\ available_to_match(req.order) < req.qty
  <2>1. available_to_match(o) = Abstract!Available(C, o)
    BY <1>0, <1>2, AvailableIs
  <2>2. Killed(C, o) <=> o.tif = "FOK" /\ available_to_match(o) < req.qty
    BY <1>3, <2>1 DEF Killed
  <2> QED BY <1>0, <2>2
<1>5. \A z \in Sides : QueueOf(z)' = QueueOf(z)
  BY <1>1, ListsSame
<1>6. CASE Killed(C, o)
  <2>1. req' = [req EXCEPT !.phase = "done", !.outcome = "fill_or_kill_failed"]
    BY <1>4, <1>6 DEF FillOrKillGuard
  <2>2. /\ req'.phase = "done" /\ req'.outcome = "fill_or_kill_failed" /\ req'.order = o
        /\ req'.qty = req.qty /\ req'.resting_id = NIL
    BY <1>0, <1>2, <2>1 DEF Call
  <2>3. snap' = NoSnap
    BY <2>2 DEF Snapped
  <2>4. PICK r : r = Abstract!Submitted(q, o)
    OBVIOUS
  <2>5. r.outcome = "fill_or_kill_failed" /\ r.filled = 0 /\ r.left = C /\ ~r.rests
    BY <1>3, <1>6, <2>4, RefusedIs
  <2>6. o.qty - req'.qty = r.filled
    BY <1>2, <1>3, <2>2, <2>5
  <2>7. CallInv' /\ Abstract!Next
    BY <1>0, <1>1, <2>2, <2>3, <2>4, <2>5, <2>6, EndsHere
  <2> QED BY <2>7
<1>7. CASE ~Killed(C, o)
  <2>1. req' = [req EXCEPT !.phase = "match"]
    BY <1>4, <1>7 DEF FillOrKillGuard
  <2>2. /\ req'.phase = "match" /\ req'.phase \in Busy /\ req'.outcome = "accepted" /\ req'.order = o
        /\ req'.qty = o.qty /\ req'.resting_id = NIL
    BY <1>0, <1>2, <1>3, <2>1 DEF Call, Busy
  <2>3. snap' = snap
    BY <1>1, <2>2, SnapStays
  <2>4. UNCHANGED Abstract!vars
    BY <1>0, <1>1, <1>2, <2>2, <2>3, Stutters
  <2>5. Swath(C, C, o, o.qty, 0, 0)
    BY <1>2, SwathStart
  <2>6. Progress("match", q, C, o, o.qty)
    BY <1>0, <1>2, <1>3, <1>7, <2>5 DEF Progress
  <2>7. PICK C1 : C1 = QueueOf(opp)'
    OBVIOUS
  <2>8. C1 = C /\ snap'[s] = QueueOf(s)' /\ snap'[opp] = q
    BY <1>0, <1>2, <1>5, <2>3, <2>7
  <2>9. CallInv'
    BY <1>0, <1>2, <2>2, <2>3, <2>6, <2>7, <2>8, CallNext
  <2> QED BY <2>4, <2>9
<1> QED BY <1>6, <1>7

\* What a round of the matching loop has in hand.
LEMMA MatchFacts ==
  ASSUME QInv, Positive, CallInv, req.phase = "match", NEW o, o = req.order, NEW s, s = o.side,
         NEW opp, opp = opposite_side(s), NEW C, C = QueueOf(opp)
  PROVE  /\ \E M \in Seq(Resting) :
              /\ M = Makers(snap[opp], o) /\ Sorted(M, opp) /\ ~Rejected(M, o) /\ ~Killed(M, o)
              /\ \E m, d : Swath(M, C, o, req.qty, m, d)
         /\ Len(C) \in Nat /\ 1 \in Nat
         /\ Matching <=> req.qty > 0 /\ Len(C) # 0 /\ Hit(C, o, 1)
         /\ Matching => /\ Touch # NoTick /\ node[Front].qty = C[1].qty
                        /\ Skipped(node[Front]) <=> ~Good(C, o, 1)
<1>1. req.phase \in Busy /\ req.phase \in Phases
  BY DEF Busy, Phases
<1>2. Progress("match", snap[opp], C, o, req.qty) /\ opp = Opp
  BY <1>1, CallFacts
<1>3. /\ Len(C) \in Nat /\ (Touch = NoTick <=> Len(C) = 0)
      /\ Touch # NoTick => /\ Touch = C[1].tick /\ node[Front].qty = C[1].qty
                           /\ node[Front].owner = C[1].owner
                           /\ is_expired(node[Front], o.now) <=> is_expired(C[1], o.now)
  BY <1>1, <1>2, FrontList
<1>4. Matching <=> req.qty > 0 /\ Len(C) # 0 /\ Hit(C, o, 1)
  BY <1>3 DEF Matching, Hit
<1>5. Matching => Touch # NoTick
  BY DEF Matching
<1>6. Touch # NoTick => (Skipped(node[Front]) <=> ~Good(C, o, 1))
  BY <1>3 DEF Skipped, Good
<1> QED BY <1>2, <1>3, <1>4, <1>5, <1>6 DEF Progress

\* A round of the matching loop that goes on.
LEMMA RoundMaps ==
  ASSUME QInv, QInv', Positive, CallInv, Snapped, req.phase = "match",
         NEW o, o = req.order, NEW s, s = o.side, NEW opp, opp = opposite_side(s),
         QueueOf(s)' = QueueOf(s), req' = [req EXCEPT !.qty = req'.qty],
         NEW M \in Seq(Resting), M = Makers(snap[opp], o), Sorted(M, opp), ~Rejected(M, o), ~Killed(M, o),
         NEW C1, C1 = QueueOf(opp)', NEW m, NEW d, Swath(M, C1, o, req'.qty, m, d)
  PROVE  CallInv' /\ UNCHANGED Abstract!vars
<1>1. req.phase \in Busy
  BY DEF Busy
<1>2. PICK C, q : C = QueueOf(opp) /\ q = snap[opp]
  OBVIOUS
<1>3. /\ req \in Call /\ s \in Sides /\ opp \in Sides
      /\ snap \in [Sides -> Seq(Resting)] /\ snap[s] = QueueOf(s)
      /\ req.outcome = "accepted" /\ req.resting_id = NIL
  BY <1>1, <1>2, CallFacts
<1>4. /\ req'.phase = "match" /\ req'.phase \in Busy /\ req'.outcome = "accepted" /\ req'.order = o
      /\ req'.resting_id = NIL
  <2>1. PICK k : k = req'.qty
    OBVIOUS
  <2>2. req' = [req EXCEPT !.qty = k]
    BY <2>1
  <2> QED BY <1>3, <2>2 DEF Call, Busy
<1>5. snap' = snap
  BY <1>1, <1>4, SnapStays
<1>6. UNCHANGED Abstract!vars
  BY <1>1, <1>3, <1>4, <1>5, Stutters
<1>7. Progress("match", q, C1, o, req'.qty)
  BY <1>2 DEF Progress
<1>8. snap'[s] = QueueOf(s)' /\ snap'[opp] = q
  BY <1>2, <1>3, <1>5
<1>9. CallInv'
  BY <1>3, <1>4, <1>5, <1>7, <1>8, CallNext
<1> QED BY <1>6, <1>9

\* No round of the matching loop is visible.
LEMMA LoopMaps ==
  ASSUME QInv, QInv', Positive, CallInv, Snapped, DropHead \/ FillHead \/ PartFillHead
  PROVE  CallInv' /\ UNCHANGED Abstract!vars
<1>0. PICK o, s, opp, C, C1 : /\ o = req.order /\ s = o.side /\ opp = opposite_side(s)
                              /\ C = QueueOf(opp) /\ C1 = QueueOf(opp)'
  OBVIOUS
<1>1. req.phase = "match" /\ req.phase \in Busy /\ req.phase \in Phases /\ Matching
  BY DEF DropHead, FillHead, PartFillHead, Matching, Busy, Phases
<1>2. /\ req \in Call /\ s \in Sides /\ opp \in Sides /\ s # opp /\ opp = Opp
      /\ o.qty \in Nat /\ o.tick \in Nat /\ req.qty \in Nat /\ C \in Seq(Resting)
  BY <1>0, <1>1, CallFacts
<1>3. /\ \E M \in Seq(Resting) :
           /\ M = Makers(snap[opp], o) /\ Sorted(M, opp) /\ ~Rejected(M, o) /\ ~Killed(M, o)
           /\ \E m, d : Swath(M, C, o, req.qty, m, d)
      /\ req.qty > 0 /\ Len(C) # 0 /\ Hit(C, o, 1) /\ Touch # NoTick /\ node[Front].qty = C[1].qty
      /\ Skipped(node[Front]) <=> ~Good(C, o, 1)
  BY <1>0, <1>1, MatchFacts
<1>4. PICK M \in Seq(Resting) :
           /\ M = Makers(snap[opp], o) /\ Sorted(M, opp) /\ ~Rejected(M, o) /\ ~Killed(M, o)
           /\ \E m, d : Swath(M, C, o, req.qty, m, d)
  BY <1>3
<1>5. PICK m, d : Swath(M, C, o, req.qty, m, d)
  BY <1>4
<1>6. CASE DropHead \/ FillHead
  <2>1. unlink(Front)
    BY <1>6 DEF DropHead, FillHead
  <2>2. C1 = Without(C, 1) /\ QueueOf(s)' = QueueOf(s)
    BY <1>0, <1>1, <1>2, <1>3, <2>1, UnlinkFrontList
  <2>3. PICK left : left = IF Good(C, o, 1) THEN req.qty - C[1].qty ELSE req.qty
    OBVIOUS
  <2>4. Good(C, o, 1) => C[1].qty <= req.qty
    BY <1>3, <1>6 DEF DropHead, FillHead
  <2>5. req' = [req EXCEPT !.qty = left] /\ req'.qty = left
    <3>1. CASE Good(C, o, 1)
      <4>1. req' = [req EXCEPT !.qty = @ - node[Front].qty]
        BY <1>3, <1>6, <3>1 DEF DropHead, FillHead
      <4>2. left = req.qty - node[Front].qty
        BY <1>3, <2>3, <3>1
      <4> QED BY <1>2, <4>1, <4>2 DEF Call
    <3>2. CASE ~Good(C, o, 1)
      <4>1. req' = req
        BY <1>3, <1>6, <3>2 DEF DropHead, FillHead
      <4> QED BY <1>2, <2>3, <3>2, <4>1 DEF Call
    <3> QED BY <3>1, <3>2
  <2>6. Swath(M, C1, o, left, m + 1, 0)
    BY <1>2, <1>3, <1>5, <2>2, <2>3, <2>4, SwathNext
  <2>7. PICK m1, d1 : Swath(M, C1, o, req'.qty, m1, d1)
    BY <2>5, <2>6
  <2>8. req' = [req EXCEPT !.qty = req'.qty]
    BY <2>5
  <2> QED BY <1>0, <1>1, <1>4, <2>2, <2>7, <2>8, RoundMaps
<1>7. CASE PartFillHead
  <2>1. Len(C) # 0 => C1 = [C EXCEPT ![1].qty = @ - req.qty]
    BY <1>0, <1>2, <1>7, ListPartFill
  <2>2. QueueOf(s)' = QueueOf(s)
    BY <1>0, <1>2, <1>7, ListPartFill
  <2>3. req' = [req EXCEPT !.qty = 0] /\ req'.qty = 0
    BY <1>2, <1>7 DEF PartFillHead, Call
  <2>4. Good(C, o, 1) /\ C[1].qty > req.qty
    BY <1>3, <1>7 DEF PartFillHead
  <2>5. PICK rem : rem = req.qty
    OBVIOUS
  <2>6. Swath(M, C1, o, 0, m, rem)
    <3>1. /\ C1 = [C EXCEPT ![1].qty = @ - rem] /\ Swath(M, C, o, rem, m, d) /\ rem > 0
          /\ C[1].qty > rem /\ Good(C, o, 1) /\ Len(C) # 0 /\ Hit(C, o, 1) /\ o.qty \in Nat
      BY <1>2, <1>3, <1>5, <2>1, <2>4, <2>5
    <3>2. Swath(M, [C EXCEPT ![1].qty = @ - rem], o, 0, m, rem)
      BY <3>1, SwathPart
    <3> QED BY <3>1, <3>2
  <2>7. PICK m1, d1 : Swath(M, C1, o, req'.qty, m1, d1)
    BY <2>3, <2>6
  <2>8. req' = [req EXCEPT !.qty = req'.qty]
    BY <2>3
  <2> QED BY <1>0, <1>1, <1>4, <2>2, <2>7, <2>8, RoundMaps
<1> QED BY <1>6, <1>7

\* When the loop ends, what it has done is what Submitted says.
LEMMA LoopEnds ==
  ASSUME QInv, Positive, CallInv, req.phase = "match", ~Matching,
         NEW o, o = req.order, NEW s, s = o.side, NEW opp, opp = opposite_side(s), NEW C, C = QueueOf(opp),
         NEW q, q = snap[opp], NEW r, r = Abstract!Submitted(q, o)
  PROVE  /\ r.outcome = "accepted" /\ r.filled = o.qty - req.qty /\ r.left = C
         /\ r.rests <=> req.qty > 0 /\ o.tif \in {"GTC", "GTT"}
<1>1. req.phase \in Busy
  BY DEF Busy
<1>2. o.qty \in Nat /\ o.tick \in Nat /\ s \in Sides /\ req.qty \in Nat
  BY <1>1, CallFacts
<1>3. PICK M \in Seq(Resting) :
           /\ M = Makers(snap[opp], o) /\ Sorted(M, opp) /\ ~Rejected(M, o) /\ ~Killed(M, o)
           /\ \E m, d : Swath(M, C, o, req.qty, m, d)
  BY MatchFacts
<1>4. PICK rem : rem = req.qty
  OBVIOUS
<1>5. PICK m, d : Swath(M, C, o, rem, m, d)
  BY <1>3, <1>4
<1>6. rem = 0 \/ Len(C) = 0 \/ ~Hit(C, o, 1)
  <2>1. ~(rem > 0 /\ Len(C) # 0 /\ Hit(C, o, 1)) /\ rem \in Nat
    BY <1>2, <1>4, MatchFacts
  <2> QED BY <2>1
<1>7. Sorted(M, opposite_side(o.side))
  BY <1>3
<1>8. Abstract!Swept(M, o) = C /\ Abstract!Min({o.qty, Abstract!Available(M, o)}) = o.qty - rem
  BY <1>2, <1>5, <1>6, <1>7, SwathEnd
<1>9. /\ r.outcome = "accepted" /\ r.filled = Abstract!Min({o.qty, Abstract!Available(M, o)})
      /\ r.left = Abstract!Swept(M, o)
      /\ r.rests <=> r.filled < o.qty /\ o.tif \in {"GTC", "GTT"}
  <2>1. M = Makers(q, o) /\ ~Rejected(M, o) /\ ~Killed(M, o)
    BY <1>3
  <2>2. Sweeps(r, M, o)
    BY <2>1, AcceptedIs
  <2> QED BY <2>2 DEF Sweeps
<1>10. PICK oq : oq = o.qty /\ oq \in Nat
  BY <1>2
<1>11. oq - rem < oq <=> rem > 0
  BY <1>2, <1>4, <1>10
<1> QED BY <1>4, <1>8, <1>9, <1>10, <1>11

\* An order that ends without resting has swept.
LEMMA FinishMaps ==
  ASSUME QInv, QInv', Positive, CallInv, Snapped, Finish
  PROVE  CallInv' /\ Abstract!Next
<1>0. PICK o, s, opp, C : o = req.order /\ s = o.side /\ opp = opposite_side(s) /\ C = QueueOf(opp)
  OBVIOUS
<1>1. /\ req.phase = "match" /\ req.phase \in Busy /\ ~Matching /\ node' = node /\ UNCHANGED best
      /\ req' = [req EXCEPT !.phase = "done"] /\ (req.qty = 0 \/ o.tif \in {"IOC", "FOK"})
  BY <1>0 DEF Finish, Busy, bookVars
<1>2. /\ req \in Call /\ o.qty \in Nat /\ req.qty \in Nat
      /\ req.outcome = "accepted" /\ req.resting_id = NIL
  BY <1>0, <1>1, CallFacts
<1>3. /\ req'.phase = "done" /\ req'.outcome = "accepted" /\ req'.order = o
      /\ req'.qty = req.qty /\ req'.resting_id = NIL
  BY <1>0, <1>1, <1>2 DEF Call
<1>4. snap' = NoSnap
  BY <1>3 DEF Snapped
<1>5. PICK r : r = Abstract!Submitted(snap[opp], o)
  OBVIOUS
<1>6. /\ r.outcome = "accepted" /\ r.filled = o.qty - req.qty /\ r.left = C
      /\ r.rests <=> req.qty > 0 /\ o.tif \in {"GTC", "GTT"}
  BY <1>0, <1>1, <1>5, LoopEnds
<1>7. ~r.rests
  <2>1. ~(req.qty > 0 /\ o.tif \in {"GTC", "GTT"})
    BY <1>1
  <2> QED BY <1>6, <2>1
<1>8. o.qty - req'.qty = r.filled
  BY <1>3, <1>6
<1> QED BY <1>0, <1>1, <1>3, <1>4, <1>5, <1>6, <1>7, <1>8, EndsHere

\* An order that rests has swept, and its remainder stands where Queued puts it.
LEMMA RestMaps ==
  ASSUME QInv, QInv', Positive, CallInv, Snapped, Rest
  PROVE  CallInv' /\ Abstract!Next
<1>0. PICK o, s, opp, C, id : /\ o = req.order /\ s = o.side /\ opp = opposite_side(s)
                              /\ C = QueueOf(opp) /\ id = alloc
  OBVIOUS
<1>1. /\ req.phase = "match" /\ req.phase \in Busy /\ ~Matching
      /\ req.qty > 0 /\ o.tif \in {"GTC", "GTT"}
  BY <1>0, Zenon DEF Rest, Busy
<1>2. /\ req \in Call /\ o \in NewOrder /\ o.qty \in Nat /\ req.qty \in Nat
      /\ s \in Sides /\ opp \in Sides /\ s # opp
      /\ snap \in [Sides -> Seq(Resting)] /\ snap[s] = QueueOf(s) /\ req.outcome = "accepted"
  BY <1>0, <1>1, CallFacts
<1>3. PICK r : r = Abstract!Submitted(snap[opp], o)
  OBVIOUS
<1>4. /\ r.outcome = "accepted" /\ r.filled = o.qty - req.qty /\ r.left = C
      /\ r.rests <=> req.qty > 0 /\ o.tif \in {"GTC", "GTT"}
  BY <1>0, <1>1, <1>3, LoopEnds
<1>5. r.rests
  BY <1>1, <1>4
<1>6. PICK oq, rem : oq = o.qty /\ rem = req.qty /\ oq \in Nat /\ rem \in Nat
  BY <1>2
<1>7. oq - (oq - rem) = rem
  BY <1>6
<1>8. PICK e : e = [id |-> alloc, tick |-> o.tick, qty |-> req.qty, owner |-> o.owner, expiry |-> o.expiry]
  OBVIOUS
<1>9. /\ alloc \in Slots \ live
      /\ req' = [req EXCEPT !.phase = "done", !.resting_id = alloc]
      /\ \A z \in Sides : z # s => QueueOf(z)' = QueueOf(z)
      /\ QueueOf(s)' = Abstract!Queued(QueueOf(s), s, e)
  BY <1>0, <1>8, RestList
<1>10. /\ req'.phase = "done" /\ req'.outcome = "accepted" /\ req'.order = o
       /\ req'.qty = rem /\ req'.resting_id = id
  BY <1>0, <1>2, <1>6, <1>9 DEF Call
<1>11. snap' = NoSnap
  BY <1>10 DEF Snapped
<1>12. e = [id |-> id, tick |-> o.tick, qty |-> o.qty - r.filled, owner |-> o.owner, expiry |-> o.expiry]
  <2>1. o.qty - r.filled = req.qty
    BY <1>4, <1>6, <1>7
  <2> QED BY <1>0, <1>8, <2>1
<1>13. id \in Slots \ (Abstract!IdsOf(r.left) \cup Abstract!IdsOf(snap[s]))
  <2>1. /\ \A k \in 1..Len(C) : C[k].id \in live
        /\ \A k \in 1..Len(QueueOf(s)) : QueueOf(s)[k].id \in live
    BY <1>0, <1>2, ListFacts
  <2>2. /\ \A i \in Abstract!IdsOf(r.left) : i \in live
        /\ \A i \in Abstract!IdsOf(snap[s]) : i \in live
    BY <1>2, <1>4, <2>1 DEF Abstract!IdsOf
  <2> QED BY <1>0, <1>9, <2>2
<1>14. Abstract!Execute(o)
  <2>1. req.phase \in {"prune", "check", "match"}
    BY <1>1
  <2>2. IF r.rests THEN id \in Slots \ (Abstract!IdsOf(r.left) \cup Abstract!IdsOf(snap[s])) ELSE id = NIL
    BY <1>5, <1>13
  <2>3. QueueOf(opp)' = r.left
    BY <1>0, <1>2, <1>4, <1>9
  <2>4. QueueOf(s)' = IF r.rests THEN Abstract!Queued(snap[s], s, e) ELSE snap[s]
    BY <1>2, <1>5, <1>9
  <2>5. o.qty - req'.qty = r.filled /\ req'.outcome = r.outcome
    BY <1>4, <1>6, <1>10
  <2> QED BY <1>0, <1>2, <1>3, <1>10, <1>11, <1>12, <2>1, <2>2, <2>3, <2>4, <2>5, TakesEffect
<1>15. Abstract!Next
  BY <1>0, <1>1, <1>2, <1>14, Executes
<1>16. CallInv'
  <2>1. req'.phase \notin Busy /\ snap' = NoSnap
    BY <1>10, <1>11 DEF Busy
  <2> QED BY <2>1 DEF CallInv
<1> QED BY <1>15, <1>16

\* A call begins.
LEMMA SubmitMaps ==
  ASSUME QInv, QInv', Positive, CallInv, Snapped, NEW o \in NewOrder, Submit(o)
  PROVE  CallInv' /\ Abstract!Next
<1>0. PICK s, opp, C : s = o.side /\ opp = opposite_side(s) /\ C = QueueOf(opp)
  OBVIOUS
<1>1. /\ req = Idle /\ node' = node /\ UNCHANGED best
      /\ req' = [order |-> o, phase |-> IF o.post_only THEN "prune" ELSE "check", qty |-> o.qty,
                 outcome |-> "accepted", resting_id |-> NIL]
  BY DEF Submit, bookVars
<1>2. req.phase \notin Busy /\ req.phase # "done"
  BY <1>1 DEF Idle, Busy
<1>3. /\ req'.phase \in Busy /\ req'.phase # "done" /\ req' # Idle /\ req'.order = o
      /\ req'.qty = o.qty /\ req'.outcome = "accepted" /\ req'.resting_id = NIL
      /\ (req'.phase = "prune" /\ o.post_only) \/ (req'.phase = "check" /\ ~o.post_only)
  BY <1>1 DEF Idle, Busy
<1>4. snap = NoSnap
  BY <1>2 DEF CallInv
<1>5. snap' = Queues
  BY <1>1, <1>3 DEF Snapped, Busy
<1>6. s \in Sides /\ opp \in Sides /\ o.tick \in Ticks
  BY <1>0 DEF NewOrder, Sides, opposite_side
<1>7. /\ \A z \in Sides : QueueOf(z)' = QueueOf(z) /\ QueueOf(z) \in Seq(Resting) /\ Queues[z] = QueueOf(z)
      /\ Queues \in [Sides -> Seq(Resting)]
  <2>1. \A z \in Sides : QueueOf(z) \in Seq(Resting)
    BY ListFacts
  <2>2. \A z \in Sides : QueueOf(z)' = QueueOf(z)
    BY <1>1, ListsSame
  <2> QED BY <2>1, <2>2 DEF Queues
<1>8. Progress(req'.phase, C, C, o, o.qty)
  <2>1. C \in Seq(Resting)
    BY <1>0, <1>6, <1>7
  <2>2. CASE req'.phase = "prune" /\ o.post_only
    <3>1. Cut(C, 1, 0) = C /\ 0 \in 0..Len(C)
      BY <2>1, CutForms
    <3>2. \E m \in 0..Len(C) : C = Cut(C, 1, m) /\ \A i \in 1..m : is_expired(C[i], o.now)
      <4>1. \A i \in 1..0 : is_expired(C[i], o.now)
        OBVIOUS
      <4> QED BY <3>1, <4>1
    <3> QED BY <2>2, <3>2 DEF Progress
  <2>3. CASE req'.phase = "check" /\ ~o.post_only
    <3>1. C = Makers(C, o) /\ ~Rejected(C, o)
      BY <2>3 DEF Makers, Rejected
    <3> QED BY <2>3, <3>1 DEF Progress
  <2> QED BY <1>3, <2>2, <2>3
<1>9. CallInv'
  <2>1. PICK C1 : C1 = QueueOf(opp)'
    OBVIOUS
  <2>2. /\ snap' \in [Sides -> Seq(Resting)] /\ snap'[s] = QueueOf(s)' /\ snap'[opp] = C /\ C1 = C
    BY <1>0, <1>5, <1>6, <1>7, <2>1
  <2>3. Progress(req'.phase, snap'[opp], C1, o, req'.qty)
    BY <1>3, <1>8, <2>2
  <2> QED BY <1>0, <1>3, <2>1, <2>2, <2>3, CallNext
<1>10. Abstract!Next
  <2> DEFINE queue == IF snap = NoSnap THEN Queues ELSE snap
             call == IF req = Idle THEN NoCall ELSE req.order
             answer == IF req.phase = "done"
                       THEN [outcome |-> req.outcome, filled |-> Filled, resting_id |-> req.resting_id]
                       ELSE NoAnswer
  <2>1. snap' # NoSnap
    <3>1. DOMAIN Queues = Sides /\ "Long" \in Sides
      BY DEF Queues, Sides
    <3>2. DOMAIN NoSnap = {}
      BY DEF NoSnap
    <3> QED BY <1>5, <3>1, <3>2
  <2>2. queue' = queue
    BY <1>4, <1>5, <2>1
  <2>3. call = NoCall /\ call' = o
    BY <1>1, <1>3
  <2>4. answer = NoAnswer /\ answer' = NoAnswer
    BY <1>2, <1>3 DEF NoAnswer
  <2>5. Abstract!Submit(o)
    BY <2>2, <2>3, <2>4 DEF Abstract!Submit
  <2> QED BY <2>5 DEF Abstract!Next
<1> QED BY <1>9, <1>10

\* A call returns.
LEMMA ReturnMaps ==
  ASSUME QInv, QInv', CallInv, Snapped, Return
  PROVE  CallInv' /\ Abstract!Next
<1>1. req.phase = "done" /\ req' = Idle /\ node' = node /\ UNCHANGED best
  BY DEF Return, bookVars
<1>2. req'.phase = "idle" /\ req'.phase \notin Busy
  BY <1>1 DEF Idle, Busy
<1>3. snap = NoSnap /\ snap' = NoSnap
  BY <1>1, <1>2 DEF CallInv, Busy, Snapped
<1>4. CallInv'
  BY <1>2, <1>3 DEF CallInv
<1>5. Abstract!Next
  <2> DEFINE queue == IF snap = NoSnap THEN Queues ELSE snap
             call == IF req = Idle THEN NoCall ELSE req.order
             answer == IF req.phase = "done"
                       THEN [outcome |-> req.outcome, filled |-> Filled, resting_id |-> req.resting_id]
                       ELSE NoAnswer
  <2>1. queue' = queue
    <3>1. \A z \in Sides : QueueOf(z)' = QueueOf(z)
      BY <1>1, ListsSame
    <3>2. Queues' = Queues
      BY <3>1 DEF Queues
    <3> QED BY <1>3, <3>2
  <2>2. call' = NoCall /\ answer' = NoAnswer
    BY <1>1, <1>2
  <2>3. answer # NoAnswer
    <3>1. DOMAIN answer = {"outcome", "filled", "resting_id"}
      BY <1>1
    <3>2. DOMAIN NoAnswer = {"outcome"}
      BY DEF NoAnswer
    <3>3. "filled" \in {"outcome", "filled", "resting_id"} /\ "filled" \notin {"outcome"}
      OBVIOUS
    <3> HIDE DEF answer
    <3> QED BY <3>1, <3>2, <3>3
  <2>4. Abstract!Return
    BY <2>1, <2>2, <2>3 DEF Abstract!Return
  <2> QED BY <2>4 DEF Abstract!Next
<1> QED BY <1>4, <1>5

\* cancel takes one order out of its queue.
LEMMA CancelMaps ==
  ASSUME QInv, QInv', Positive, CallInv, Snapped, NEW i \in Slots, Cancel(i)
  PROVE  CallInv' /\ Abstract!Next
<1>1. req = Idle /\ req' = Idle /\ i \in live /\ unlink(i)
  BY DEF Cancel, live
<1>2. req.phase = "idle" /\ req'.phase = "idle" /\ req.phase \notin Busy
  BY <1>1 DEF Idle, Busy
<1>3. snap = NoSnap /\ snap' = NoSnap
  BY <1>2 DEF CallInv, Snapped
<1>4. CallInv'
  BY <1>1, <1>2, <1>3 DEF CallInv
<1>5. PICK s, C : s = node[i].side /\ C = QueueOf(s)
  OBVIOUS
<1>6. s \in Sides
  BY <1>1, <1>5, NodeFields DEF QInv, IInv
<1>7. PICK k \in 1..Len(C) : C[k].id = i
  BY <1>1, <1>5, <1>6, ListFacts
<1>8. QueueOf(s)' = Without(C, k) /\ \A z \in Sides : z # s => QueueOf(z)' = QueueOf(z)
  BY <1>1, <1>5, <1>7, ListUnlink
<1>9. ASSUME NEW z \in Sides
      PROVE  QueueOf(z)' = Abstract!Kept(QueueOf(z), {x \in 1..Len(QueueOf(z)) : QueueOf(z)[x].id # i})
  <2>0. PICK q, S : q = QueueOf(z) /\ S = {x \in 1..Len(q) : q[x].id # i}
    OBVIOUS
  <2>1. /\ q \in Seq(Resting) /\ Len(q) \in Nat
        /\ \A x \in 1..Len(q) : q[x].id \in live /\ node[q[x].id].side = z
        /\ \A x, y \in 1..Len(q) : q[x].id = q[y].id => x = y
    <3>1. q = QueueOf(z)
      BY <2>0
    <3>2. q \in Seq(Resting) /\ Len(q) \in Nat
      BY <3>1, ListFacts
    <3>3. \A x \in 1..Len(q) : q[x].id \in live /\ node[q[x].id].side = z
      BY <3>1, ListFacts
    <3>4. \A x, y \in 1..Len(q) : q[x].id = q[y].id => x = y
      BY <3>1, ListFacts
    <3> QED BY <3>2, <3>3, <3>4
  <2>2. CASE z = s
    <3>1. q = C
      BY <1>5, <2>0, <2>2
    <3>2. k \in 1..(Len(q) + 1) /\ k \in (k - 1)..Len(q)
      BY <1>7, <2>1, <3>1
    <3>3. S = {x \in 1..Len(q) : x < k \/ x > k}
      <4>1. \A x \in 1..Len(q) : q[x].id # i <=> x < k \/ x > k
        <5>1. \A x \in 1..Len(q) : q[x].id # i <=> x # k
          BY <1>7, <2>1, <3>1
        <5>2. \A x \in 1..Len(q) : x # k <=> x < k \/ x > k
          BY <1>7, <2>1, <3>1
        <5> QED BY <5>1, <5>2
      <4> QED BY <2>0, <4>1
    <3>4. Abstract!Kept(q, S) = Cut(q, k, k)
      BY <2>1, <3>2, <3>3, KeptIs
    <3>5. Cut(q, k, k) = Without(q, k)
      <4>1. \A x \in 1..Len(q) : Cut(q, x, x) = Without(q, x)
        BY <2>1, CutForms
      <4> QED BY <1>7, <3>1, <4>1
    <3> QED BY <1>8, <2>0, <2>2, <3>1, <3>4, <3>5
  <2>3. CASE z # s
    <3>1. S = {x \in 1..Len(q) : x < 1 \/ x > 0}
      <4>1. \A x \in 1..Len(q) : q[x].id # i /\ x > 0
        BY <1>5, <2>1, <2>3
      <4> QED BY <2>0, <4>1
    <3>2. 1 \in 1..(Len(q) + 1) /\ 0 \in (1 - 1)..Len(q)
      BY <2>1
    <3>3. Abstract!Kept(q, S) = Cut(q, 1, 0)
      BY <2>1, <3>1, <3>2, KeptIs
    <3>4. Cut(q, 1, 0) = q
      BY <2>1, CutForms
    <3> QED BY <1>8, <2>0, <2>3, <3>3, <3>4
  <2> QED BY <2>2, <2>3
<1>10. Abstract!Next
  <2> DEFINE queue == IF snap = NoSnap THEN Queues ELSE snap
             call == IF req = Idle THEN NoCall ELSE req.order
             answer == IF req.phase = "done"
                       THEN [outcome |-> req.outcome, filled |-> Filled, resting_id |-> req.resting_id]
                       ELSE NoAnswer
             kept == [z \in Sides |-> Abstract!Kept(queue[z], {x \in 1..Len(queue[z]) : queue[z][x].id # i})]
  <2>1. queue' = kept
    <3>1. queue = Queues /\ queue' = Queues'
      BY <1>3
    <3>2. \A z \in Sides : Queues[z] = QueueOf(z)
      BY DEF Queues
    <3>3. Queues' = [z \in Sides |-> QueueOf(z)']
      BY DEF Queues
    <3>4. \A z \in Sides :
            QueueOf(z)' = Abstract!Kept(Queues[z], {x \in 1..Len(Queues[z]) : Queues[z][x].id # i})
      <4> TAKE z \in Sides
      <4>1. Queues[z] = QueueOf(z)
        BY <3>2
      <4> QED BY <1>9, <4>1
    <3>5. kept = [z \in Sides |->
                    Abstract!Kept(Queues[z], {x \in 1..Len(Queues[z]) : Queues[z][x].id # i})]
      BY <3>1
    <3>6. Queues' = kept
      <4> HIDE DEF kept, queue
      <4> QED BY <3>3, <3>4, <3>5
    <3> QED BY <3>1, <3>6
  <2>2. call = NoCall /\ call' = NoCall /\ answer' = NoAnswer /\ answer = NoAnswer
    BY <1>1, <1>2
  <2>3. Abstract!Cancel(i)
    BY <2>1, <2>2 DEF Abstract!Cancel, Abstract!Sides, Sides
  <2> QED BY <2>3 DEF Abstract!Next
<1> QED BY <1>4, <1>10

\* A step that changes nothing.
LEMMA NothingMaps ==
  ASSUME QInv, QInv', CallInv, UNCHANGED <<vars, snap>>
  PROVE  CallInv' /\ UNCHANGED Abstract!vars
<1>1. req' = req /\ snap' = snap /\ node' = node /\ UNCHANGED best
  BY DEF vars
<1>2. \A z \in Sides : QueueOf(z)' = QueueOf(z)
  BY <1>1, ListsSame
<1>3. CallInv'
  <2>1. CASE req.phase \notin Busy
    BY <1>1, <2>1 DEF CallInv
  <2>2. CASE req.phase \in Busy
    <3>0. PICK o, s, opp, C, q : /\ o = req.order /\ s = o.side /\ opp = opposite_side(s)
                                 /\ C = QueueOf(opp)' /\ q = snap[opp]
      OBVIOUS
    <3>1. opp \in Sides /\ s \in Sides
      <4>1. req.phase \in Phases /\ TypeOK
        BY <2>2 DEF Busy, Phases, QInv, IInv
      <4>2. s \in Sides
        BY <3>0, <4>1, CallFields
      <4> QED BY <3>0, <4>2 DEF Sides, opposite_side
    <3>2. C = QueueOf(opp) /\ QueueOf(s)' = QueueOf(s)
      BY <1>2, <3>0, <3>1
    <3>3. /\ snap \in [Sides -> Seq(Resting)] /\ snap[s] = QueueOf(s)
          /\ req.outcome = "accepted" /\ req.resting_id = NIL
          /\ Progress(req.phase, q, C, o, req.qty)
      BY <2>2, <3>0, <3>2 DEF CallInv
    <3>4. req'.order = o /\ req'.phase \in Busy /\ req'.outcome = "accepted" /\ req'.resting_id = NIL
      BY <1>1, <2>2, <3>0, <3>3
    <3>5. snap' \in [Sides -> Seq(Resting)] /\ snap'[s] = QueueOf(s)'
      BY <1>1, <3>2, <3>3
    <3>6. Progress(req'.phase, snap'[opp], C, o, req'.qty)
      BY <1>1, <3>0, <3>3
    <3> QED BY <3>0, <3>4, <3>5, <3>6, CallNext
  <2> QED BY <2>1, <2>2
<1>4. Queues' = Queues
  BY <1>2 DEF Queues
<1>5. Filled' = Filled
  BY <1>1 DEF Filled
<1> QED BY <1>1, <1>3, <1>4, <1>5 DEF Abstract!vars

\* Every step of the book.
LEMMA StepMaps ==
  ASSUME QInv, QInv', Positive, CallInv, [MCNext]_<<vars, snap>>
  PROVE  CallInv' /\ [Abstract!Next]_(Abstract!vars)
<1>1. CASE UNCHANGED <<vars, snap>>
  BY <1>1, NothingMaps
<1>2. CASE MCNext
  <2>1. Snapped
    BY <1>2 DEF MCNext, Snapped
  <2>2. CASE \E o \in NewOrder : Submit(o)
    BY <2>1, <2>2, SubmitMaps
  <2>3. CASE PruneExpiredHead
    BY <2>1, <2>3, PruneMaps
  <2>4. CASE PostOnlyGuard
    BY <2>1, <2>4, PostOnlyMaps
  <2>5. CASE FillOrKillGuard
    BY <2>1, <2>5, FillOrKillMaps
  <2>6. CASE DropHead \/ FillHead \/ PartFillHead
    BY <2>1, <2>6, LoopMaps
  <2>7. CASE Rest
    BY <2>1, <2>7, RestMaps
  <2>8. CASE Finish
    BY <2>1, <2>8, FinishMaps
  <2>9. CASE Return
    BY <2>1, <2>9, ReturnMaps
  <2>10. CASE \E i \in Slots : Cancel(i)
    BY <2>1, <2>10, CancelMaps
  <2>11. Next
    BY <1>2 DEF MCNext
  <2> QED BY <2>2, <2>3, <2>4, <2>5, <2>6, <2>7, <2>8, <2>9, <2>10, <2>11 DEF Next, Step
<1> QED BY <1>1, <1>2

\* The empty book.
LEMMA InitMaps == MCInit => Positive /\ CallInv /\ Abstract!Init
<1> SUFFICES ASSUME MCInit PROVE Positive /\ CallInv /\ Abstract!Init
  OBVIOUS
<1>1. /\ node = <<>> /\ req = Idle /\ snap = NoSnap /\ \A s \in Sides : best[s] = NoTick
  BY DEF MCInit, Init
<1>2. Positive
  <2>1. DOMAIN node = {}
    BY <1>1
  <2> QED BY <2>1 DEF Positive, live
<1>3. req.phase = "idle"
  BY <1>1 DEF Idle
<1>4. CallInv
  BY <1>1, <1>3 DEF CallInv, Busy
<1>5. \A s \in Sides : QueueOf(s) = <<>>
  BY <1>1 DEF QueueOf
<1>6. Queues = [s \in Sides |-> <<>>]
  BY <1>5 DEF Queues
<1>7. Abstract!Init
  BY <1>1, <1>3, <1>6 DEF Abstract!Init, Abstract!Sides, Sides
<1> QED BY <1>2, <1>4, <1>7

\* For every book, submit and cancel do what PriceTimeBook says and nothing else:
\* the fills, removals and resting order of a submit are those of the one sweep,
\* whatever rounds its loops go through, and a cancel takes its order alone.
THEOREM BookIsPriceTime == MCSpec => ImplementsPriceTimeBook
<1> DEFINE RInv == QInv /\ Positive /\ CallInv
<1>1. MCInit => RInv
  BY InitInv, InitLists, InitMaps DEF MCInit, QInv
<1>2. RInv /\ [MCNext]_<<vars, snap>> => RInv' /\ [Abstract!Next]_(Abstract!vars)
  <2> SUFFICES ASSUME RInv, [MCNext]_<<vars, snap>>
               PROVE  RInv' /\ [Abstract!Next]_(Abstract!vars)
    OBVIOUS
  <2>1. [Next]_vars
    BY DEF MCNext
  <2>2. QInv'
    BY <2>1, ListsKept
  <2>3. Positive'
    BY <2>1, PositiveKept
  <2> QED BY <2>2, <2>3, StepMaps
<1>3. MCInit => Abstract!Init
  BY InitMaps
<1> HIDE DEF RInv
<1> QED BY <1>1, <1>2, <1>3, PTL DEF MCSpec, ImplementsPriceTimeBook, Abstract!Spec
=============================================================================
