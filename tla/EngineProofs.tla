---------------------------- MODULE EngineProofs ----------------------------
(***************************************************************************)
(* Proofs about the parts of MCEngines, for every value of their           *)
(* constants: the market maker's requote loop never loses sight of an      *)
(* order, the backstop maker takes the decisions of its reference, the     *)
(* occupancy bitmap of the price ladder is exact, and a match proof exists *)
(* exactly for what may be claimed.                                        *)
(***************************************************************************)
EXTENDS MCEngines, FiniteSums, SequenceTheorems

-----------------------------------------------------------------------------
(* The requote loop *)

Offer == [rests : BOOLEAN, fresh : BOOLEAN, lost : BOOLEAN]
Levels == Len(HalfSpreads)

\* The most posts the cycle has made so far, and the most cancels it has left.
PostsSoFar ==
  IF botPc = "wait" THEN 2 * Levels
  ELSE 2 * (level - 1) + (IF botPc = "ask" THEN 1 ELSE IF botPc \in {"retire1", "retire2"} THEN 2 ELSE 0)
CancelsLeft ==
  IF botPc = "wait" THEN 0
  ELSE 2 * (Levels - level + 1) - (IF botPc = "retire2" THEN 1 ELSE 0)

BotTypes ==
  /\ botPc \in {"wait", "quote", "bid", "ask", "retire1", "retire2"}
  /\ level \in 1..Levels
  /\ restingIds \in Seq(Slots) /\ oldIds \in Seq(Slots)
  /\ midNow \in Nat /\ inventoryEstimate \in Int
  /\ offers \in [Slots -> Offer]

\* A fresh order that is known is in the new list.
FreshKnown == \A s \in Slots : offers[s].fresh /\ ~offers[s].lost => s \in ToSet(restingIds)

\* Two posts and two cancels a level.
PostsAndCancels == Len(restingIds) <= PostsSoFar /\ Len(oldIds) <= CancelsLeft

BotInv ==
  BotTypes /\ BotTracksItsOrders /\ FreshKnown /\ PostsAndCancels /\ QuotesAroundMid

LEMMA LevelsNat == Levels \in Nat \ {0}
<1>1. Len(HalfSpreads) \in Nat /\ (Len(HalfSpreads) = 0 => HalfSpreads = <<>>)
  BY MakerBotAssumption
<1> QED BY <1>1, MakerBotAssumption DEF Levels

\* What a list holds after an id joins it or its first one leaves.
LEMMA ListOfIds ==
  ASSUME NEW T, NEW ids \in Seq(T)
  PROVE  /\ \A s : s \in ToSet(ids) <=> \E k \in 1..Len(ids) : ids[k] = s
         /\ ToSet(ids) \subseteq T
BY DEF ToSet

LEMMA IdJoins ==
  ASSUME NEW T, NEW ids \in Seq(T), NEW s \in T
  PROVE  /\ Append(ids, s) \in Seq(T) /\ Len(Append(ids, s)) = Len(ids) + 1
         /\ ToSet(Append(ids, s)) = ToSet(ids) \cup {s}
<1> DEFINE l == Append(ids, s)
<1>1. l \in Seq(T) /\ Len(l) = Len(ids) + 1 /\ l[Len(ids) + 1] = s /\ \A k \in 1..Len(ids) : l[k] = ids[k]
  OBVIOUS
<1> HIDE DEF l
<1>2. \A x : x \in ToSet(l) <=> x \in ToSet(ids) \cup {s}
  <2> TAKE x
  <2>1. x \in ToSet(l) <=> \E k \in 1..Len(ids) + 1 : l[k] = x
    BY <1>1, ListOfIds
  <2>2. x \in ToSet(ids) <=> \E k \in 1..Len(ids) : ids[k] = x
    BY ListOfIds
  <2>3. \A k \in 1..Len(ids) + 1 : k \in 1..Len(ids) \/ k = Len(ids) + 1
    OBVIOUS
  <2>4. Len(ids) + 1 \in 1..Len(ids) + 1 /\ \A k \in 1..Len(ids) : k \in 1..Len(ids) + 1
    OBVIOUS
  <2> QED BY <1>1, <2>1, <2>2, <2>3, <2>4
<1> QED BY <1>1, <1>2 DEF l

LEMMA IdLeaves ==
  ASSUME NEW T, NEW ids \in Seq(T), ids # <<>>
  PROVE  /\ Tail(ids) \in Seq(T) /\ Len(Tail(ids)) = Len(ids) - 1 /\ Len(ids) \in Nat \ {0}
         /\ Head(ids) \in T /\ Head(ids) \in ToSet(ids)
         /\ ToSet(ids) = ToSet(Tail(ids)) \cup {Head(ids)}
<1> DEFINE l == Tail(ids)
<1>1. /\ l \in Seq(T) /\ Len(l) = Len(ids) - 1 /\ Len(ids) \in Nat \ {0}
      /\ Head(ids) \in T /\ Head(ids) = ids[1]
      /\ \A k \in 1..Len(l) : l[k] = ids[k + 1]
  BY HeadTailProperties
<1> HIDE DEF l
<1>2. \A x : x \in ToSet(ids) <=> x \in ToSet(l) \cup {Head(ids)}
  <2> TAKE x
  <2>1. x \in ToSet(l) <=> \E k \in 1..Len(l) : l[k] = x
    BY <1>1, ListOfIds
  <2>2. x \in ToSet(ids) <=> \E k \in 1..Len(ids) : ids[k] = x
    BY ListOfIds
  <2>3. ASSUME NEW k \in 1..Len(ids) PROVE k = 1 \/ (k - 1 \in 1..Len(l) /\ ids[k] = l[k - 1])
    BY <1>1
  <2>4. ASSUME NEW k \in 1..Len(l) PROVE k + 1 \in 1..Len(ids) /\ ids[k + 1] = l[k]
    BY <1>1
  <2>5. 1 \in 1..Len(ids)
    BY <1>1
  <2> QED BY <1>1, <2>1, <2>2, <2>3, <2>4, <2>5
<1> QED BY <1>1, <1>2 DEF l

\* The clamp of a spread to 1..5000.
LEMMA ClampedNat == ASSUME NEW x \in Int PROVE Clamped(x) \in Nat
<1> DEFINE one == 1
           most == 5000
           up == Max({x, one})
           c == Min({up, most})
<1>1. one \in Nat /\ most \in Nat
  OBVIOUS
<1>2. Clamped(x) = c
  BY DEF Clamped
<1> HIDE DEF one, most
<1>3. up \in {x, one} /\ one <= up
  BY <1>1, MaxTwo
<1>4. up \in Nat
  BY <1>1, <1>3
<1> HIDE DEF up
<1>5. c \in {up, most}
  BY <1>1, <1>4, MinTwo
<1> QED BY <1>1, <1>2, <1>4, <1>5

LEMMA BotStart == BotInit => BotInv
<1> SUFFICES ASSUME BotInit PROVE BotInv
  OBVIOUS
<1>1. NoOffer \in Offer /\ ~NoOffer.fresh
  BY DEF NoOffer, Offer
<1>2. BotTypes
  BY <1>1, LevelsNat DEF BotInit, BotTypes
<1>3. BotTracksItsOrders /\ FreshKnown
  BY <1>1 DEF BotInit, BotTracksItsOrders, FreshKnown, Mine
<1>4. PostsAndCancels
  <2>1. Len(restingIds) = 0 /\ Len(oldIds) = 0
    BY DEF BotInit
  <2> QED BY <2>1, LevelsNat DEF BotInit, PostsAndCancels, PostsSoFar, CancelsLeft
<1> QED BY <1>2, <1>3, <1>4 DEF BotInit, BotInv, QuotesAroundMid

LEMMA StartKeeps ==
  ASSUME BotInv, NEW mid \in Mids, NEW c \in Collaterals \cup {-1}, StartCycle(mid, c)
  PROVE  BotInv'
<1>1. CASE mid = 0
  <2>1. UNCHANGED <<botPc, level, restingIds, oldIds, quoting, offers>>
    BY <1>1 DEF StartCycle, Skipped
  <2> QED BY <2>1 DEF BotInv, BotTypes, BotTracksItsOrders, FreshKnown, PostsAndCancels, PostsSoFar,
                      CancelsLeft, QuotesAroundMid, Mine, quoting
<1>2. CASE mid # 0
  <2>1. /\ botPc = "wait" /\ oldIds' = restingIds /\ restingIds' = <<>> /\ midNow' = mid
        /\ ReadCollateral(c) /\ botPc' = "quote" /\ level' = 1
        /\ offers' = [s \in Slots |-> [offers[s] EXCEPT !.fresh = FALSE]]
    BY <1>2 DEF StartCycle
  <2>2. inventoryEstimate' \in Int
    BY <2>1, MakerBotAssumption DEF ReadCollateral, BotInv, BotTypes
  <2>3. BotTypes'
    <3>1. \A s \in Slots : [offers[s] EXCEPT !.fresh = FALSE] \in Offer
      BY DEF BotInv, BotTypes, Offer
    <3> QED BY <2>1, <2>2, <3>1, LevelsNat, MakerBotAssumption DEF BotInv, BotTypes
  <2>4. \A s \in Slots : /\ ~offers'[s].fresh
                         /\ offers'[s].lost = offers[s].lost
                         /\ offers[s] = NoOffer => offers'[s] = NoOffer
    <3> SUFFICES ASSUME NEW s \in Slots
                 PROVE  /\ ~offers'[s].fresh /\ offers'[s].lost = offers[s].lost
                        /\ offers[s] = NoOffer => offers'[s] = NoOffer
      OBVIOUS
    <3>1. offers[s] \in Offer /\ offers'[s] = [offers[s] EXCEPT !.fresh = FALSE]
      BY <2>1 DEF BotInv, BotTypes
    <3>2. [NoOffer EXCEPT !.fresh = FALSE] = NoOffer
      <4> DEFINE v == [NoOffer EXCEPT !.fresh = FALSE]
      <4>1. v \in Offer /\ v.rests = FALSE /\ v.fresh = FALSE /\ v.lost = FALSE
        BY DEF NoOffer, Offer
      <4> HIDE DEF v
      <4>2. v = [rests |-> FALSE, fresh |-> FALSE, lost |-> FALSE]
        BY <4>1 DEF Offer
      <4> QED BY <4>2 DEF NoOffer, v
    <3>3. ~[offers[s] EXCEPT !.fresh = FALSE].fresh /\ [offers[s] EXCEPT !.fresh = FALSE].lost = offers[s].lost
      BY <3>1 DEF Offer
    <3> QED BY <3>1, <3>2, <3>3
  <2>5. FreshKnown'
    BY <2>4 DEF FreshKnown
  <2>6. BotTracksItsOrders'
    <3>1. oldIds = <<>>
      <4>1. Len(oldIds) <= 0 /\ oldIds \in Seq(Slots)
        BY <2>1 DEF BotInv, BotTypes, PostsAndCancels, CancelsLeft
      <4> QED BY <4>1
    <3>2. ToSet(oldIds) = {}
      BY <3>1 DEF ToSet
    <3> QED BY <2>1, <2>4, <3>2 DEF BotInv, BotTracksItsOrders, Mine
  <2>7. PostsAndCancels'
    <3>1. Len(restingIds') = 0 /\ Len(oldIds') <= 2 * Levels
      BY <2>1 DEF BotInv, PostsAndCancels, PostsSoFar
    <3>2. PostsSoFar' = 0 /\ CancelsLeft' = 2 * Levels
      BY <2>1, LevelsNat DEF PostsSoFar, CancelsLeft
    <3> QED BY <3>1, <3>2 DEF PostsAndCancels
  <2> QED BY <2>1, <2>3, <2>5, <2>6, <2>7 DEF BotInv, QuotesAroundMid
<1> QED BY <1>1, <1>2

LEMMA QuoteKeeps ==
  ASSUME BotInv, NEW b \in HalfSpreads[level], NEW a \in HalfSpreads[level], Quote(b, a)
  PROVE  BotInv'
<1> DEFINE bid_bps == Clamped(b + inventoryEstimate * SkewPerUnit)
           ask_bps == Clamped(a - inventoryEstimate * SkewPerUnit)
<1>1. /\ botPc = "quote" /\ botPc' = "bid"
      /\ bid' = midNow - (midNow * bid_bps) \div BPS_OF_ONE
      /\ ask' = midNow + (midNow * ask_bps) \div BPS_OF_ONE
      /\ UNCHANGED <<level, restingIds, oldIds, midNow, inventoryEstimate, offers>>
  BY DEF Quote
<1>2. b \in Nat /\ a \in Nat
  BY MakerBotAssumption DEF BotInv, BotTypes, Levels
<1>3. bid_bps \in Nat /\ ask_bps \in Nat
  <2>1. inventoryEstimate * SkewPerUnit \in Int
    BY MakerBotAssumption DEF BotInv, BotTypes
  <2> DEFINE skew == inventoryEstimate * SkewPerUnit
  <2> HIDE DEF skew
  <2>2. skew \in Int
    BY <2>1 DEF skew
  <2>3. Clamped(b + skew) \in Nat /\ Clamped(a - skew) \in Nat
    BY <1>2, <2>2, ClampedNat
  <2> QED BY <2>3 DEF skew
<1> HIDE DEF bid_bps, ask_bps
<1>4. midNow \in Nat
  BY DEF BotInv, BotTypes
<1>5. midNow * bid_bps \in Nat /\ midNow * ask_bps \in Nat
  BY <1>3, <1>4
<1> DEFINE below == (midNow * bid_bps) \div BPS_OF_ONE
           above == (midNow * ask_bps) \div BPS_OF_ONE
<1>6. below \in Nat /\ above \in Nat
  BY <1>5 DEF BPS_OF_ONE
<1>7. bid' = midNow - below /\ ask' = midNow + above
  BY <1>1
<1> HIDE DEF below, above
<1>8. bid' <= midNow /\ midNow <= ask'
  BY <1>4, <1>6, <1>7
<1>9. PostsSoFar' = PostsSoFar /\ CancelsLeft' = CancelsLeft
  BY <1>1 DEF PostsSoFar, CancelsLeft
<1> QED BY <1>1, <1>8, <1>9 DEF BotInv, BotTypes, BotTracksItsOrders, FreshKnown, PostsAndCancels,
                                QuotesAroundMid, Mine

\* One more post counted.
LEMMA PostCounts ==
  ASSUME BotInv, botPc \in {"bid", "ask"}, botPc' = After(botPc), level' = level
  PROVE  /\ PostsSoFar' = PostsSoFar + 1 /\ CancelsLeft' = CancelsLeft
         /\ botPc' \in {"ask", "retire1"} /\ PostsSoFar \in Nat
<1>1. level \in 1..Levels /\ Levels \in Nat
  BY LevelsNat DEF BotInv, BotTypes
<1>2. CASE botPc = "bid"
  BY <1>1, <1>2 DEF After, PostsSoFar, CancelsLeft
<1>3. CASE botPc = "ask"
  BY <1>1, <1>3 DEF After, PostsSoFar, CancelsLeft
<1> QED BY <1>2, <1>3

LEMMA PostKeeps ==
  ASSUME BotInv, NEW s \in Slots, PostOffer(s)
  PROVE  BotInv'
<1> DEFINE new == [rests |-> TRUE, fresh |-> TRUE, lost |-> FALSE]
<1>1. /\ botPc \in {"bid", "ask"} /\ botPc' = After(botPc)
      /\ offers' = [offers EXCEPT ![s] = new]
      /\ restingIds' = Append(restingIds, s)
      /\ UNCHANGED <<level, oldIds, bid, ask, midNow, inventoryEstimate>>
  BY DEF PostOffer
<1>2. PostsSoFar' = PostsSoFar + 1 /\ CancelsLeft' = CancelsLeft /\ botPc' \in {"ask", "retire1"} /\ PostsSoFar \in Nat
  BY <1>1, PostCounts
<1>3. BotTypes
  BY DEF BotInv
<1>4. /\ restingIds' \in Seq(Slots) /\ Len(restingIds') = Len(restingIds) + 1
      /\ ToSet(restingIds') = ToSet(restingIds) \cup {s}
  BY <1>1, <1>3, IdJoins DEF BotTypes
<1>5. new \in Offer
  BY DEF Offer
<1>6. BotTypes'
  BY <1>1, <1>2, <1>3, <1>4, <1>5 DEF BotTypes
<1> HIDE DEF new
<1>7. \A t \in Slots : t # s => offers'[t] = offers[t]
  BY <1>1, <1>3 DEF BotTypes
<1>8. BotTracksItsOrders' /\ FreshKnown'
  BY <1>1, <1>4, <1>7 DEF BotInv, BotTracksItsOrders, FreshKnown, Mine
<1>9. PostsAndCancels'
  <2>1. Len(restingIds) \in Nat /\ Len(restingIds) <= PostsSoFar /\ Len(oldIds) <= CancelsLeft
    BY <1>3 DEF BotTypes, BotInv, PostsAndCancels
  <2> QED BY <1>1, <1>2, <1>4, <2>1 DEF PostsAndCancels
<1>10. QuotesAroundMid'
  BY <1>1 DEF BotInv, QuotesAroundMid
<1> QED BY <1>6, <1>8, <1>9, <1>10 DEF BotInv

LEMMA PostFailsKeeps ==
  ASSUME BotInv, NEW taken \in SUBSET Slots, PostOfferFails(taken)
  PROVE  BotInv'
<1> DEFINE unknown == [rests |-> TRUE, fresh |-> TRUE, lost |-> TRUE]
<1>1. /\ botPc \in {"bid", "ask"} /\ botPc' = After(botPc)
      /\ offers' = [s \in Slots |-> IF s \in taken THEN unknown ELSE offers[s]]
      /\ UNCHANGED <<level, restingIds, oldIds, bid, ask, midNow, inventoryEstimate>>
  BY DEF PostOfferFails, quoting
<1>2. PostsSoFar' = PostsSoFar + 1 /\ CancelsLeft' = CancelsLeft /\ botPc' \in {"ask", "retire1"} /\ PostsSoFar \in Nat
  BY <1>1, PostCounts
<1>3. unknown \in Offer /\ unknown.lost
  BY DEF Offer
<1> HIDE DEF unknown
<1>4. BotTypes'
  BY <1>1, <1>2, <1>3 DEF BotInv, BotTypes
<1>5. \A t \in Slots : offers'[t] = offers[t] \/ offers'[t].lost
  BY <1>1, <1>3
<1>6. BotTracksItsOrders' /\ FreshKnown'
  BY <1>1, <1>5 DEF BotInv, BotTracksItsOrders, FreshKnown, Mine
<1>7. PostsAndCancels'
  <2>1. Len(restingIds) \in Nat /\ Len(restingIds) <= PostsSoFar /\ Len(oldIds) <= CancelsLeft
    BY DEF BotTypes, BotInv, PostsAndCancels
  <2> QED BY <1>1, <1>2, <2>1 DEF PostsAndCancels
<1>8. QuotesAroundMid'
  BY <1>1 DEF BotInv, QuotesAroundMid
<1> QED BY <1>4, <1>6, <1>7, <1>8 DEF BotInv

\* One cancel fewer is left, until the cycle ends with none.
LEMMA CancelCounts ==
  ASSUME BotInv, botPc \in {"retire1", "retire2"}, NextCall
  PROVE  /\ PostsSoFar' = PostsSoFar /\ CancelsLeft' = CancelsLeft - 1 /\ CancelsLeft \in Nat \ {0}
         /\ botPc' \in {"retire2", "quote", "wait"} /\ level' \in 1..Levels
<1>1. level \in 1..Levels /\ Levels \in Nat \ {0} /\ Levels = Len(HalfSpreads)
  BY LevelsNat DEF BotInv, BotTypes, Levels
<1>2. CASE botPc = "retire1"
  BY <1>1, <1>2 DEF NextCall, PostsSoFar, CancelsLeft
<1>3. CASE botPc = "retire2" /\ level < Levels
  BY <1>1, <1>3 DEF NextCall, PostsSoFar, CancelsLeft
<1>4. CASE botPc = "retire2" /\ ~(level < Levels)
  <2>1. level = Levels
    BY <1>1, <1>4
  <2>2. botPc' = "wait" /\ level' = 1
    BY <1>1, <1>4 DEF NextCall
  <2> QED BY <1>1, <1>4, <2>1, <2>2 DEF PostsSoFar, CancelsLeft
<1> QED BY <1>2, <1>3, <1>4

LEMMA RetireKeeps ==
  ASSUME BotInv, NEW arrives \in BOOLEAN, Retire(arrives)
  PROVE  BotInv'
<1>1. /\ botPc \in {"retire1", "retire2"} /\ NextCall
      /\ UNCHANGED <<restingIds, bid, ask, midNow, inventoryEstimate>>
  BY DEF Retire, quoting
<1>2. /\ PostsSoFar' = PostsSoFar /\ CancelsLeft' = CancelsLeft - 1 /\ CancelsLeft \in Nat \ {0}
      /\ botPc' \in {"retire2", "quote", "wait"} /\ level' \in 1..Levels
  BY <1>1, CancelCounts
<1>3. BotTypes
  BY DEF BotInv
<1>4. /\ oldIds' \in Seq(Slots) /\ offers' \in [Slots -> Offer] /\ Len(oldIds') <= CancelsLeft - 1
      /\ \A s \in Slots : \/ offers'[s] = offers[s] /\ (s \in ToSet(oldIds) => s \in ToSet(oldIds'))
                          \/ offers'[s] = NoOffer
                          \/ offers'[s].lost
  <2>0. Len(oldIds) <= CancelsLeft /\ Len(oldIds) \in Nat /\ oldIds \in Seq(Slots)
    BY DEF BotInv, BotTypes, PostsAndCancels
  <2>1. CASE oldIds = <<>>
    <3>1. UNCHANGED <<oldIds, offers>> /\ Len(oldIds) = 0
      BY <2>1 DEF Retire
    <3> QED BY <1>2, <1>3, <3>1 DEF BotTypes
  <2>2. CASE oldIds # <<>>
    <3> DEFINE h == Head(oldIds)
               v == IF arrives \/ offers[h] = NoOffer THEN NoOffer ELSE [offers[h] EXCEPT !.lost = TRUE]
    <3>1. oldIds' = Tail(oldIds) /\ offers' = [offers EXCEPT ![h] = v]
      BY <2>2 DEF Retire
    <3>2. /\ Tail(oldIds) \in Seq(Slots) /\ Len(Tail(oldIds)) = Len(oldIds) - 1
          /\ h \in Slots /\ ToSet(oldIds) = ToSet(Tail(oldIds)) \cup {h}
      BY <2>0, <2>2, IdLeaves
    <3> HIDE DEF h
    <3>3. offers \in [Slots -> Offer] /\ offers[h] \in Offer
      BY <1>3, <3>2 DEF BotTypes
    <3>4. v \in Offer /\ (v = NoOffer \/ v.lost)
      BY <3>3 DEF Offer, NoOffer
    <3> HIDE DEF v
    <3>5. offers' \in [Slots -> Offer] /\ offers'[h] = v /\ \A s \in Slots : s # h => offers'[s] = offers[s]
      BY <3>1, <3>2, <3>3, <3>4
    <3>6. Len(oldIds') <= CancelsLeft - 1
      BY <1>2, <2>0, <3>1, <3>2
    <3> QED BY <3>1, <3>2, <3>4, <3>5, <3>6
  <2> QED BY <2>1, <2>2
<1>5. BotTypes'
  BY <1>1, <1>2, <1>3, <1>4 DEF BotTypes
<1>6. BotTracksItsOrders' /\ FreshKnown'
  <2>1. ~NoOffer.fresh
    BY DEF NoOffer
  <2> QED BY <1>1, <1>4, <2>1 DEF BotInv, BotTracksItsOrders, FreshKnown, Mine
<1>7. PostsAndCancels'
  BY <1>1, <1>2, <1>4 DEF BotInv, PostsAndCancels
<1>8. QuotesAroundMid'
  BY <1>2 DEF QuotesAroundMid
<1> QED BY <1>5, <1>6, <1>7, <1>8 DEF BotInv

LEMMA LeavesKeeps ==
  ASSUME BotInv, NEW s \in Slots, Leaves(s)
  PROVE  BotInv'
<1>1. /\ offers' = [offers EXCEPT ![s] = NoOffer]
      /\ UNCHANGED <<botPc, level, restingIds, oldIds, quoting>>
  BY DEF Leaves
<1>2. NoOffer \in Offer /\ ~NoOffer.fresh
  BY DEF NoOffer, Offer
<1>3. offers' \in [Slots -> Offer] /\ \A t \in Slots : offers'[t] = offers[t] \/ offers'[t] = NoOffer
  BY <1>1, <1>2 DEF BotInv, BotTypes
<1>4. BotTypes' /\ BotTracksItsOrders' /\ FreshKnown'
  BY <1>1, <1>2, <1>3 DEF BotInv, BotTypes, BotTracksItsOrders, FreshKnown, Mine, quoting
<1>5. PostsAndCancels' /\ QuotesAroundMid'
  BY <1>1 DEF BotInv, PostsAndCancels, PostsSoFar, CancelsLeft, QuotesAroundMid, quoting
<1> QED BY <1>4, <1>5 DEF BotInv

\* A fresh order goes in a cancel only if its slot is on the list of the cycle
\* before, and then it is on both.
LEMMA FreshCancelled ==
  ASSUME BotInv, BotNext
  PROVE  FreshCancelledOnlyByRecycling
<1> SUFFICES ASSUME NEW s \in Slots, offers[s].fresh, ~offers[s].lost, offers'[s] = NoOffer,
                    botPc \in {"retire1", "retire2"}, botPc' # botPc
             PROVE  s \in ToSet(oldIds) /\ s \in ToSet(restingIds)
  BY DEF FreshCancelledOnlyByRecycling
<1>1. s \in ToSet(restingIds)
  BY DEF BotInv, FreshKnown
<1>2. PICK arrives \in BOOLEAN : Retire(arrives)
  BY DEF BotNext, StartCycle, Quote, PostOffer, PostOfferFails, Leaves
<1>3. offers[s] # NoOffer
  BY DEF NoOffer
<1>4. offers' # offers
  BY <1>3
<1>5. oldIds # <<>>
  BY <1>2, <1>4 DEF Retire
<1>6. \A t \in Slots : t # Head(oldIds) => offers'[t] = offers[t]
  BY <1>2, <1>5 DEF Retire, BotInv, BotTypes
<1>7. s = Head(oldIds)
  BY <1>3, <1>6
<1>8. Head(oldIds) \in ToSet(oldIds)
  BY <1>5, IdLeaves DEF BotInv, BotTypes
<1> QED BY <1>1, <1>7, <1>8

LEMMA BotStep ==
  ASSUME BotInv, [BotNext]_botVars
  PROVE  BotInv'
<1>1. CASE UNCHANGED botVars
  BY <1>1 DEF botVars, quoting, BotInv, BotTypes, BotTracksItsOrders, FreshKnown, PostsAndCancels,
              PostsSoFar, CancelsLeft, QuotesAroundMid, Mine
<1>2. CASE BotNext
  BY <1>2, StartKeeps, QuoteKeeps, PostKeeps, PostFailsKeeps, RetireKeeps, LeavesKeeps DEF BotNext
<1> QED BY <1>1, <1>2

\* For every number of levels and slots, all spreads, skews and inventories, and
\* whatever is filled, swept away or lost in between (bin/market_maker.rs): an
\* order of the bot's has its id in one of the two lists unless a message was
\* lost, two cancels a level retire the whole last cycle, the quote lies around
\* the mid, and a fresh order is cancelled only by the recycling of slots.
THEOREM BotAlwaysKeepsTrack == MCSpec => BotKeepsTrack
<1> DEFINE Keeps == scenario = "bot" =>
                      /\ FreshCancelledOnlyByRecycling
                      /\ BotTracksItsOrders' /\ CycleRetiresAll' /\ QuotesAroundMid'
<1>1. MCInit => BotInv
  BY BotStart DEF MCInit
<1>2. [MCNext]_allVars => [BotNext]_botVars
  BY DEF MCNext, allVars
<1>3. BotInv /\ [BotNext]_botVars => BotInv' /\ [Keeps]_botVars
  <2> SUFFICES ASSUME BotInv, [BotNext]_botVars PROVE BotInv' /\ [Keeps]_botVars
    OBVIOUS
  <2>1. BotInv'
    BY BotStep
  \* No cancels are left at the end of a cycle, so no old id is.
  <2>2. CycleRetiresAll'
    <3>1. botPc' = "wait" => Len(oldIds') <= 0 /\ oldIds' \in Seq(Slots)
      BY <2>1 DEF BotInv, BotTypes, PostsAndCancels, CancelsLeft
    <3> QED BY <3>1 DEF CycleRetiresAll
  <2>3. CASE BotNext
    BY <2>1, <2>2, <2>3, FreshCancelled DEF BotInv
  <2> QED BY <2>1, <2>3
<1> HIDE DEF Keeps
<1>4. MCSpec => [][Keeps]_botVars
  BY <1>1, <1>2, <1>3, PTL DEF MCSpec
<1> QED BY <1>4 DEF BotKeepsTrack, Keeps

-----------------------------------------------------------------------------
(* The two makers *)

Positive == Nat \ {0}

\* Print histories hold prices, and so do the quotes not yet printed; an untouched
\* ledger is empty; LedgersAddUp.
MakerInv ==
  /\ maker.history \in Seq(Positive) /\ Len(maker.history) <= MaxHistory
  /\ maker = [history |-> maker.history, inventory |-> maker.inventory, pnl |-> maker.pnl]
  /\ maker.inventory \in Int /\ maker.pnl \in Int
  /\ unprinted \in Seq(Positive) /\ cash \in Int
  /\ steps \in 0..MaxSteps
  /\ pnlLedger = [cumulative |-> pnlLedger.cumulative, inventory |-> pnlLedger.inventory]
  /\ pnlLedger.inventory = maker.inventory /\ pnlLedger.cumulative \in Int
  /\ IF maker.history = <<>>
     THEN maker.inventory = 0 /\ cash = 0 /\ maker.pnl = 0 /\ pnlLedger.cumulative = 0
     ELSE cash + maker.inventory * LastPrint = maker.pnl + pnlLedger.cumulative

LEMMA MakerConstants ==
  /\ Dynamic \in BOOLEAN
  /\ SpreadBps \in Nat /\ MaxSpreadBps \in Nat /\ WidenBps \in Nat /\ InventoryRef \in Nat
  /\ LookBps \in Nat /\ Cap \in Nat /\ QuoteWindow \in Positive /\ LookWindow \in Positive
  /\ MaxHistory \in Positive /\ Prices \subseteq Positive /\ MaxQty \in Nat /\ MaxSteps \in Nat
  /\ SpreadBps < BPS /\ MaxSpreadBps < BPS /\ BPS \in Positive
BY BackstopAssumption, BackstopMakerAssumption, ReferenceMakerAssumption DEF BPS, Positive

\* The last n prints: how many, which, and where both crates start to read.
LEMMA RecentIs ==
  ASSUME NEW T, NEW h \in Seq(T), NEW n \in Positive
  PROVE  LET from == IF Len(h) > n THEN Len(h) - n + 1 ELSE 1 IN
         /\ Recent(h, n) \in Seq(T) /\ Len(Recent(h, n)) = Len(h) - from + 1
         /\ Len(Recent(h, n)) <= n
         /\ \A k \in 1..Len(h) - from + 1 : Recent(h, n)[k] = h[from + k - 1]
         /\ h # <<>> => /\ Len(Recent(h, n)) \in Nat \ {0}
                        /\ Recent(h, n)[Len(Recent(h, n))] = h[Len(h)]
         /\ Recent(h, n) = SubSeq(h, Rises(Len(h), n) + 1, Len(h))
<1> DEFINE l == Len(h)
           from == IF l > n THEN l - n + 1 ELSE 1
           r == SubSeq(h, from, l)
<1>1. l \in Nat /\ h \in [1..l -> T] /\ (h # <<>> => l # 0) /\ n \in Nat \ {0}
  BY LenProperties DEF Positive
<1>2. from \in Nat /\ from >= 1 /\ from <= l + 1 /\ l - from + 1 <= n /\ (l # 0 => from <= l)
  BY <1>1
<1>3. Recent(h, n) = r
  BY DEF Recent
<1>4. Rises(l, n) + 1 = from
  BY <1>1 DEF Rises
<1> HIDE DEF from
<1>5. \A i \in from..l : h[i] \in T
  BY <1>1, <1>2
<1>6. /\ r \in Seq(T) /\ Len(r) = (IF from <= l THEN l - from + 1 ELSE 0)
      /\ \A i \in 1..l - from + 1 : r[i] = h[from + i - 1]
  BY <1>1, <1>2, <1>5, SubSeqProperties
<1>7. (IF from <= l THEN l - from + 1 ELSE 0) = l - from + 1
  BY <1>1, <1>2
<1>8. Recent(h, n) = SubSeq(h, Rises(l, n) + 1, l)
  BY <1>3, <1>4
<1> HIDE DEF r, l
<1>9. h # <<>> => Len(r) \in Nat \ {0} /\ r[Len(r)] = h[l]
  <2> SUFFICES ASSUME h # <<>> PROVE Len(r) \in Nat \ {0} /\ r[Len(r)] = h[l]
    OBVIOUS
  <2>1. l # 0 /\ from <= l
    BY <1>1, <1>2
  <2>2. Len(r) = l - from + 1 /\ l - from + 1 \in 1..l - from + 1
    BY <1>1, <1>2, <1>6, <1>7, <2>1
  <2>3. r[l - from + 1] = h[from + (l - from + 1) - 1]
    BY <1>6, <2>2
  <2>4. from + (l - from + 1) - 1 = l
    BY <1>1, <1>2
  <2> QED BY <2>1, <2>2, <2>3, <2>4
<1> QED BY <1>2, <1>3, <1>6, <1>7, <1>8, <1>9 DEF from, l

\* The prints of a history are finitely many.
LEMMA PrintsFinite ==
  ASSUME NEW T, NEW h \in Seq(T)
  PROVE  IsFiniteSet(Prints(h)) /\ Prints(h) \subseteq T /\ (h # <<>> => Prints(h) # {})
<1>1. Len(h) \in Nat /\ h \in [1..Len(h) -> T] /\ (h # <<>> => Len(h) # 0)
  BY LenProperties
<1>2. Prints(h) \subseteq T /\ (h # <<>> => Prints(h) # {})
  <2>1. h # <<>> => 1 \in 1..Len(h)
    BY <1>1
  <2> QED BY <1>1, <2>1 DEF Prints
<1>3. \A p \in Prints(h) : \E k \in 1..Len(h) : h[k] = p
  BY DEF Prints
<1>4. h \in Surjection(1..Len(h), Prints(h))
  <2>1. h \in [1..Len(h) -> Prints(h)]
    BY <1>1 DEF Prints
  <2> QED BY <1>3, <2>1 DEF Surjection
<1>5. IsFiniteSet(1..Len(h))
  BY <1>1, FS_Interval
<1>6. IsFiniteSet(Prints(h))
  BY <1>4, <1>5, FS_Surjection, Zenon
<1> QED BY <1>2, <1>6

\* The matcher's mean is the reference's, and lies between the prints it is of.
LEMMA MeanIs ==
  ASSUME NEW h \in Seq(Positive), h # <<>>, NEW n \in Positive
  PROVE  /\ trailing_mean(h, n) = ref_trailing_mean(h, n) /\ trailing_mean(h, n) \in Positive
         /\ \A lo, hi \in Int : (\A p \in Prints(Recent(h, n)) : lo <= p /\ p <= hi)
                                  => lo <= trailing_mean(h, n) /\ trailing_mean(h, n) <= hi
<1> DEFINE w == Recent(h, n)
           sum == SumFunction(w)
           mu == trailing_mean(h, n)
<1>1. w \in Seq(Positive) /\ Len(w) \in Nat \ {0} /\ w = SubSeq(h, Rises(Len(h), n) + 1, Len(h))
  BY RecentIs
<1>2. mu = sum \div Len(w) /\ ref_trailing_mean(h, n) = sum \div Len(w)
  BY <1>1 DEF trailing_mean, ref_trailing_mean, mean
<1> HIDE DEF w
<1>3. DOMAIN w = 1..Len(w) /\ \A k \in 1..Len(w) : w[k] \in Nat \ {0} /\ w[k] \in Prints(w)
  BY <1>1, LenProperties DEF Positive, Prints
<1>4. sum = SumFunctionOnSet(w, 1..Len(w))
  BY <1>3, Zenon DEF SumFunction
<1> HIDE DEF sum, mu
<1>5. ASSUME NEW lo \in Int, NEW hi \in Int, \A k \in 1..Len(w) : lo <= w[k] /\ w[k] <= hi
      PROVE  mu \in Int /\ lo <= mu /\ mu <= hi
  <2>1. \A k \in 1..Len(w) : w[k] \in Int /\ lo <= w[k] /\ w[k] <= hi
    BY <1>3, <1>5
  <2>2. sum \in Int /\ lo * Len(w) <= sum /\ sum <= hi * Len(w)
    BY <1>1, <1>4, <2>1, SumBetween
  <2> DEFINE d == Len(w)
  <2> HIDE DEF d
  <2>3. d \in Nat \ {0} /\ lo * d <= sum /\ sum <= hi * d
    BY <1>1, <2>2 DEF d
  <2>4. (sum \div d) \in Int /\ lo <= sum \div d /\ sum \div d <= hi
    BY <2>2, <2>3, QuotientBetween
  <2> QED BY <1>2, <2>4 DEF d
<1>6. mu \in Positive
  <2>1. IsFiniteSet(Prints(w)) /\ Prints(w) \subseteq Nat /\ Prints(w) # {}
    <3>1. w # <<>>
      BY <1>1
    <3>2. IsFiniteSet(Prints(w)) /\ Prints(w) \subseteq Positive /\ Prints(w) # {}
      <4>1. w \in Seq(Positive)
        BY <1>1
      <4> HIDE DEF w
      <4> QED BY <4>1, <3>1, PrintsFinite
    <3> QED BY <3>2 DEF Positive
  <2>2. PICK hi \in Prints(w) : \A y \in Prints(w) : y <= hi
    BY <2>1, GreatestOf, Zenon
  <2>3. \A k \in 1..Len(w) : 1 <= w[k] /\ w[k] <= hi
    BY <1>3, <2>2
  <2>4. hi \in Int /\ 1 \in Int
    BY <2>1, <2>2
  <2>5. mu \in Int /\ 1 <= mu
    BY <1>5, <2>3, <2>4
  <2> QED BY <2>5 DEF Positive
<1> QED BY <1>2, <1>3, <1>5, <1>6 DEF mu, w

Used(inventory) == (Abs(inventory) * BPS) \div InventoryRef

\* A greater exposure uses more of the reference inventory.
LEMMA UsedGrows ==
  ASSUME NEW a \in Int, NEW b \in Int, Abs(a) <= Abs(b), InventoryRef # 0
  PROVE  Used(a) \in Nat /\ Used(b) \in Nat /\ Used(a) <= Used(b)
<1>1. Abs(a) \in Nat /\ Abs(b) \in Nat /\ BPS \in Nat /\ InventoryRef \in Nat \ {0}
  BY MakerConstants DEF Abs, Positive
<1>2. Abs(a) * BPS \in Nat /\ Abs(b) * BPS \in Nat /\ Abs(a) * BPS <= Abs(b) * BPS
  BY <1>1
<1> DEFINE x == Abs(a) * BPS
           y == Abs(b) * BPS
<1>3. x \in Nat /\ y \in Nat /\ x <= y
  BY <1>2
<1> HIDE DEF x, y
<1>4. (x \div InventoryRef) \in Nat /\ (y \div InventoryRef) \in Nat /\ x \div InventoryRef <= y \div InventoryRef
  BY <1>1, <1>3, QuotientGrows
<1> QED BY <1>4 DEF Used, x, y

\* And widens the spread, which stays below 100%.
LEMMA SpreadGrows ==
  ASSUME NEW a \in Int, NEW b \in Int, Abs(a) <= Abs(b)
  PROVE  /\ effective_spread_bps(a) \in Nat /\ effective_spread_bps(b) \in Nat
         /\ effective_spread_bps(a) <= effective_spread_bps(b)
         /\ effective_spread_bps(b) < BPS
<1>1. CASE ~Dynamic \/ InventoryRef = 0
  BY <1>1, MakerConstants DEF effective_spread_bps
<1>2. CASE Dynamic /\ InventoryRef # 0
  <2> DEFINE ua == utilization(a)
             ub == utilization(b)
  <2>1. ua \in Nat /\ ub \in Nat /\ ua <= ub
    <3>1. Used(a) \in Nat /\ Used(b) \in Nat /\ Used(a) <= Used(b) /\ BPS \in Nat
      BY <1>2, UsedGrows, MakerConstants DEF Positive
    <3> QED BY <3>1 DEF utilization, LowerOf, Used
  <2> HIDE DEF ua, ub
  <2>2. WidenBps * ua \in Nat /\ WidenBps * ub \in Nat /\ WidenBps * ua <= WidenBps * ub
    BY <2>1, MakerConstants
  <2> DEFINE x == WidenBps * ua
             y == WidenBps * ub
  <2>3. x \in Nat /\ y \in Nat /\ x <= y
    BY <2>2
  <2> HIDE DEF x, y
  <2>4. (x \div BPS) \in Nat /\ (y \div BPS) \in Nat /\ x \div BPS <= y \div BPS
    BY <2>3, MakerConstants, QuotientGrows DEF Positive
  <2>5. /\ effective_spread_bps(a) = LowerOf(SpreadBps + x \div BPS, MaxSpreadBps)
        /\ effective_spread_bps(b) = LowerOf(SpreadBps + y \div BPS, MaxSpreadBps)
    BY <1>2 DEF effective_spread_bps, x, y, ua, ub
  <2> DEFINE p == x \div BPS
             q == y \div BPS
  <2>6. p \in Nat /\ q \in Nat /\ p <= q
    BY <2>4
  <2>7. /\ effective_spread_bps(a) = LowerOf(SpreadBps + p, MaxSpreadBps)
        /\ effective_spread_bps(b) = LowerOf(SpreadBps + q, MaxSpreadBps)
    BY <2>5
  <2> HIDE DEF p, q
  <2>8. SpreadBps + p \in Nat /\ SpreadBps + q \in Nat /\ SpreadBps + p <= SpreadBps + q /\ MaxSpreadBps \in Nat
        /\ MaxSpreadBps < BPS /\ BPS \in Nat
    BY <2>6, MakerConstants DEF Positive
  <2> QED BY <2>7, <2>8 DEF LowerOf
<1> QED BY <1>1, <1>2

\* Between the lowest and the highest of finitely many prints.
LEMMA MinMaxPrints ==
  ASSUME NEW S, IsFiniteSet(S), S \subseteq Positive, S # {}
  PROVE  /\ Max(S) \in Int /\ Min(S) \in Int /\ \A p \in S : Min(S) <= p /\ p <= Max(S)
<1>1. S \subseteq Nat
  BY DEF Positive
<1>2. PICK hi \in S : \A y \in S : y <= hi
  BY <1>1, GreatestOf, Zenon
<1>3. PICK lo \in S : \A y \in S : lo <= y
  BY <1>1, LeastOf, Zenon
<1>4. Max(S) \in S /\ \A y \in S : y <= Max(S)
  BY <1>1, <1>2 DEF Max
<1>5. Min(S) \in S /\ \A y \in S : Min(S) <= y
  BY <1>1, <1>3 DEF Min
<1>6. Max(S) \in Int /\ Min(S) \in Int
  <2>1. \A x \in S : x \in Int
    BY <1>1
  <2> QED BY <2>1, <1>4, <1>5
<1> QED BY <1>4, <1>5, <1>6, Zenon

\* The two prices of a maker with prints: positive, around its mean.
LEMMA QuoteIs ==
  ASSUME NEW m, m.history \in Seq(Positive), m.history # <<>>, m.inventory \in Int
  PROVE  LET mu   == trailing_mean(m.history, QuoteWindow)
             half == (mu * effective_spread_bps(m.inventory)) \div BPS
         IN /\ mu \in Positive /\ half \in Nat /\ half < mu
            /\ quote(m, "Long") = mu + half /\ quote(m, "Short") = mu - half
            /\ quote(m, "Long") \in Positive /\ quote(m, "Short") \in Positive
<1> DEFINE mu == trailing_mean(m.history, QuoteWindow)
           e == effective_spread_bps(m.inventory)
           half == (mu * e) \div BPS
<1>1. mu \in Positive
  BY MeanIs, MakerConstants
<1>2. e \in Nat /\ e < BPS /\ BPS \in Nat \ {0}
  <2>1. Abs(m.inventory) <= Abs(m.inventory)
    BY DEF Abs
  <2> QED BY <2>1, SpreadGrows, MakerConstants DEF Positive
<1>3. half \in Nat /\ half < mu
  <2> HIDE DEF mu, e
  <2>1. mu \in Nat /\ mu >= 1
    BY <1>1 DEF Positive
  <2> DEFINE x == mu * e
             y == mu * BPS
  <2>2. x \in Nat /\ x < y /\ y \in Nat
    BY <2>1, <1>2
  <2>3. x < mu * BPS
    BY <2>2
  <2> HIDE DEF x
  <2>4. x \div BPS < mu /\ x \div BPS \in Nat
    <3> DEFINE q == x \div BPS
    <3>1. q \in Nat /\ q * BPS <= x
      BY <2>2, <1>2
    <3>2. q * BPS < mu * BPS
      <4> DEFINE z == q * BPS
      <4>1. z \in Nat /\ z <= x
        BY <3>1, <1>2
      <4> HIDE DEF q, z
      <4>2. z < y
        BY <4>1, <2>2
      <4> QED BY <4>2 DEF z, y
    <3> HIDE DEF q
    <3>3. q < mu
      BY <3>1, <3>2, <2>1, <1>2
    <3> QED BY <3>1, <3>3 DEF q
  <2> QED BY <2>4 DEF x
<1> HIDE DEF e
<1>4. quote(m, "Long") = (IF mu = NoPrice THEN NoPrice ELSE mu + half)
      /\ quote(m, "Short") = (IF mu = NoPrice THEN NoPrice ELSE IF half > mu THEN 0 ELSE mu - half)
  BY DEF quote, e
<1> HIDE DEF mu, half
<1> QED BY <1>1, <1>3, <1>4 DEF mu, half, e, Positive, NoPrice

\* With the history, inventory and PnL it has, the maker offers what the reference
\* accepts, at its price.
LEMMA ReferenceDecides ==
  ASSUME NEW h \in Seq(Positive), NEW inventory \in Int, NEW pnl \in Int,
         NEW s \in Sides, NEW requested \in Nat \ {0},
         maker = [history |-> h, inventory |-> inventory, pnl |-> pnl]
  PROVE  LET decision == evaluate_fill(h, s, requested, inventory)
             size     == Offered(maker, s, requested)
         IN decision.size = size /\ (size > 0 => decision.price = quote(maker, s)) 
<1>0. maker.history = h /\ maker.inventory = inventory
  OBVIOUS
<1>1. CASE h = <<>>
  <2>1. quote(maker, s) = NoPrice
    BY <1>0, <1>1 DEF quote, trailing_mean
  <2> QED BY <1>1, <2>1 DEF evaluate_fill, Offered, EmptyHistory
<1>2. CASE h # <<>>
  <2> DEFINE mu == trailing_mean(h, QuoteWindow)
             e == effective_spread_bps(inventory)
             half == (mu * e) \div BPS
             ref == trailing_mean(h, LookWindow)
  <2>1. /\ mu \in Positive /\ half \in Nat /\ half < mu
        /\ quote(maker, "Long") = mu + half /\ quote(maker, "Short") = mu - half
        /\ quote(maker, "Long") \in Positive /\ quote(maker, "Short") \in Positive
    BY <1>0, <1>2, QuoteIs
  <2>2. ref \in Positive /\ ref_trailing_mean(h, LookWindow) = ref /\ fair_value(h) = mu
    BY <1>2, MeanIs, MakerConstants DEF fair_value
  <2>3. ref_effective_spread_bps(inventory) = e
    <3>1. CASE ~Dynamic \/ InventoryRef = 0
      BY <3>1 DEF ref_effective_spread_bps, effective_spread_bps
    <3>2. CASE Dynamic /\ InventoryRef # 0
      <4>1. \A x, y \in Int : Min({x, y}) = LowerOf(x, y)
        <5> TAKE x, y \in Int
        <5>1. Min({x, y}) \in {x, y} /\ Min({x, y}) <= x /\ Min({x, y}) <= y
          BY MinTwo
        <5> QED BY <5>1 DEF LowerOf
      <4>2. Abs(inventory) <= Abs(inventory)
        BY DEF Abs
      <4>3. Used(inventory) \in Nat /\ BPS \in Nat \ {0}
        BY <3>2, <4>2, UsedGrows, MakerConstants DEF Positive
      <4>4. /\ Min({(Abs(inventory) * BPS) \div InventoryRef, BPS}) = utilization(inventory)
            /\ utilization(inventory) \in Nat
        BY <4>1, <4>3 DEF utilization, LowerOf, Used
      <4> DEFINE u == utilization(inventory)
                 x == WidenBps * u
      <4>5. x \in Nat
        <5> HIDE DEF u
        <5> QED BY <4>4, MakerConstants DEF u
      <4> HIDE DEF x
      <4>6. SpreadBps + x \div BPS \in Int /\ MaxSpreadBps \in Int
        BY <4>3, <4>5, MakerConstants
      <4>7. Min({SpreadBps + x \div BPS, MaxSpreadBps}) = LowerOf(SpreadBps + x \div BPS, MaxSpreadBps)
        BY <4>1, <4>6
      <4> QED BY <3>2, <4>4, <4>7 DEF ref_effective_spread_bps, effective_spread_bps, x
    <3> QED BY <3>1, <3>2
  <2>4. /\ stale(maker) <=> (Abs(h[Len(h)] - ref) * BPS) \div ref > LookBps
        /\ Offered(maker, s, requested) = IF stale(maker) THEN 0 ELSE LowerOf(requested, Cap)
    <3>1. ~(ref <= 0)
      BY <2>2 DEF Positive
    <3>2. quote(maker, s) # NoPrice
      <4>1. quote(maker, s) \in Positive
        BY <2>1 DEF Sides
      <4> QED BY <4>1 DEF Positive, NoPrice
    <3> QED BY <1>0, <3>1, <3>2 DEF stale, Offered
  <2>5. LowerOf(requested, Cap) = Min({requested, Cap})
    <3>1. Min({requested, Cap}) \in {requested, Cap} /\ Min({requested, Cap}) <= requested
          /\ Min({requested, Cap}) <= Cap /\ requested \in Int /\ Cap \in Int
      <4>1. requested \in Int /\ Cap \in Int
        BY MakerConstants
      <4> QED BY <4>1, MinTwo
    <3> QED BY <3>1 DEF LowerOf
  <2>6. compute_quote(h, inventory) = [bid |-> mu - half, ask |-> mu + half]
    <3>1. Rises(mu, half) = mu - half
      BY <2>1 DEF Rises, Positive
    <3> QED BY <2>2, <2>3, <3>1 DEF compute_quote
  <2> HIDE DEF mu, half, ref, e
  <2>7. evaluate_fill(h, s, requested, inventory) =
          IF stale(maker) THEN RejectedStalePrice
          ELSE [price |-> quote(maker, s), size |-> LowerOf(requested, Cap)]
    BY <1>2, <2>1, <2>2, <2>4, <2>5, <2>6 DEF evaluate_fill, Sides
  <2> QED BY <2>4, <2>7 DEF RejectedStalePrice, EmptyHistory
<1> QED BY <1>1, <1>2

\* The maker's prints after one more: the new one is the last.
LEMMA PrintJoins ==
  ASSUME NEW m, m.history \in Seq(Positive), m.inventory \in Int, m.pnl \in Int,
         m = [history |-> m.history, inventory |-> m.inventory, pnl |-> m.pnl],
         NEW p \in Positive
  PROVE  LET after == record_price(m, p) IN
         /\ after = [history |-> after.history, inventory |-> after.inventory, pnl |-> after.pnl]
         /\ after.history \in Seq(Positive) /\ after.history # <<>> /\ Len(after.history) <= MaxHistory
         /\ after.history[Len(after.history)] = p
         /\ after.inventory = m.inventory
         /\ after.pnl = IF m.history = <<>> THEN m.pnl
                        ELSE m.pnl + m.inventory * (p - m.history[Len(m.history)])
<1> DEFINE l == Append(m.history, p)
           h == Recent(l, MaxHistory)
           gain == IF m.history = <<>> THEN m.pnl
                   ELSE m.pnl + m.inventory * (p - m.history[Len(m.history)])
<1>1. l \in Seq(Positive) /\ Len(l) = Len(m.history) + 1 /\ l[Len(l)] = p /\ Len(m.history) \in Nat /\ l # <<>>
  BY LenProperties
<1>2. h \in Seq(Positive) /\ Len(h) <= MaxHistory /\ Len(h) \in Nat \ {0} /\ h[Len(h)] = l[Len(l)]
  <2> HIDE DEF l, h
  <2>1. MaxHistory \in Positive
    BY MakerConstants
  <2> QED BY <1>1, <2>1, RecentIs DEF h
<1>3. record_price(m, p) = [m EXCEPT !.history = h, !.pnl = gain]
  BY DEF record_price
<1> HIDE DEF l, h, gain
<1>4. record_price(m, p) = [history |-> h, inventory |-> m.inventory, pnl |-> gain]
  BY <1>3
<1>5. h # <<>>
  BY <1>2
<1> QED BY <1>1, <1>2, <1>4, <1>5 DEF gain

LEMMA MakerStart == MakerInit => MakerInv
<1> SUFFICES ASSUME MakerInit PROVE MakerInv
  OBVIOUS
<1>1. /\ maker = [history |-> <<>>, inventory |-> 0, pnl |-> 0] /\ unprinted = <<>> /\ cash = 0 /\ steps = 0
      /\ pnlLedger = [cumulative |-> 0, inventory |-> 0]
  BY DEF MakerInit, Init, NewMaker
<1>2. <<>> \in Seq(Positive) /\ Len(<<>>) = 0 /\ 0 <= MaxHistory /\ 0 \in 0..MaxSteps
  BY MakerConstants DEF Positive
<1>3. /\ maker.history = <<>> /\ maker.inventory = 0 /\ maker.pnl = 0
      /\ pnlLedger.cumulative = 0 /\ pnlLedger.inventory = 0
  BY <1>1
<1> QED BY <1>1, <1>2, <1>3 DEF MakerInv

\* What the invariant says of a maker with prints.
LEMMA OpenBook ==
  ASSUME MakerInv, maker.history # <<>>
  PROVE  LastPrint \in Positive /\ LastPrint \in Int
<1>1. Len(maker.history) \in 1..Len(maker.history)
  BY LenProperties DEF MakerInv
<1> QED BY <1>1, ElementOfSeq DEF MakerInv, LastPrint, Positive

\* A print marks the inventory from the print before it to itself.
LEMMA PrintKeeps ==
  ASSUME MakerInv, NEW p \in Positive, maker' = record_price(maker, p),
         UNCHANGED <<cash, pnlLedger>>, unprinted' \in Seq(Positive), steps' \in 0..MaxSteps
  PROVE  MakerInv'
<1>1. /\ maker' = [history |-> maker'.history, inventory |-> maker'.inventory, pnl |-> maker'.pnl]
      /\ maker'.history \in Seq(Positive) /\ maker'.history # <<>> /\ Len(maker'.history) <= MaxHistory
      /\ LastPrint' = p /\ maker'.inventory = maker.inventory
      /\ maker'.pnl = IF maker.history = <<>> THEN maker.pnl
                      ELSE maker.pnl + maker.inventory * (p - LastPrint)
  BY PrintJoins DEF MakerInv, LastPrint
<1>2. p \in Int
  BY DEF Positive
<1>3. CASE maker.history = <<>>
  <2>1. maker'.pnl = 0 /\ maker'.inventory = 0 /\ cash' = 0 /\ pnlLedger'.cumulative = 0
    BY <1>1, <1>3 DEF MakerInv
  <2>2. cash' + maker'.inventory * LastPrint' = maker'.pnl + pnlLedger'.cumulative
    BY <1>1, <1>2, <2>1
  <2> QED BY <1>1, <2>1, <2>2 DEF MakerInv
<1>4. CASE maker.history # <<>>
  <2> DEFINE i == maker.inventory
             q == LastPrint
             a == i * p
             b == i * q
  <2>1. i \in Int /\ q \in Int
    BY <1>4, OpenBook DEF MakerInv
  <2> HIDE DEF i, q
  <2>2. a \in Int /\ b \in Int /\ i * (p - q) = a - b /\ i * (p - q) \in Int
    BY <1>2, <2>1
  <2>3. cash + b = maker.pnl + pnlLedger.cumulative /\ cash \in Int /\ maker.pnl \in Int
        /\ pnlLedger.cumulative \in Int
    BY <1>4 DEF MakerInv, i, q
  <2>4. maker'.pnl = maker.pnl + i * (p - q) /\ maker'.inventory * LastPrint' = a
    BY <1>1, <1>4 DEF i, q
  <2> HIDE DEF a, b
  <2>5. maker'.pnl \in Int /\ cash + a = maker'.pnl + pnlLedger.cumulative
    BY <2>2, <2>3, <2>4
  <2> QED BY <1>1, <2>4, <2>5 DEF MakerInv
<1> QED BY <1>3, <1>4

\* What a fill that is committed is of.
LEMMA OfferedIs ==
  ASSUME MakerInv, NEW s \in Sides, NEW requested \in Nat, Offered(maker, s, requested) > 0
  PROVE  /\ maker.history # <<>> /\ Offered(maker, s, requested) \in Nat
         /\ quote(maker, s) \in Positive
<1>1. CASE maker.history = <<>>
  <2>1. quote(maker, s) = NoPrice
    BY <1>1 DEF quote, trailing_mean
  <2> QED BY <2>1 DEF Offered
<1>2. CASE maker.history # <<>>
  <2>1. quote(maker, s) \in Positive
    BY <1>2, QuoteIs DEF MakerInv, Sides
  <2>2. Cap \in Nat
    BY MakerConstants
  <2>3. Offered(maker, s, requested) \in Nat
    BY <2>2 DEF Offered, LowerOf
  <2> QED BY <1>2, <2>1, <2>3
<1> QED BY <1>1, <1>2

\* A fill moves its proceeds, its inventory at the print and its edge by amounts
\* that cancel out.
LEMMA FillKeeps ==
  ASSUME MakerInv, NEW s \in Sides, NEW requested \in 1..MaxQty, NEW whole \in BOOLEAN,
         FillBooked(s, requested, whole)
  PROVE  MakerInv'
<1> DEFINE qty == Offered(maker, s, requested)
           q == quote(maker, s)
           sold == IF s = "Long" THEN qty ELSE -qty
<1>1. /\ qty > 0 /\ maker' = commit_fill(maker, s, qty) /\ cash' = cash + sold * q
      /\ unprinted' = Append(unprinted, q) /\ steps < MaxSteps /\ steps' = steps + 1
      /\ pnlLedger' = record_fill(pnlLedger, s, q, LastPrint, qty)
  BY DEF FillBooked, Fill
<1>2. maker.history # <<>> /\ qty \in Nat /\ q \in Positive /\ q \in Int
  <2>1. requested \in Nat
    BY MakerConstants
  <2> QED BY <1>1, <2>1, OfferedIs DEF Positive
<1> HIDE DEF qty, q
<1>3. LastPrint \in Int
  BY <1>2, OpenBook
<1>4. /\ maker' = [history |-> maker.history, inventory |-> maker.inventory - sold, pnl |-> maker.pnl]
      /\ sold \in Int
  <2>1. sold \in Int /\ maker.inventory \in Int
    BY <1>2 DEF MakerInv
  <2>2. (IF s = "Long" THEN maker.inventory - qty ELSE maker.inventory + qty) = maker.inventory - sold
    BY <1>2, <2>1
  <2>3. maker' = [maker EXCEPT !.inventory = maker.inventory - sold]
    BY <1>1, <2>2 DEF commit_fill
  <2>4. maker = [history |-> maker.history, inventory |-> maker.inventory, pnl |-> maker.pnl]
    BY DEF MakerInv
  <2> HIDE DEF sold
  <2> QED BY <2>1, <2>3, <2>4
<1>5. LastPrint' = LastPrint
  BY <1>4 DEF LastPrint
<1>6. /\ pnlLedger' = [cumulative |-> pnlLedger.cumulative + (IF s = "Long" THEN -1 ELSE 1) * (LastPrint - q) * qty,
                       inventory |-> pnlLedger.inventory - sold]
  BY <1>1, <1>2 DEF record_fill, MakerInv
<1>7. (IF s = "Long" THEN -1 ELSE 1) * (LastPrint - q) * qty = sold * q - sold * LastPrint
  <2>1. CASE s = "Long"
    <3>1. (0 - 1) * (LastPrint - q) * qty = qty * q - qty * LastPrint
      BY <1>2, <1>3
    <3>2. -1 = 0 - 1
      OBVIOUS
    <3> QED BY <2>1, <3>1, <3>2
  <2>2. CASE s # "Long"
    <3>1. 1 * (LastPrint - q) * qty = (0 - qty) * q - (0 - qty) * LastPrint
      BY <1>2, <1>3
    <3>2. -qty = 0 - qty
      BY <1>2
    <3> QED BY <2>2, <3>1, <3>2
  <2> QED BY <2>1, <2>2
<1> HIDE DEF sold
<1>8. /\ maker'.history = maker.history /\ maker'.inventory = maker.inventory - sold /\ maker'.pnl = maker.pnl
      /\ pnlLedger'.inventory = pnlLedger.inventory - sold
      /\ pnlLedger'.cumulative = pnlLedger.cumulative + (sold * q - sold * LastPrint)
  BY <1>4, <1>6, <1>7
<1>9. cash' + maker'.inventory * LastPrint' = maker'.pnl + pnlLedger'.cumulative
      /\ cash' \in Int /\ pnlLedger'.cumulative \in Int
  <2> DEFINE a == sold * q
             b == sold * LastPrint
             c == maker.inventory * LastPrint
  <2>1. maker.inventory \in Int /\ cash \in Int /\ maker.pnl \in Int /\ pnlLedger.cumulative \in Int
        /\ cash + c = maker.pnl + pnlLedger.cumulative
    BY <1>2 DEF MakerInv
  <2>2. a \in Int /\ b \in Int /\ c \in Int /\ (maker.inventory - sold) * LastPrint = c - b
    BY <1>2, <1>3, <1>4, <2>1
  <2>3. cash' = cash + a /\ maker'.inventory * LastPrint' = c - b
        /\ pnlLedger'.cumulative = pnlLedger.cumulative + (a - b) /\ maker'.pnl = maker.pnl
    BY <1>1, <1>5, <1>8, <2>2 DEF sold
  <2> HIDE DEF a, b, c
  <2> QED BY <2>1, <2>2, <2>3
<1>10. unprinted' \in Seq(Positive) /\ steps' \in 0..MaxSteps
  <2>1. unprinted \in Seq(Positive) /\ steps \in 0..MaxSteps /\ MaxSteps \in Nat
    BY MakerConstants DEF MakerInv
  <2>2. unprinted' \in Seq(Positive)
    BY <1>1, <1>2, <2>1
  <2>3. steps' \in 0..MaxSteps
    BY <1>1, <2>1
  <2> QED BY <2>2, <2>3
<1>11. maker'.inventory \in Int /\ pnlLedger'.inventory = maker'.inventory
  BY <1>4, <1>8 DEF MakerInv
<1>12. /\ maker' = [history |-> maker'.history, inventory |-> maker'.inventory, pnl |-> maker'.pnl]
       /\ pnlLedger' = [cumulative |-> pnlLedger'.cumulative, inventory |-> pnlLedger'.inventory]
  BY <1>4, <1>6
<1> QED BY <1>2, <1>8, <1>9, <1>10, <1>11, <1>12 DEF MakerInv

LEMMA MakerStep ==
  ASSUME MakerInv, [MakerNext]_makerVars
  PROVE  MakerInv'
<1>1. CASE UNCHANGED makerVars
  BY <1>1 DEF makerVars, vars, MakerInv, LastPrint
<1>2. ASSUME NEW p \in Prices, NewPrint(p), UNCHANGED pnlLedger PROVE MakerInv'
  <2>1. steps' \in 0..MaxSteps
    <3>1. steps \in 0..MaxSteps /\ steps < MaxSteps /\ steps' = steps + 1 /\ MaxSteps \in Nat
      BY <1>2, MakerConstants DEF MakerInv, NewPrint
    <3> QED BY <3>1
  <2>2. p \in Positive /\ unprinted' \in Seq(Positive)
    BY <1>2, MakerConstants DEF MakerInv, NewPrint
  <2> QED BY <1>2, <2>1, <2>2, PrintKeeps DEF NewPrint
<1>3. ASSUME RecordFill, UNCHANGED pnlLedger PROVE MakerInv'
  <2>1. unprinted \in Seq(Positive) /\ unprinted # <<>>
    BY <1>3 DEF MakerInv, RecordFill
  <2>2. Head(unprinted) \in Positive /\ Tail(unprinted) \in Seq(Positive)
    BY <2>1
  <2>3. maker' = record_price(maker, Head(unprinted)) /\ unprinted' = Tail(unprinted)
        /\ cash' = cash /\ steps' = steps
    BY <1>3 DEF RecordFill
  <2>4. steps' \in 0..MaxSteps
    BY <2>3 DEF MakerInv
  <2> QED BY <1>3, <2>2, <2>3, <2>4, PrintKeeps
<1> QED BY <1>1, <1>2, <1>3, FillKeeps DEF MakerNext

\* What the invariant gives of the four state properties.
LEMMA MakerPromises ==
  ASSUME MakerInv
  PROVE  TypeOK /\ ReferenceAgrees /\ QuoteStraddlesRecentPrints /\ LedgersAddUp
<1>1. TypeOK
  <2>1. Seq(Positive) \subseteq Seq(Nat)
    <3>1. Positive \subseteq Nat
      BY DEF Positive
    <3> HIDE DEF Positive
    <3> QED BY <3>1, SeqMonotonic
  <2> QED BY <2>1 DEF TypeOK, MakerInv
<1>2. ReferenceAgrees
  <2>1. \A requested \in 1..MaxQty : requested \in Nat \ {0}
    BY MakerConstants
  <2>2. /\ maker.history \in Seq(Positive) /\ maker.inventory \in Int /\ maker.pnl \in Int
        /\ maker = [history |-> maker.history, inventory |-> maker.inventory, pnl |-> maker.pnl]
    BY DEF MakerInv
  <2> QED BY <2>1, <2>2, ReferenceDecides DEF ReferenceAgrees
<1>3. QuoteStraddlesRecentPrints
  <2> SUFFICES ASSUME maker.history # <<>>
               PROVE  LET recent == Prints(Recent(maker.history, QuoteWindow))
                          low    == quote(maker, "Short")
                          high   == quote(maker, "Long")
                      IN low <= high /\ low <= Max(recent) /\ high >= Min(recent)
    BY DEF QuoteStraddlesRecentPrints
  <2> DEFINE w == Recent(maker.history, QuoteWindow)
             recent == Prints(w)
             mu == trailing_mean(maker.history, QuoteWindow)
             half == (mu * effective_spread_bps(maker.inventory)) \div BPS
  <2>1. /\ mu \in Positive /\ half \in Nat /\ half < mu
        /\ quote(maker, "Long") = mu + half /\ quote(maker, "Short") = mu - half
    BY QuoteIs DEF MakerInv
  <2>2. w \in Seq(Positive) /\ w # <<>>
    <3>1. QuoteWindow \in Positive /\ maker.history \in Seq(Positive)
      BY MakerConstants DEF MakerInv
    <3>2. w \in Seq(Positive) /\ Len(w) \in Nat \ {0}
      BY <3>1, RecentIs
    <3> HIDE DEF w
    <3> QED BY <3>2
  <2> HIDE DEF w
  <2>3. IsFiniteSet(recent) /\ recent \subseteq Positive /\ recent # {}
    BY <2>2, PrintsFinite
  <2> HIDE DEF recent
  <2>4. Max(recent) \in Int /\ Min(recent) \in Int /\ \A p \in recent : Min(recent) <= p /\ p <= Max(recent)
    BY <2>3, MinMaxPrints
  <2> DEFINE lo == Min(recent)
             hi == Max(recent)
  <2> HIDE DEF lo, hi
  <2>5. lo \in Int /\ hi \in Int /\ \A p \in recent : lo <= p /\ p <= hi
    BY <2>4 DEF lo, hi
  <2>6. lo <= mu /\ mu <= hi
    <3>1. QuoteWindow \in Positive /\ maker.history \in Seq(Positive)
      BY MakerConstants DEF MakerInv
    <3> HIDE DEF mu
    <3>2. \A l, u \in Int : (\A p \in recent : l <= p /\ p <= u) => l <= mu /\ mu <= u
      BY <3>1, MeanIs DEF mu, recent, w
    <3> QED BY <2>5, <3>2
  <2> HIDE DEF mu, half
  <2>7. mu - half <= mu + half /\ mu - half <= hi /\ mu + half >= lo
    BY <2>1, <2>5, <2>6 DEF Positive
  <2> QED BY <2>1, <2>7 DEF lo, hi, recent, w
<1>4. LedgersAddUp
  BY DEF LedgersAddUp, MakerInv
<1> QED BY <1>1, <1>2, <1>3, <1>4

\* For every window, spread, threshold and cap, and whatever prints come between
\* a fill and the record of its price (backstop.rs beside the risk crate's
\* backstop_maker.rs): the same decisions as the reference, quotes that straddle
\* the mean of recent prints, two ledgers that complete each other, and a spread
\* that never moves against the exposure.
THEOREM MakersAlwaysAgree == MCSpec => MakersAgree
<1> DEFINE Agree == scenario = "maker" =>
                      /\ SpreadFollowsExposure
                      /\ TypeOK' /\ ReferenceAgrees' /\ QuoteStraddlesRecentPrints' /\ LedgersAddUp'
<1>1. MCInit => MakerInv
  BY MakerStart DEF MCInit
<1>2. [MCNext]_allVars => [MakerNext]_makerVars
  BY DEF MCNext, allVars
<1>3. MakerInv => TypeOK /\ ReferenceAgrees /\ QuoteStraddlesRecentPrints /\ LedgersAddUp
  BY MakerPromises
<1>4. MakerInv /\ [MakerNext]_makerVars => MakerInv'
  BY MakerStep
<1>5. MakerInv /\ MakerInv' => SpreadFollowsExposure
  <2> SUFFICES ASSUME MakerInv, MakerInv' PROVE SpreadFollowsExposure
    OBVIOUS
  <2>1. maker.inventory \in Int /\ maker'.inventory \in Int
    BY DEF MakerInv
  <2> QED BY <2>1, SpreadGrows DEF SpreadFollowsExposure
<1> HIDE DEF MakerInv
<1>6. MCSpec => []MakerInv
  BY <1>1, <1>2, <1>4, PTL DEF MCSpec
<1> DEFINE State == TypeOK /\ ReferenceAgrees /\ QuoteStraddlesRecentPrints /\ LedgersAddUp
<1>7. MakerInv => State
  BY <1>3
<1>8. State' /\ SpreadFollowsExposure => [Agree]_makerVars
  OBVIOUS
<1> HIDE DEF State, Agree
<1>9. MCSpec => [][Agree]_makerVars
  BY <1>5, <1>6, <1>7, <1>8, PTL
<1> QED BY <1>9 DEF MakersAgree, Agree

-----------------------------------------------------------------------------
(* The bitmap: where the bits of a vector of words are *)

LEMMA WidthIs == Width \in Nat \ {0} /\ Width >= 1 /\ Width - 1 \in Bits /\ 0 \in Bits /\ Bits \subseteq Nat
BY LadderAssumption DEF Bits

\* Bit b of word w is that of one index, and every index is one of these.
LEMMA BitIndex ==
  ASSUME NEW w \in Int, NEW b \in Bits
  PROVE  w * Width + b \in Int /\ (w * Width + b) \div Width = w /\ (w * Width + b) % Width = b
<1>1. Width \in Nat \ {0} /\ b \in Nat /\ b < Width
  BY LadderAssumption DEF Bits
<1> DEFINE i == w * Width + b
           q == i \div Width
           r == i % Width
<1>2. i \in Int /\ w * Width \in Int
  BY <1>1
<1>3. q \in Int /\ r \in Nat /\ r < Width /\ i = Width * q + r
  BY <1>1, <1>2
<1>4. i = Width * w + b
  BY <1>1
<1> HIDE DEF q, r
<1>5. ~(q < w)
  <2> SUFFICES ASSUME q < w PROVE FALSE
    OBVIOUS
  <2>1. Width * (q + 1) <= Width * w
    BY <1>1, <1>3
  <2>2. Width * (q + 1) = Width * q + Width
    BY <1>1, <1>3
  <2> DEFINE x == Width * q
             y == Width * w
  <2>3. x \in Int /\ y \in Int
    BY <1>1, <1>3
  <2>4. x + Width <= y
    BY <2>1, <2>2
  <2>5. x + r = y + b
    BY <1>3, <1>4
  <2> HIDE DEF x, y
  <2> QED BY <1>1, <1>3, <2>3, <2>4, <2>5
<1>6. ~(w < q)
  <2> SUFFICES ASSUME w < q PROVE FALSE
    OBVIOUS
  <2>1. Width * (w + 1) <= Width * q
    BY <1>1, <1>3
  <2>2. Width * (w + 1) = Width * w + Width
    BY <1>1, <1>3
  <2> DEFINE x == Width * q
             y == Width * w
  <2>3. x \in Int /\ y \in Int
    BY <1>1, <1>3
  <2>4. y + Width <= x
    BY <2>1, <2>2
  <2>5. x + r = y + b
    BY <1>3, <1>4
  <2> HIDE DEF x, y
  <2> QED BY <1>1, <1>3, <2>3, <2>4, <2>5
<1>7. q = w
  BY <1>3, <1>5, <1>6
<1>8. r = b
  <2> DEFINE y == Width * w
  <2>1. y \in Int /\ y + r = y + b
    BY <1>1, <1>3, <1>4, <1>7
  <2> HIDE DEF y
  <2> QED BY <2>1, <1>1, <1>3
<1> QED BY <1>2, <1>7, <1>8 DEF q, r

LEMMA IndexParts ==
  ASSUME NEW i \in Int
  PROVE  /\ i \div Width \in Int /\ i % Width \in Bits
         /\ i = (i \div Width) * Width + (i % Width)
         /\ i \in Nat => i \div Width \in Nat
<1>1. Width \in Nat \ {0}
  BY LadderAssumption
<1>2. i \div Width \in Int /\ i % Width \in 0..Width - 1 /\ i = Width * (i \div Width) + (i % Width)
  BY <1>1
<1>3. (i \div Width) * Width = Width * (i \div Width)
  BY <1>1, <1>2
<1>4. i \in Nat => i \div Width \in Nat
  BY <1>1
<1> QED BY <1>2, <1>3, <1>4 DEF Bits

\* Indices are ordered by word, then by bit.
LEMMA IndexOrder ==
  ASSUME NEW w \in Int, NEW v \in Int, NEW b \in Bits, NEW c \in Bits
  PROVE  /\ w * Width + b < v * Width <=> w < v
         /\ w * Width + b < v * Width + c <=> w < v \/ (w = v /\ b < c)
         /\ w * Width \in Int /\ v * Width \in Int
<1>1. Width \in Nat \ {0} /\ b \in Nat /\ b < Width /\ c \in Nat /\ c < Width
  BY LadderAssumption DEF Bits
<1>2. w * Width \in Int /\ v * Width \in Int
  BY <1>1
<1>3. w < v => w * Width + Width <= v * Width
  <2> SUFFICES ASSUME w < v PROVE w * Width + Width <= v * Width
    OBVIOUS
  <2>1. (w + 1) * Width <= v * Width
    BY <1>1
  <2>2. (w + 1) * Width = w * Width + Width
    BY <1>1
  <2> QED BY <2>1, <2>2
<1>4. v < w => v * Width + Width <= w * Width
  <2> SUFFICES ASSUME v < w PROVE v * Width + Width <= w * Width
    OBVIOUS
  <2>1. (v + 1) * Width <= w * Width
    BY <1>1
  <2>2. (v + 1) * Width = v * Width + Width
    BY <1>1
  <2> QED BY <2>1, <2>2
<1> DEFINE x == w * Width
           y == v * Width
<1>5. x \in Int /\ y \in Int /\ (w < v => x + Width <= y) /\ (v < w => y + Width <= x) /\ (w = v => x = y)
  BY <1>2, <1>3, <1>4
<1> HIDE DEF x, y
<1>6. /\ x + b < y <=> w < v
      /\ x + b < y + c <=> w < v \/ (w = v /\ b < c)
  BY <1>1, <1>5
<1> QED BY <1>2, <1>6 DEF x, y

Vector == Seq(SUBSET Bits)

\* Bit i of a vector of words.
Bit(seq, i) == i \div Width < Len(seq) /\ i % Width \in seq[(i \div Width) + 1]

\* The word of an index within a vector.
LEMMA WordOf ==
  ASSUME NEW seq \in Vector, NEW i \in Nat
  PROVE  /\ i \div Width \in Nat /\ i % Width \in Bits /\ Len(seq) \in Nat
         /\ i \div Width < Len(seq) => (i \div Width) + 1 \in 1..Len(seq) /\ seq[(i \div Width) + 1] \in SUBSET Bits
         /\ i < Len(seq) * Width <=> i \div Width < Len(seq)
<1> DEFINE w == i \div Width
           b == i % Width
           n == Len(seq)
<1>1. w \in Nat /\ b \in Bits /\ i = w * Width + b /\ n \in Nat
  BY IndexParts
<1>2. w < n => w + 1 \in 1..n
  BY <1>1
<1>3. w + 1 \in 1..n => seq[w + 1] \in SUBSET Bits
  BY <1>1, ElementOfSeq DEF Vector
<1> HIDE DEF w, b, n
<1>4. w * Width + b < n * Width <=> w < n
  BY <1>1, IndexOrder
<1> QED BY <1>1, <1>2, <1>3, <1>4 DEF w, b, n

\* Two indices are the same when word and bit are.
LEMMA SameIndex ==
  ASSUME NEW i \in Nat, NEW j \in Nat
  PROVE  i = j <=> i \div Width = j \div Width /\ i % Width = j % Width
BY IndexParts

LEMMA ResizeIs ==
  ASSUME NEW seq \in Vector, NEW n \in Nat
  PROVE  /\ Resize(seq, n) \in Vector
         /\ Len(Resize(seq, n)) = IF n > Len(seq) THEN n ELSE Len(seq)
         /\ \A k \in 1..Len(Resize(seq, n)) : Resize(seq, n)[k] = IF k <= Len(seq) THEN seq[k] ELSE {}
         /\ \A i \in Nat : Bit(Resize(seq, n), i) <=> Bit(seq, i)
<1> DEFINE m == IF n > Len(seq) THEN n ELSE Len(seq)
           r == [k \in 1..m |-> IF k <= Len(seq) THEN seq[k] ELSE {}]
<1>1. Len(seq) \in Nat /\ m \in Nat /\ Len(seq) <= m /\ \A k \in 1..Len(seq) : seq[k] \in SUBSET Bits
  BY ElementOfSeq DEF Vector
<1> HIDE DEF m
<1>2. \A k \in 1..m : (IF k <= Len(seq) THEN seq[k] ELSE {}) \in SUBSET Bits
  BY <1>1
<1>3. r \in Vector /\ Len(r) = m
  BY <1>1, <1>2 DEF Vector
<1>4. \A k \in 1..m : r[k] = IF k <= Len(seq) THEN seq[k] ELSE {}
  OBVIOUS
<1>5. Resize(seq, n) = r
  BY DEF Resize, m
<1> HIDE DEF r
<1>6. \A i \in Nat : Bit(r, i) <=> Bit(seq, i)
  <2> TAKE i \in Nat
  <2> DEFINE w == i \div Width
  <2>1. w \in Nat
    BY IndexParts
  <2>2. w < m => w + 1 \in 1..m
    BY <1>1, <2>1
  <2>3. w < Len(seq) <=> w + 1 <= Len(seq)
    BY <1>1, <2>1
  <2>4. w < Len(seq) => w < m
    BY <1>1, <2>1
  <2> HIDE DEF w
  <2> QED BY <1>3, <1>4, <2>2, <2>3, <2>4 DEF Bit, w
<1> QED BY <1>3, <1>4, <1>5, <1>6 DEF m

\* One word of a vector replaced.
LEMMA WordChanges ==
  ASSUME NEW seq \in Vector, NEW w \in Nat, w < Len(seq), NEW x \in SUBSET Bits
  PROVE  LET r == [seq EXCEPT ![w + 1] = x] IN
         /\ r \in Vector /\ Len(r) = Len(seq) /\ r[w + 1] = x
         /\ \A v \in Nat : v < Len(seq) /\ v # w => r[v + 1] = seq[v + 1]
         /\ \A i \in Nat : Bit(r, i) <=> IF i \div Width = w THEN i % Width \in x ELSE Bit(seq, i)
<1> DEFINE r == [seq EXCEPT ![w + 1] = x]
<1>1. Len(seq) \in Nat /\ w + 1 \in 1..Len(seq) /\ seq \in [1..Len(seq) -> SUBSET Bits]
  BY LenProperties DEF Vector
<1>2. r \in [1..Len(seq) -> SUBSET Bits] /\ r[w + 1] = x
      /\ \A k \in 1..Len(seq) : k # w + 1 => r[k] = seq[k]
  BY <1>1
<1> HIDE DEF r
<1>3. r \in Vector /\ Len(r) = Len(seq)
  BY <1>1, <1>2 DEF Vector
<1>4. \A v \in Nat : v < Len(seq) /\ v # w => r[v + 1] = seq[v + 1]
  BY <1>1, <1>2
<1>5. \A i \in Nat : Bit(r, i) <=> IF i \div Width = w THEN i % Width \in x ELSE Bit(seq, i)
  <2> TAKE i \in Nat
  <2> DEFINE v == i \div Width
  <2>1. v \in Nat
    BY IndexParts
  <2> HIDE DEF v
  <2> QED BY <1>2, <1>3, <1>4, <2>1 DEF Bit, v
<1> QED BY <1>2, <1>3, <1>4, <1>5 DEF r

LEMMA DivCeilIs ==
  ASSUME NEW a \in Nat
  PROVE  DivCeil(a, Width) \in Nat /\ a <= DivCeil(a, Width) * Width
<1> DEFINE x == a + Width - 1
           c == x \div Width
<1>1. Width \in Nat \ {0} /\ x \in Nat
  BY WidthIs
<1>2. c \in Nat /\ x % Width \in Bits /\ x = c * Width + (x % Width)
  BY <1>1, IndexParts
<1>3. x % Width \in Nat /\ x % Width <= Width - 1 /\ c * Width \in Int
  BY <1>1, <1>2 DEF Bits
<1>4. DivCeil(a, Width) = c
  BY DEF DivCeil
<1> DEFINE y == c * Width
           r == x % Width
<1>5. x = a + Width - 1 /\ x = y + r /\ r <= Width - 1 /\ r \in Nat /\ y \in Int
  BY <1>2, <1>3
<1> HIDE DEF x, y, r
<1>6. a <= y
  BY <1>1, <1>5
<1> QED BY <1>2, <1>4, <1>6 DEF y

\* Both tiers are vectors, the upper one long enough, and its bit w tells whether
\* word w is nonzero.
Tiers == [words : Vector, summary : Vector]
TiersAgree(bm) ==
  /\ bm \in Tiers
  /\ Len(bm.words) <= Len(bm.summary) * Width
  /\ \A w \in Nat : Bit(bm.summary, w) <=> w < Len(bm.words) /\ bm.words[w + 1] # {}

LEMMA IsSetIs == \A bm, i : is_set(bm, i) <=> Bit(bm.words, i)
BY DEF is_set, Bit, Word

LEMMA EmptyTiers ==
  /\ TiersAgree([words |-> <<>>, summary |-> <<>>])
  /\ \A i \in Nat : ~Bit(<<>>, i)
<1>1. <<>> \in Vector /\ Len(<<>>) = 0 /\ 0 <= 0 * Width
  BY WidthIs DEF Vector
<1>2. \A i \in Nat : ~Bit(<<>>, i)
  <2> TAKE i \in Nat
  <2>1. i \div Width \in Nat
    BY IndexParts
  <2> QED BY <1>1, <2>1 DEF Bit
<1> QED BY <1>1, <1>2 DEF TiersAgree, Tiers

LEMMA EnsureLen ==
  ASSUME NEW bm, TiersAgree(bm), NEW count \in Nat
  PROVE  LET after == ensure_len(bm, count) IN
         /\ TiersAgree(after) /\ count <= Len(after.words) * Width
         /\ \A i \in Nat : Bit(after.words, i) <=> Bit(bm.words, i)
<1> DEFINE wc == DivCeil(count, Width)
           sc == DivCeil(wc, Width)
           ws == Resize(bm.words, wc)
           ss == Resize(bm.summary, sc)
           after == [words |-> ws, summary |-> ss]
<1>1. wc \in Nat /\ count <= wc * Width /\ sc \in Nat /\ wc <= sc * Width
  <2>1. wc \in Nat /\ count <= wc * Width
    BY DivCeilIs
  <2> HIDE DEF wc
  <2> QED BY <2>1, DivCeilIs
<1>2. bm.words \in Vector /\ bm.summary \in Vector /\ Len(bm.words) \in Nat /\ Len(bm.summary) \in Nat
  BY DEF TiersAgree, Tiers, Vector
<1> HIDE DEF wc, sc
<1>3. CASE ~(wc > Len(bm.words))
  <2>1. ensure_len(bm, count) = bm
    BY <1>3 DEF ensure_len, wc
  <2>2. wc * Width <= Len(bm.words) * Width
    BY <1>1, <1>2, <1>3, WidthIs
  <2>3. wc * Width \in Int /\ Len(bm.words) * Width \in Int
    BY <1>1, <1>2, WidthIs
  <2>4. count <= Len(bm.words) * Width
    BY <1>1, <2>2, <2>3
  <2> QED BY <2>1, <2>4
<1>4. CASE wc > Len(bm.words)
  <2>1. ensure_len(bm, count) = after
    BY <1>4 DEF ensure_len, wc, sc
  <2>2. /\ ws \in Vector /\ Len(ws) = wc
        /\ \A k \in 1..wc : ws[k] = IF k <= Len(bm.words) THEN bm.words[k] ELSE {}
        /\ \A i \in Nat : Bit(ws, i) <=> Bit(bm.words, i)
    BY <1>1, <1>2, <1>4, ResizeIs
  <2>3. /\ ss \in Vector /\ Len(ss) \in Nat /\ sc <= Len(ss)
        /\ \A i \in Nat : Bit(ss, i) <=> Bit(bm.summary, i)
    BY <1>1, <1>2, ResizeIs
  <2> HIDE DEF ws, ss
  <2>4. Len(ws) <= Len(ss) * Width
    <3>1. sc * Width <= Len(ss) * Width /\ sc * Width \in Int /\ Len(ss) * Width \in Int
      BY <1>1, <2>3, WidthIs
    <3> QED BY <1>1, <2>2, <3>1
  <2>5. \A w \in Nat : Bit(ss, w) <=> w < Len(ws) /\ ws[w + 1] # {}
    <3> TAKE w \in Nat
    <3>1. Bit(ss, w) <=> w < Len(bm.words) /\ bm.words[w + 1] # {}
      BY <2>3 DEF TiersAgree
    <3>2. w < wc => w + 1 \in 1..wc
      BY <1>1
    <3>3. w < Len(bm.words) <=> w + 1 <= Len(bm.words)
      BY <1>2
    <3>4. w < Len(bm.words) => w < wc
      BY <1>1, <1>2, <1>4
    <3> QED BY <2>2, <3>1, <3>2, <3>3, <3>4
  <2>6. TiersAgree(after)
    BY <2>2, <2>3, <2>4, <2>5 DEF TiersAgree, Tiers
  <2> QED BY <1>1, <2>1, <2>2, <2>6
<1> QED BY <1>3, <1>4

LEMMA SetBit ==
  ASSUME NEW bm, TiersAgree(bm), NEW idx \in Nat
  PROVE  LET after == set(bm, idx) IN
         TiersAgree(after) /\ \A i \in Nat : Bit(after.words, i) <=> Bit(bm.words, i) \/ i = idx
<1> DEFINE long == ensure_len(bm, idx + 1)
           w == idx \div Width
           u == w \div Width
           x == long.words[w + 1] \cup {idx % Width}
           y == long.summary[u + 1] \cup {w % Width}
           ws == [long.words EXCEPT ![w + 1] = x]
           ss == [long.summary EXCEPT ![u + 1] = y]
           after == [words |-> ws, summary |-> ss]
<1>1. /\ TiersAgree(long) /\ idx + 1 <= Len(long.words) * Width
      /\ \A i \in Nat : Bit(long.words, i) <=> Bit(bm.words, i)
  <2>1. idx + 1 \in Nat
    OBVIOUS
  <2> QED BY <2>1, EnsureLen
<1>2. set(bm, idx) = after
  BY DEF set
<1> HIDE DEF long
<1>3. long.words \in Vector /\ long.summary \in Vector /\ Len(long.words) \in Nat /\ Len(long.summary) \in Nat
      /\ Len(long.words) <= Len(long.summary) * Width
  BY <1>1 DEF TiersAgree, Tiers, Vector
<1>4. w \in Nat /\ idx % Width \in Bits /\ w < Len(long.words) /\ long.words[w + 1] \in SUBSET Bits
  <2>1. Len(long.words) * Width \in Int
    BY <1>3, WidthIs
  <2>2. idx < Len(long.words) * Width
    BY <1>1, <2>1
  <2> QED BY <1>3, <2>2, WordOf
<1> HIDE DEF w
<1>5. u \in Nat /\ w % Width \in Bits /\ u < Len(long.summary) /\ long.summary[u + 1] \in SUBSET Bits
  <2>1. Len(long.summary) * Width \in Int
    BY <1>3, WidthIs
  <2>2. w < Len(long.summary) * Width
    BY <1>3, <1>4, <2>1
  <2> QED BY <1>3, <1>4, <2>2, WordOf
<1> HIDE DEF u
<1>6. x \in SUBSET Bits /\ y \in SUBSET Bits /\ x # {}
  BY <1>4, <1>5
<1>7. /\ ws \in Vector /\ Len(ws) = Len(long.words) /\ ws[w + 1] = x
      /\ \A v \in Nat : v < Len(long.words) /\ v # w => ws[v + 1] = long.words[v + 1]
      /\ \A i \in Nat : Bit(ws, i) <=> IF i \div Width = w THEN i % Width \in x ELSE Bit(long.words, i)
  <2> HIDE DEF x
  <2> QED BY <1>3, <1>4, <1>6, WordChanges
<1>8. /\ ss \in Vector /\ Len(ss) = Len(long.summary)
      /\ \A i \in Nat : Bit(ss, i) <=> IF i \div Width = u THEN i % Width \in y ELSE Bit(long.summary, i)
  <2>1. long.summary \in Vector /\ u \in Nat /\ u < Len(long.summary) /\ y \in SUBSET Bits
    BY <1>3, <1>5, <1>6
  <2> DEFINE q == long.summary
  <2> HIDE DEF x, y, q
  <2>2. q \in Vector /\ u \in Nat /\ u < Len(q) /\ y \in SUBSET Bits
    BY <2>1 DEF q
  <2>3. /\ [q EXCEPT ![u + 1] = y] \in Vector /\ Len([q EXCEPT ![u + 1] = y]) = Len(q)
        /\ \A i \in Nat : Bit([q EXCEPT ![u + 1] = y], i) <=> IF i \div Width = u THEN i % Width \in y ELSE Bit(q, i)
    BY <2>2, WordChanges
  <2> QED BY <2>3 DEF q
<1> HIDE DEF ws, ss
<1>9. \A i \in Nat : Bit(ws, i) <=> Bit(long.words, i) \/ i = idx
  <2> TAKE i \in Nat
  <2>1. i = idx <=> i \div Width = w /\ i % Width = idx % Width
    BY SameIndex DEF w
  <2>2. i \div Width = w => (Bit(long.words, i) <=> i % Width \in long.words[w + 1])
    BY <1>4 DEF Bit
  <2> QED BY <1>7, <2>1, <2>2
<1>10. \A i \in Nat : Bit(ss, i) <=> Bit(long.summary, i) \/ i = w
  <2> TAKE i \in Nat
  <2>1. i = w <=> i \div Width = u /\ i % Width = w % Width
    BY <1>4, SameIndex DEF u
  <2>2. i \div Width = u => (Bit(long.summary, i) <=> i % Width \in long.summary[u + 1])
    BY <1>5 DEF Bit
  <2> QED BY <1>8, <2>1, <2>2
<1>11. \A i \in Nat : Bit(ss, i) <=> i < Len(ws) /\ ws[i + 1] # {}
  <2> TAKE i \in Nat
  <2>1. Bit(long.summary, i) <=> i < Len(long.words) /\ long.words[i + 1] # {}
    BY <1>1 DEF TiersAgree
  <2> QED BY <1>4, <1>6, <1>7, <1>10, <2>1
<1>12. TiersAgree(after)
  BY <1>3, <1>7, <1>8, <1>11 DEF TiersAgree, Tiers
<1> QED BY <1>1, <1>2, <1>9, <1>12

LEMMA ClearBit ==
  ASSUME NEW bm, TiersAgree(bm), NEW idx \in Nat
  PROVE  LET after == clear(bm, idx) IN
         TiersAgree(after) /\ \A i \in Nat : Bit(after.words, i) <=> Bit(bm.words, i) /\ i # idx
<1> DEFINE w == idx \div Width
           u == w \div Width
           x == bm.words[w + 1] \ {idx % Width}
           y == bm.summary[u + 1] \ {w % Width}
           ws == [bm.words EXCEPT ![w + 1] = x]
           ss == IF x = {} THEN [bm.summary EXCEPT ![u + 1] = y] ELSE bm.summary
           after == [words |-> ws, summary |-> ss]
<1>1. bm.words \in Vector /\ bm.summary \in Vector /\ Len(bm.words) \in Nat /\ Len(bm.summary) \in Nat
      /\ Len(bm.words) <= Len(bm.summary) * Width
  BY DEF TiersAgree, Tiers, Vector
<1>2. w \in Nat /\ idx % Width \in Bits /\ (w < Len(bm.words) => bm.words[w + 1] \in SUBSET Bits)
  BY <1>1, WordOf
<1>3. CASE w >= Len(bm.words)
  <2>1. clear(bm, idx) = bm
    BY <1>3 DEF clear
  <2>2. \A i \in Nat : Bit(bm.words, i) => i # idx
    BY <1>1, <1>2, <1>3 DEF Bit
  <2> QED BY <2>1, <2>2
<1>4. CASE w < Len(bm.words)
  <2>1. clear(bm, idx) = after
    <3>1. ~(w >= Len(bm.words))
      BY <1>1, <1>2, <1>4
    <3> QED BY <3>1 DEF clear, Word
  <2> HIDE DEF w
  <2>2. u \in Nat /\ w % Width \in Bits /\ u < Len(bm.summary) /\ bm.summary[u + 1] \in SUBSET Bits
    <3>1. Len(bm.summary) * Width \in Int
      BY <1>1, WidthIs
    <3>2. w < Len(bm.summary) * Width
      BY <1>1, <1>2, <1>4, <3>1
    <3> QED BY <1>1, <1>2, <3>2, WordOf
  <2> HIDE DEF u
  <2>3. x \in SUBSET Bits /\ y \in SUBSET Bits
    BY <1>2, <1>4, <2>2
  <2>4. /\ ws \in Vector /\ Len(ws) = Len(bm.words) /\ ws[w + 1] = x
        /\ \A v \in Nat : v < Len(bm.words) /\ v # w => ws[v + 1] = bm.words[v + 1]
        /\ \A i \in Nat : Bit(ws, i) <=> IF i \div Width = w THEN i % Width \in x ELSE Bit(bm.words, i)
    <3> HIDE DEF x, y
    <3> QED BY <1>1, <1>2, <1>4, <2>3, WordChanges
  <2>5. /\ ss \in Vector /\ Len(ss) = Len(bm.summary)
        /\ \A i \in Nat : Bit(ss, i) <=> IF x = {} /\ i \div Width = u THEN i % Width \in y ELSE Bit(bm.summary, i)
    <3>1. bm.summary \in Vector /\ u \in Nat /\ u < Len(bm.summary) /\ y \in SUBSET Bits
      BY <1>1, <2>2, <2>3
    <3> DEFINE q == bm.summary
    <3> HIDE DEF x, y, q
    <3>4. q \in Vector /\ u \in Nat /\ u < Len(q) /\ y \in SUBSET Bits
      BY <3>1 DEF q
    <3>5. /\ [q EXCEPT ![u + 1] = y] \in Vector /\ Len([q EXCEPT ![u + 1] = y]) = Len(q)
          /\ \A i \in Nat : Bit([q EXCEPT ![u + 1] = y], i) <=> IF i \div Width = u THEN i % Width \in y ELSE Bit(q, i)
      BY <3>4, WordChanges
    <3>2. CASE x = {}
      BY <3>2, <3>5 DEF q
    <3>3. CASE x # {}
      BY <3>1, <3>3
    <3> QED BY <3>2, <3>3
  <2> HIDE DEF ws, ss
  <2>6. \A i \in Nat : Bit(ws, i) <=> Bit(bm.words, i) /\ i # idx
    <3> TAKE i \in Nat
    <3>1. i = idx <=> i \div Width = w /\ i % Width = idx % Width
      BY SameIndex DEF w
    <3>2. i \div Width = w => (Bit(bm.words, i) <=> i % Width \in bm.words[w + 1])
      BY <1>4 DEF Bit
    <3> QED BY <2>4, <3>1, <3>2
  <2>7. \A i \in Nat : Bit(ss, i) <=> Bit(bm.summary, i) /\ ~(x = {} /\ i = w)
    <3> TAKE i \in Nat
    <3>1. i = w <=> i \div Width = u /\ i % Width = w % Width
      BY <1>2, SameIndex DEF u
    <3>2. i \div Width = u => (Bit(bm.summary, i) <=> i % Width \in bm.summary[u + 1])
      BY <2>2 DEF Bit
    <3> HIDE DEF x
    <3> QED BY <2>5, <3>1, <3>2
  <2>8. \A i \in Nat : Bit(ss, i) <=> i < Len(ws) /\ ws[i + 1] # {}
    <3> TAKE i \in Nat
    <3>1. Bit(bm.summary, i) <=> i < Len(bm.words) /\ bm.words[i + 1] # {}
      BY DEF TiersAgree
    <3>2. i = w => (x # {} => bm.words[w + 1] # {})
      OBVIOUS
    <3> HIDE DEF x
    <3> QED BY <1>2, <1>4, <2>4, <2>7, <3>1, <3>2
  <2>9. TiersAgree(after)
    BY <1>1, <2>4, <2>5, <2>8 DEF TiersAgree, Tiers
  <2> QED BY <2>1, <2>6, <2>9
<1>5. w >= Len(bm.words) \/ w < Len(bm.words)
  BY <1>1, <1>2
<1> QED BY <1>3, <1>4, <1>5

\* The bits read one by one and set again, shifted: after n of them, those below n.
LEMMA ShiftUp ==
  ASSUME NEW bm, TiersAgree(bm), NEW shift \in Nat, NEW count \in Nat
  PROVE  LET after == shift_up(bm, shift, count) IN
         TiersAgree(after) /\ \A i \in Nat : Bit(after.words, i) <=> i >= shift /\ Bit(bm.words, i - shift)
<1> DEFINE N == Len(bm.words) * Width
           fresh == ensure_len([words |-> <<>>, summary |-> <<>>], count)
           Body(f, i) == IF i = 0 THEN fresh
                         ELSE IF is_set(bm, i - 1) THEN set(f[i - 1], i - 1 + shift) ELSE f[i - 1]
           IsShifted(f) == f = [i \in 0..N |-> Body(f, i)]
           V == {b \in Tiers : TiersAgree(b)}
<1>1. N \in Nat
  BY WidthIs DEF TiersAgree, Tiers, Vector
<1>2. fresh \in V /\ \A i \in Nat : ~Bit(fresh.words, i)
  <2> DEFINE e == [words |-> <<>>, summary |-> <<>>]
  <2>1. TiersAgree(e) /\ e.words = <<>>
    BY EmptyTiers
  <2> HIDE DEF e
  <2>2. TiersAgree(ensure_len(e, count)) /\ \A i \in Nat : Bit(ensure_len(e, count).words, i) <=> Bit(<<>>, i)
    BY <2>1, EnsureLen
  <2> QED BY <2>2, EmptyTiers DEF e, TiersAgree
<1> HIDE DEF N, fresh
<1>3. \E f : IsShifted(f)
  <2> DEFINE step == [p \in V \X (1..N) |-> IF is_set(bm, p[2] - 1) THEN set(p[1], p[2] - 1 + shift) ELSE p[1]]
  <2>1. step \in StepsOf(V, N)
    <3> SUFFICES ASSUME NEW p \in V \X (1..N)
                 PROVE  (IF is_set(bm, p[2] - 1) THEN set(p[1], p[2] - 1 + shift) ELSE p[1]) \in V
      BY DEF StepsOf
    <3>1. p[1] \in V /\ p[2] - 1 + shift \in Nat
      BY <1>1
    <3>2. TiersAgree(set(p[1], p[2] - 1 + shift))
      BY <3>1, SetBit
    <3> QED BY <3>1, <3>2 DEF TiersAgree
  <2>2. PICK f : RunOf(f, V, N, fresh, step)
    <3> HIDE DEF step, V
    <3> QED BY <1>1, <1>2, <2>1, RunExists
  <2>3. \A i \in 0..N : f[i] = Body(f, i)
    <3> TAKE i \in 0..N
    <3>1. CASE i = 0
      BY <2>2, <3>1 DEF RunOf
    <3>2. CASE i # 0
      <4>1. i \in 1..N /\ i - 1 \in 0..N
        BY <1>1, <3>2
      <4>2. f[i - 1] \in V /\ f[i] = step[<<f[i - 1], i>>]
        BY <2>2, <4>1 DEF RunOf
      <4> QED BY <3>2, <4>1, <4>2
    <3> QED BY <3>1, <3>2
  <2>4. f = [i \in 0..N |-> f[i]]
    BY <2>2 DEF RunOf
  <2>5. IsShifted(f)
    BY <2>3, <2>4
  <2> QED BY <2>5
<1> DEFINE shifted == CHOOSE f : IsShifted(f)
<1>4. shifted = [i \in 0..N |-> Body(shifted, i)]
  BY <1>3
<1>5. shift_up(bm, shift, count) = shifted[N]
  BY DEF shift_up, N, fresh
<1> HIDE DEF shifted
<1> DEFINE Good(n) == /\ TiersAgree(shifted[n])
                      /\ \A i \in Nat : Bit(shifted[n].words, i) <=>
                           i >= shift /\ i - shift < n /\ Bit(bm.words, i - shift)
           G == {n \in Nat : n <= N => Good(n)}
<1>6. 0 \in G
  <2>1. shifted[0] = fresh
    BY <1>1, <1>4
  <2>2. Good(0)
    BY <1>2, <2>1
  <2> QED BY <2>2
<1>7. \A n \in Nat : n \in G => n + 1 \in G
  <2> SUFFICES ASSUME NEW n \in Nat, n + 1 <= N, Good(n) PROVE Good(n + 1)
    <3> HIDE DEF Good
    <3> QED BY <1>1
  <2>1. shifted[n + 1] = IF Bit(bm.words, n) THEN set(shifted[n], n + shift) ELSE shifted[n]
    <3>1. n + 1 \in 0..N /\ n + 1 # 0 /\ n + 1 - 1 = n
      BY <1>1
    <3>2. shifted[n + 1] = Body(shifted, n + 1)
      BY <1>4, <3>1
    <3> QED BY <3>1, <3>2, IsSetIs
  <2>2. CASE Bit(bm.words, n)
    <3> DEFINE idx == n + shift
    <3>1. idx \in Nat
      OBVIOUS
    <3>2. TiersAgree(set(shifted[n], idx))
          /\ \A i \in Nat : Bit(set(shifted[n], idx).words, i) <=> Bit(shifted[n].words, i) \/ i = idx
      <4> HIDE DEF idx
      <4> QED BY <3>1, SetBit
    <3>3. \A i \in Nat : (i >= shift /\ i - shift < n + 1 /\ Bit(bm.words, i - shift))
                          <=> (i >= shift /\ i - shift < n /\ Bit(bm.words, i - shift)) \/ i = idx
      <4> TAKE i \in Nat
      <4>1. i = idx => i - shift = n /\ i >= shift
        OBVIOUS
      <4>2. i >= shift => (i - shift < n + 1 <=> i - shift < n \/ i = idx)
        OBVIOUS
      <4> QED BY <2>2, <4>1, <4>2
    <3> QED BY <2>1, <2>2, <3>2, <3>3
  <2>3. CASE ~Bit(bm.words, n)
    <3>1. \A i \in Nat : (i >= shift /\ i - shift < n + 1 /\ Bit(bm.words, i - shift))
                          <=> (i >= shift /\ i - shift < n /\ Bit(bm.words, i - shift))
      <4> TAKE i \in Nat
      <4>1. i >= shift /\ i - shift < n + 1 => i - shift < n \/ i - shift = n
        OBVIOUS
      <4>2. i - shift < n => i - shift < n + 1
        OBVIOUS
      <4> QED BY <2>3, <4>1, <4>2
    <3> QED BY <2>1, <2>3, <3>1
  <2> QED BY <2>2, <2>3
<1> HIDE DEF G
<1>8. N \in G
  BY <1>1, <1>6, <1>7, Induction
<1>9. Good(N)
  <2> HIDE DEF Good
  <2> QED BY <1>1, <1>8 DEF G
<1>10. \A i \in Nat : i >= shift /\ Bit(bm.words, i - shift) => i - shift < N
  <2> SUFFICES ASSUME NEW i \in Nat, i >= shift, Bit(bm.words, i - shift) PROVE i - shift < N
    OBVIOUS
  <2> DEFINE j == i - shift
  <2>1. j \in Nat /\ bm.words \in Vector
    BY DEF TiersAgree, Tiers
  <2> HIDE DEF j
  <2>2. Bit(bm.words, j) => j < N
    BY <2>1, WordOf DEF Bit, N
  <2> QED BY <2>2 DEF j
<1> QED BY <1>5, <1>9, <1>10

-----------------------------------------------------------------------------
(* The bitmap: the nearest bit upward and downward *)

\* n is the first set index from one on, None when there is none; and the last
\* one up to an index.
FirstFrom(seq, from, n) ==
  IF n = None THEN \A i \in Nat : i >= from => ~Bit(seq, i)
  ELSE n \in Nat /\ n >= from /\ Bit(seq, n) /\ \A i \in Nat : from <= i /\ i < n => ~Bit(seq, i)
LastUpto(seq, upto, n) ==
  IF n = None THEN \A i \in Nat : i <= upto => ~Bit(seq, i)
  ELSE n \in Nat /\ n <= upto /\ Bit(seq, n) /\ \A i \in Nat : n < i /\ i <= upto => ~Bit(seq, i)

LEMMA MinBit ==
  ASSUME NEW h, h \subseteq Bits, h # {}
  PROVE  Min(h) \in h /\ Min(h) \in Nat /\ \A b \in h : Min(h) <= b
<1>1. h \subseteq Nat
  BY WidthIs
<1>2. PICK lo \in h : \A b \in h : lo <= b
  BY <1>1, LeastOf, Zenon
<1>3. Min(h) \in h /\ \A b \in h : Min(h) <= b
  BY <1>1, <1>2 DEF Min
<1> QED BY <1>1, <1>3

LEMMA MaxBit ==
  ASSUME NEW h, h \subseteq Bits, h # {}
  PROVE  Max(h) \in h /\ Max(h) \in Nat /\ \A b \in h : b <= Max(h)
<1>1. h \subseteq Nat
  BY WidthIs
<1>2. IsFiniteSet(h)
  <2>1. Width - 1 \in Int /\ 0 \in Int
    BY WidthIs
  <2>2. IsFiniteSet(Bits)
    BY <2>1, FS_Interval DEF Bits
  <2> QED BY <2>2, FS_Subset
<1>3. PICK hi \in h : \A b \in h : b <= hi
  BY <1>1, <1>2, GreatestOf, Zenon
<1>4. Max(h) \in h /\ \A b \in h : b <= Max(h)
  BY <1>1, <1>3 DEF Max
<1> QED BY <1>1, <1>4

\* An index between the bounds of a word is one of its bits.
LEMMA InWord ==
  ASSUME NEW w \in Int, NEW i \in Int
  PROVE  /\ w * Width \in Int /\ (w + 1) * Width = w * Width + Width
         /\ w * Width <= i <=> w <= i \div Width
         /\ i < (w + 1) * Width <=> i \div Width <= w
         /\ i \div Width = w => i = w * Width + (i % Width)
<1> DEFINE v == i \div Width
           c == i % Width
<1>1. v \in Int /\ c \in Bits /\ i = v * Width + c
  BY IndexParts
<1>2. Width \in Nat
  BY WidthIs
<1> HIDE DEF v, c
<1>3. w * Width \in Int /\ (w + 1) * Width = w * Width + Width /\ (w + 1) * Width \in Int
  BY <1>2
<1>4. v * Width + c < w * Width <=> v < w
  BY <1>1, IndexOrder
<1>5. v * Width + c < (w + 1) * Width <=> v < w + 1
  BY <1>1, IndexOrder
<1>6. w * Width <= i <=> ~(i < w * Width)
  BY <1>3
<1>7. (w <= v <=> ~(v < w)) /\ (v <= w <=> v < w + 1)
  BY <1>1
<1> QED BY <1>1, <1>3, <1>4, <1>5, <1>6, <1>7 DEF v, c

\* The bits of a word are those of the indices within its bounds.
LEMMA BitsOfWord ==
  ASSUME NEW seq \in Vector, NEW w \in Nat, w < Len(seq)
  PROVE  LET start == w * Width IN
         \A i \in Nat : start <= i /\ i < start + Width =>
           LET b == i - start IN b \in Bits /\ (Bit(seq, i) <=> b \in seq[w + 1])
<1> DEFINE start == w * Width
<1>0. Width \in Nat /\ start \in Nat /\ (w + 1) * Width = start + Width
  BY WidthIs, InWord
<1> SUFFICES ASSUME NEW i \in Nat, start <= i, i < start + Width
             PROVE  i - start \in Bits /\ (Bit(seq, i) <=> i - start \in seq[w + 1])
  OBVIOUS
<1>1. i \div Width = w
  <2>1. i \div Width \in Int
    BY IndexParts
  <2>2. w <= i \div Width /\ i \div Width <= w
    BY <1>0, InWord
  <2> QED BY <2>1, <2>2
<1>2. i % Width \in Bits /\ i = start + (i % Width)
  BY <1>1, IndexParts, InWord
<1>3. i - start = i % Width
  <2> DEFINE c == i % Width
  <2>1. c \in Nat /\ i = start + c
    BY <1>2, WidthIs
  <2> HIDE DEF c
  <2>2. i - start = c
    BY <1>0, <2>1
  <2> QED BY <2>2 DEF c
<1> QED BY <1>1, <1>2, <1>3 DEF Bit

\* The search within one word, from a bit on.
LEMMA UpInWord ==
  ASSUME NEW seq \in Vector, NEW w \in Nat, w < Len(seq), NEW from \in 0..Width
  PROVE  LET hit == {b \in seq[w + 1] : b >= from} IN
         /\ hit # {} => FirstFrom(seq, w * Width + from, w * Width + Min(hit)) /\ Min(hit) \in Nat
         /\ \A n : hit = {} /\ FirstFrom(seq, (w + 1) * Width, n) => FirstFrom(seq, w * Width + from, n)
<1> DEFINE hit == {b \in seq[w + 1] : b >= from}
           start == w * Width
<1>1. Len(seq) \in Nat /\ w + 1 \in 1..Len(seq) /\ seq[w + 1] \in SUBSET Bits
  BY ElementOfSeq DEF Vector
<1>2. Width \in Nat /\ start \in Nat /\ (w + 1) * Width = start + Width /\ from \in Nat /\ from <= Width
  BY WidthIs, InWord
<1>3. \A i \in Nat : start <= i /\ i < start + Width =>
        LET b == i - start IN b \in Bits /\ (Bit(seq, i) <=> b \in seq[w + 1])
  BY BitsOfWord
<1>4. ASSUME hit # {} PROVE FirstFrom(seq, start + from, start + Min(hit)) /\ Min(hit) \in Nat
  <2> DEFINE m == Min(hit)
  <2>1. m \in hit /\ m \in Nat /\ m \in Bits /\ \A b \in hit : m <= b
    <3>1. hit \subseteq Bits
      BY <1>1
    <3> HIDE DEF hit
    <3> QED BY <1>4, <3>1, MinBit
  <2> HIDE DEF m
  <2>2. m >= from /\ m \in seq[w + 1] /\ m < Width
    <3>1. m < Width
      BY <1>2, <2>1 DEF Bits
    <3> QED BY <2>1, <3>1
  <2>3. start + m \in Nat /\ start + m # None /\ start + m >= start + from /\ start <= start + m
        /\ start + m < start + Width /\ (start + m) - start = m
    <3> HIDE DEF start, hit
    <3> QED BY <1>2, <2>1, <2>2 DEF None
  <2>4. Bit(seq, start + m)
    <3> HIDE DEF start, hit
    <3> DEFINE i == start + m
    <3>1. i \in Nat /\ start <= i /\ i < start + Width /\ i - start = m
      BY <2>3
    <3> HIDE DEF i
    <3>2. Bit(seq, i)
      BY <1>3, <2>2, <3>1
    <3> QED BY <3>2 DEF i
  <2>5. ASSUME NEW i \in Nat, start + from <= i, i < start + m, Bit(seq, i) PROVE FALSE
    <3>1. start <= i /\ i < start + Width /\ i - start >= from /\ i - start < m
      BY <1>2, <2>1, <2>2, <2>5
    <3>2. i - start \in hit
      BY <1>3, <2>5, <3>1
    <3>3. m <= i - start
      BY <2>1, <3>2
    <3> QED BY <1>2, <2>1, <3>1, <3>3
  <2> QED BY <2>1, <2>3, <2>4, <2>5 DEF FirstFrom, m
<1>5. ASSUME hit = {}, NEW n, FirstFrom(seq, start + Width, n) PROVE FirstFrom(seq, start + from, n)
  <2>1. \A i \in Nat : start + from <= i /\ i < start + Width => ~Bit(seq, i)
    <3> SUFFICES ASSUME NEW i \in Nat, start + from <= i, i < start + Width, Bit(seq, i) PROVE FALSE
      OBVIOUS
    <3>1. start <= i /\ i - start >= from
      BY <1>2
    <3>2. i - start \in hit
      BY <1>3, <3>1
    <3> QED BY <1>5, <3>2
  <2> HIDE DEF hit, start
  <2>2. start \in Nat /\ from \in Nat /\ Width \in Nat /\ from <= Width
    BY <1>2
  <2>3. CASE n = None
    BY <1>5, <2>1, <2>2, <2>3 DEF FirstFrom
  <2>4. CASE n # None
    <3>1. n \in Nat /\ n >= start + Width /\ Bit(seq, n) /\ \A i \in Nat : start + Width <= i /\ i < n => ~Bit(seq, i)
      BY <1>5, <2>4 DEF FirstFrom
    <3>2. n >= start + from
      BY <2>2, <3>1
    <3>3. \A i \in Nat : start + from <= i /\ i < n => ~Bit(seq, i)
      BY <2>1, <2>2, <3>1
    <3> QED BY <2>4, <3>1, <3>2, <3>3 DEF FirstFrom
  <2> QED BY <2>3, <2>4
<1> QED BY <1>2, <1>4, <1>5

\* The search within one word, down from a bit.
LEMMA DownInWord ==
  ASSUME NEW seq \in Vector, NEW w \in Nat, w < Len(seq), NEW upto \in Bits
  PROVE  LET hit == {b \in seq[w + 1] : b <= upto} IN
         /\ hit # {} => LastUpto(seq, w * Width + upto, w * Width + Max(hit)) /\ Max(hit) \in Nat
         /\ \A n : hit = {} /\ LastUpto(seq, w * Width - 1, n) => LastUpto(seq, w * Width + upto, n)
<1> DEFINE hit == {b \in seq[w + 1] : b <= upto}
           start == w * Width
<1>1. Len(seq) \in Nat /\ w + 1 \in 1..Len(seq) /\ seq[w + 1] \in SUBSET Bits
  BY ElementOfSeq DEF Vector
<1>2. Width \in Nat /\ start \in Nat /\ (w + 1) * Width = start + Width /\ upto \in Nat /\ upto < Width
  <2>1. upto \in Nat /\ upto < Width
    BY WidthIs DEF Bits
  <2> QED BY <2>1, WidthIs, InWord
<1>3. \A i \in Nat : start <= i /\ i < start + Width =>
        LET b == i - start IN b \in Bits /\ (Bit(seq, i) <=> b \in seq[w + 1])
  BY BitsOfWord
<1>4. ASSUME hit # {} PROVE LastUpto(seq, start + upto, start + Max(hit)) /\ Max(hit) \in Nat
  <2> DEFINE m == Max(hit)
  <2>1. m \in hit /\ m \in Nat /\ m \in Bits /\ \A b \in hit : b <= m
    <3>1. hit \subseteq Bits
      BY <1>1
    <3> HIDE DEF hit
    <3> QED BY <1>4, <3>1, MaxBit
  <2> HIDE DEF m
  <2>2. m <= upto /\ m \in seq[w + 1] /\ m < Width
    <3>1. m < Width
      BY <1>2, <2>1 DEF Bits
    <3> QED BY <2>1, <3>1
  <2>3. start + m \in Nat /\ start + m # None /\ start + m <= start + upto /\ start <= start + m
        /\ start + m < start + Width /\ (start + m) - start = m
    <3> HIDE DEF start, hit
    <3> QED BY <1>2, <2>1, <2>2 DEF None
  <2>4. Bit(seq, start + m)
    <3> HIDE DEF start, hit
    <3> DEFINE i == start + m
    <3>1. i \in Nat /\ start <= i /\ i < start + Width /\ i - start = m
      BY <2>3
    <3> HIDE DEF i
    <3>2. Bit(seq, i)
      BY <1>3, <2>2, <3>1
    <3> QED BY <3>2 DEF i
  <2>5. ASSUME NEW i \in Nat, start + m < i, i <= start + upto, Bit(seq, i) PROVE FALSE
    <3>1. start <= i /\ i < start + Width /\ i - start <= upto /\ m < i - start
      BY <1>2, <2>1, <2>2, <2>5
    <3>2. i - start \in hit
      BY <1>3, <2>5, <3>1
    <3>3. i - start <= m
      BY <2>1, <3>2
    <3> QED BY <1>2, <2>1, <3>1, <3>3
  <2> QED BY <2>1, <2>3, <2>4, <2>5 DEF LastUpto, m
<1>5. ASSUME hit = {}, NEW n, LastUpto(seq, start - 1, n) PROVE LastUpto(seq, start + upto, n)
  <2>1. \A i \in Nat : start <= i /\ i <= start + upto => ~Bit(seq, i)
    <3> SUFFICES ASSUME NEW i \in Nat, start <= i, i <= start + upto, Bit(seq, i) PROVE FALSE
      OBVIOUS
    <3>1. i < start + Width /\ i - start <= upto
      BY <1>2
    <3>2. i - start \in hit
      BY <1>3, <3>1
    <3> QED BY <1>5, <3>2
  <2> HIDE DEF hit, start
  <2>2. start \in Nat /\ upto \in Nat /\ \A i \in Nat : i <= start - 1 <=> ~(start <= i)
    BY <1>2
  <2>3. CASE n = None
    BY <1>5, <2>1, <2>2, <2>3 DEF LastUpto
  <2>4. CASE n # None
    <3>1. n \in Nat /\ n <= start - 1 /\ Bit(seq, n) /\ \A i \in Nat : n < i /\ i <= start - 1 => ~Bit(seq, i)
      BY <1>5, <2>4 DEF LastUpto
    <3>2. n <= start + upto
      BY <2>2, <3>1
    <3>3. \A i \in Nat : n < i /\ i <= start + upto => ~Bit(seq, i)
      BY <2>1, <2>2, <3>1
    <3> QED BY <2>4, <3>1, <3>2, <3>3 DEF LastUpto
  <2> QED BY <2>3, <2>4
<1> QED BY <1>2, <1>4, <1>5

\* f is given on 0..N from its value at N downward.
DownwardOf(f, N, a, step) == f = [k \in 0..N |-> IF k = N THEN a ELSE step[<<f[k + 1], k>>]]

LEMMA DownwardExists ==
  ASSUME NEW V, NEW N \in Nat, NEW a \in V, NEW step \in [V \X (0..N - 1) -> V]
  PROVE  \E f : DownwardOf(f, N, a, step)
<1> DEFINE turned == [p \in V \X (1..N) |-> step[<<p[1], N - p[2]>>]]
<1>1. turned \in StepsOf(V, N)
  <2> SUFFICES ASSUME NEW p \in V \X (1..N) PROVE step[<<p[1], N - p[2]>>] \in V
    BY DEF StepsOf
  <2>1. p[1] \in V /\ N - p[2] \in 0..N - 1
    OBVIOUS
  <2> QED BY <2>1
<1>2. PICK run : RunOf(run, V, N, a, turned)
  <2> HIDE DEF turned
  <2> QED BY <1>1, RunExists
<1> DEFINE f == [k \in 0..N |-> run[N - k]]
<1>3. \A k \in 0..N : f[k] = IF k = N THEN a ELSE step[<<f[k + 1], k>>]
  <2> TAKE k \in 0..N
  <2>1. CASE k = N
    BY <1>2, <2>1 DEF RunOf
  <2>2. CASE k # N
    <3>1. k + 1 \in 0..N /\ N - k \in 1..N /\ N - k - 1 = N - (k + 1) /\ N - k - 1 \in 0..N /\ N - (N - k) = k
      BY <2>2
    <3>2. run[N - k] = turned[<<run[N - k - 1], N - k>>] /\ run[N - k - 1] \in V
      BY <1>2, <3>1 DEF RunOf
    <3>3. turned[<<run[N - k - 1], N - k>>] = step[<<run[N - k - 1], N - (N - k)>>]
      BY <3>1, <3>2
    <3> QED BY <2>2, <3>1, <3>2, <3>3
  <2> QED BY <2>1, <2>2
<1>4. f = [k \in 0..N |-> f[k]]
  OBVIOUS
<1> HIDE DEF f
<1>5. f = [k \in 0..N |-> IF k = N THEN a ELSE step[<<f[k + 1], k>>]]
  BY <1>3, <1>4
<1> QED BY <1>5 DEF DownwardOf

\* The upward scan of the summary finds its first bit after from0.
LEMMA SummaryNextIs ==
  ASSUME NEW bm, bm.summary \in Vector, NEW from0 \in Nat, from0 \div Width < Len(bm.summary)
  PROVE  FirstFrom(bm.summary, from0 + 1, SummaryNext(bm, from0))
<1> DEFINE sm == bm.summary
           N == Len(sm)
           w0 == from0 \div Width
           from(sw) == IF sw = w0 THEN (from0 % Width) + 1 ELSE 0
           hit(sw) == {b \in sm[sw + 1] : b >= from(sw)}
           Body(f, sw) == IF sw = N THEN None
                          ELSE IF hit(sw) # {} THEN sw * Width + Min(hit(sw)) ELSE f[sw + 1]
           IsScan(f) == f = [sw \in 0..N |-> Body(f, sw)]
<1>1. N \in Nat /\ sm \in Vector /\ w0 \in Nat /\ w0 < N /\ from0 % Width \in Bits
      /\ from0 = w0 * Width + (from0 % Width)
  BY IndexParts DEF Vector
<1>2. Width \in Nat \ {0} /\ \A b \in Bits : b \in Nat /\ b < Width
  BY WidthIs DEF Bits
<1>3. \A sw \in 0..N - 1 : /\ from(sw) \in 0..Width /\ sw \in Nat /\ sw < N /\ hit(sw) \subseteq Bits
                           /\ hit(sw) # {} => Min(hit(sw)) \in Nat
  <2> SUFFICES ASSUME NEW sw \in 0..N - 1
               PROVE  /\ from(sw) \in 0..Width /\ sw \in Nat /\ sw < N /\ hit(sw) \subseteq Bits
                      /\ hit(sw) # {} => Min(hit(sw)) \in Nat
    OBVIOUS
  <2>1. from(sw) \in 0..Width
    BY <1>1, <1>2
  <2>2. sw \in Nat /\ sw < N /\ sw + 1 \in 1..Len(sm)
    BY <1>1
  <2>3. sm[sw + 1] \in SUBSET Bits
    BY <1>1, <2>2, ElementOfSeq DEF Vector
  <2>4. hit(sw) \subseteq Bits
    BY <2>3
  <2> HIDE DEF hit
  <2>5. hit(sw) # {} => Min(hit(sw)) \in Nat
    BY <2>4, MinBit
  <2> QED BY <2>1, <2>2, <2>4, <2>5
<1>4. \E f : IsScan(f)
  <2> DEFINE step == [p \in Int \X (0..N - 1) |->
                       IF hit(p[2]) # {} THEN p[2] * Width + Min(hit(p[2])) ELSE p[1]]
  <2> HIDE DEF hit
  <2>1. step \in [Int \X (0..N - 1) -> Int]
    <3> SUFFICES ASSUME NEW p \in Int \X (0..N - 1)
                 PROVE  (IF hit(p[2]) # {} THEN p[2] * Width + Min(hit(p[2])) ELSE p[1]) \in Int
      OBVIOUS
    <3>1. p[1] \in Int /\ p[2] \in 0..N - 1
      OBVIOUS
    <3>2. hit(p[2]) # {} => Min(hit(p[2])) \in Int
      BY <1>3, <3>1
    <3>3. p[2] * Width \in Int
      BY <1>1, <1>2, <3>1
    <3> QED BY <3>1, <3>2, <3>3
  <2>2. None \in Int /\ N \in Nat
    BY <1>1 DEF None
  <2> HIDE DEF step
  <2>3. PICK f : DownwardOf(f, N, None, step)
    <3> HIDE DEF N
    <3> QED BY <2>1, <2>2, DownwardExists
  <2>4. \A k \in 0..N : f[k] \in Int
    <3> SUFFICES ASSUME NEW k \in 0..N PROVE f[k] \in Int
      OBVIOUS
    <3> DEFINE G == {n \in Nat : n <= N => f[N - n] \in Int}
    <3>1. 0 \in G
      BY <2>2, <2>3 DEF DownwardOf
    <3>2. \A n \in Nat : n \in G => n + 1 \in G
      <4> SUFFICES ASSUME NEW n \in Nat, n + 1 <= N, f[N - n] \in Int PROVE f[N - (n + 1)] \in Int
        BY <2>2
      <4> DEFINE j == N - (n + 1)
      <4>1. j \in 0..N /\ j # N /\ j \in 0..N - 1 /\ j + 1 = N - n
        BY <2>2
      <4> HIDE DEF j
      <4>2. f[j] = step[<<f[j + 1], j>>]
        BY <2>3, <4>1 DEF DownwardOf
      <4>3. <<f[j + 1], j>> \in Int \X (0..N - 1)
        BY <4>1
      <4> QED BY <2>1, <4>2, <4>3 DEF j
    <3> HIDE DEF G
    <3>3. Nat \subseteq G
      BY <3>1, <3>2, Induction
    <3>4. N - k \in G /\ N - k <= N /\ N - (N - k) = k
      BY <2>2, <3>3
    <3> QED BY <3>4 DEF G
  <2>5. \A sw \in 0..N : f[sw] = Body(f, sw)
    <3> TAKE sw \in 0..N
    <3>1. CASE sw = N
      BY <2>3, <3>1 DEF DownwardOf
    <3>2. CASE sw # N
      <4>1. sw \in 0..N - 1 /\ sw + 1 \in 0..N
        BY <2>2, <3>2
      <4>2. f[sw] = step[<<f[sw + 1], sw>>] /\ f[sw + 1] \in Int
        BY <2>3, <2>4, <3>2, <4>1 DEF DownwardOf
      <4> QED BY <3>2, <4>1, <4>2 DEF step
    <3> QED BY <3>1, <3>2
  <2>6. f = [sw \in 0..N |-> f[sw]]
    BY <2>3 DEF DownwardOf
  <2>7. IsScan(f)
    BY <2>5, <2>6
  <2> QED BY <2>7
<1> DEFINE scan == CHOOSE f : IsScan(f)
<1>5. scan = [sw \in 0..N |-> Body(scan, sw)]
  BY <1>4
<1>6. SummaryNext(bm, from0) = scan[w0]
  BY DEF SummaryNext, Word
<1> HIDE DEF scan
<1> DEFINE start(sw) == IF sw = w0 THEN from0 + 1 ELSE sw * Width
           Good(n) == N - n >= w0 => FirstFrom(sm, start(N - n), scan[N - n])
           G == {n \in Nat : n <= N => Good(n)}
<1>7. 0 \in G
  <2>1. scan[N] = None /\ N - 0 = N /\ N \in 0..N /\ start(N) = N * Width
    BY <1>1, <1>5
  <2>2. \A i \in Nat : i >= N * Width => ~Bit(sm, i)
    <3> SUFFICES ASSUME NEW i \in Nat, i >= N * Width, Bit(sm, i) PROVE FALSE
      OBVIOUS
    <3>1. i < N * Width <=> i \div Width < N
      BY <1>1, WordOf
    <3>2. i \div Width < N
      BY DEF Bit
    <3>3. N * Width \in Int
      BY <1>1, <1>2
    <3> QED BY <3>1, <3>2, <3>3
  <2>3. Good(0)
    BY <2>1, <2>2 DEF FirstFrom
  <2> QED BY <2>3
<1>8. \A n \in Nat : n \in G => n + 1 \in G
  <2> SUFFICES ASSUME NEW n \in Nat, n + 1 <= N, Good(n), N - (n + 1) >= w0
               PROVE  FirstFrom(sm, start(N - (n + 1)), scan[N - (n + 1)])
    BY <1>1
  <2> DEFINE sw == N - (n + 1)
  <2>1. sw \in 0..N - 1 /\ sw \in Nat /\ sw < N /\ sw \in 0..N /\ sw # N /\ sw + 1 = N - n /\ sw + 1 # w0
        /\ N - n >= w0
    BY <1>1
  <2>2. FirstFrom(sm, (sw + 1) * Width, scan[sw + 1])
    BY <2>1
  <2>3. scan[sw] = IF hit(sw) # {} THEN sw * Width + Min(hit(sw)) ELSE scan[sw + 1]
    BY <1>5, <2>1
  <2> HIDE DEF sw
  <2>4. start(sw) = sw * Width + from(sw)
    <3>1. CASE sw = w0
      <4>1. w0 * Width \in Int /\ from0 % Width \in Int
        BY <1>1, <1>2
      <4> DEFINE x == w0 * Width
                 c == from0 % Width
      <4>2. x \in Int /\ c \in Int /\ from0 = x + c
        BY <1>1, <4>1
      <4> HIDE DEF x, c
      <4>3. from0 + 1 = x + (c + 1)
        BY <4>2
      <4> QED BY <3>1, <4>3 DEF x, c
    <3>2. CASE sw # w0
      <4>1. sw * Width \in Int
        BY <1>2, <2>1
      <4> QED BY <3>2, <4>1
    <3> QED BY <3>1, <3>2
  <2>5. from(sw) \in 0..Width
    BY <1>3, <2>1
  <2> HIDE DEF from
  <2>6. /\ hit(sw) # {} => FirstFrom(sm, sw * Width + from(sw), sw * Width + Min(hit(sw)))
        /\ \A k : hit(sw) = {} /\ FirstFrom(sm, (sw + 1) * Width, k) => FirstFrom(sm, sw * Width + from(sw), k)
    <3> HIDE DEF N
    <3>1. sw < Len(sm)
      BY <2>1 DEF N
    <3> QED BY <1>1, <2>1, <2>5, <3>1, UpInWord
  <2> HIDE DEF hit
  <2>7. FirstFrom(sm, start(sw), scan[sw])
    BY <2>2, <2>3, <2>4, <2>6
  <2> QED BY <2>7 DEF sw
<1> HIDE DEF G
<1>9. Nat \subseteq G
  BY <1>7, <1>8, Induction
<1>10. N - w0 \in Nat /\ N - w0 <= N /\ N - (N - w0) = w0 /\ w0 >= w0
  BY <1>1
<1>11. Good(N - w0)
  <2> HIDE DEF Good
  <2> QED BY <1>9, <1>10 DEF G
<1>12. FirstFrom(sm, start(w0), scan[w0])
  BY <1>10, <1>11
<1> QED BY <1>6, <1>12

\* The downward scan of the summary finds its last bit up to w0.
LEMMA SummaryPrevIs ==
  ASSUME NEW bm, bm.summary \in Vector, NEW w0 \in Nat, w0 \div Width < Len(bm.summary)
  PROVE  LastUpto(bm.summary, w0, SummaryPrev(bm, w0))
<1> DEFINE sm == bm.summary
           N == Len(sm)
           top == w0 \div Width
           upto(sw) == IF sw = top THEN w0 % Width ELSE Width - 1
           hit(sw) == {b \in sm[sw + 1] : b <= upto(sw)}
           Body(f, sw) == IF sw = -1 THEN None
                          ELSE IF hit(sw) # {} THEN sw * Width + Max(hit(sw)) ELSE f[sw - 1]
           IsScan(f) == f = [sw \in -1..N - 1 |-> Body(f, sw)]
<1>1. N \in Nat /\ sm \in Vector /\ top \in Nat /\ top < N /\ w0 % Width \in Bits
      /\ w0 = top * Width + (w0 % Width)
  BY IndexParts DEF Vector
<1>2. Width \in Nat \ {0} /\ Width - 1 \in Bits /\ \A b \in Bits : b \in Nat /\ b < Width
  BY WidthIs DEF Bits
<1>3. \A sw \in 0..N - 1 : /\ upto(sw) \in Bits /\ sw \in Nat /\ sw < N /\ hit(sw) \subseteq Bits
                           /\ hit(sw) # {} => Max(hit(sw)) \in Nat
  <2> SUFFICES ASSUME NEW sw \in 0..N - 1
               PROVE  /\ upto(sw) \in Bits /\ sw \in Nat /\ sw < N /\ hit(sw) \subseteq Bits
                      /\ hit(sw) # {} => Max(hit(sw)) \in Nat
    OBVIOUS
  <2>1. upto(sw) \in Bits
    BY <1>1, <1>2
  <2>2. sw \in Nat /\ sw < N /\ sw + 1 \in 1..Len(sm)
    BY <1>1
  <2>3. sm[sw + 1] \in SUBSET Bits
    BY <1>1, <2>2, ElementOfSeq DEF Vector
  <2>4. hit(sw) \subseteq Bits
    BY <2>3
  <2> HIDE DEF hit
  <2>5. hit(sw) # {} => Max(hit(sw)) \in Nat
    BY <2>4, MaxBit
  <2> QED BY <2>1, <2>2, <2>4, <2>5
<1>4. \E f : IsScan(f)
  <2> DEFINE step == [p \in Int \X (1..N) |->
                       IF hit(p[2] - 1) # {} THEN (p[2] - 1) * Width + Max(hit(p[2] - 1)) ELSE p[1]]
  <2> HIDE DEF hit
  <2>1. step \in StepsOf(Int, N)
    <3> SUFFICES ASSUME NEW p \in Int \X (1..N)
                 PROVE  (IF hit(p[2] - 1) # {} THEN (p[2] - 1) * Width + Max(hit(p[2] - 1)) ELSE p[1]) \in Int
      BY DEF StepsOf
    <3>1. p[1] \in Int /\ p[2] - 1 \in 0..N - 1
      BY <1>1
    <3>2. hit(p[2] - 1) # {} => Max(hit(p[2] - 1)) \in Int
      BY <1>3, <3>1
    <3>3. (p[2] - 1) * Width \in Int
      BY <1>1, <1>2, <3>1
    <3> QED BY <3>1, <3>2, <3>3
  <2>2. None \in Int /\ N \in Nat
    BY <1>1 DEF None
  <2> HIDE DEF step
  <2>3. PICK run : RunOf(run, Int, N, None, step)
    <3> HIDE DEF N
    <3> QED BY <2>1, <2>2, RunExists
  <2> DEFINE f == [sw \in -1..N - 1 |-> run[sw + 1]]
  <2>4. \A sw \in -1..N - 1 : f[sw] = Body(f, sw)
    <3> TAKE sw \in -1..N - 1
    <3>1. CASE sw = -1
      <4>1. sw + 1 = 0 /\ f[sw] = run[sw + 1]
        BY <3>1
      <4>2. run[0] = None
        BY <2>3 DEF RunOf
      <4> QED BY <3>1, <4>1, <4>2
    <3>2. CASE sw # -1
      <4>1. sw \in 0..N - 1 /\ sw - 1 \in -1..N - 1 /\ sw + 1 \in 1..N /\ (sw + 1) - 1 = sw
            /\ (sw - 1) + 1 = sw /\ sw \in 0..N
        BY <2>2, <3>2
      <4>2. run[sw + 1] = step[<<run[(sw + 1) - 1], sw + 1>>] /\ run[sw] \in Int
        BY <2>3, <4>1 DEF RunOf
      <4>3. step[<<run[sw], sw + 1>>] = IF hit(sw) # {} THEN sw * Width + Max(hit(sw)) ELSE run[sw]
        BY <4>1, <4>2 DEF step
      <4>4. f[sw - 1] = run[sw]
        BY <4>1
      <4> QED BY <3>2, <4>1, <4>2, <4>3, <4>4
    <3> QED BY <3>1, <3>2
  <2>5. f = [sw \in -1..N - 1 |-> f[sw]]
    OBVIOUS
  <2> HIDE DEF f
  <2>6. IsScan(f)
    BY <2>4, <2>5
  <2> QED BY <2>6
<1> DEFINE scan == CHOOSE f : IsScan(f)
<1>5. scan = [sw \in -1..N - 1 |-> Body(scan, sw)]
  BY <1>4
<1>6. SummaryPrev(bm, w0) = scan[top]
  BY DEF SummaryPrev, Word
<1> HIDE DEF scan
<1> DEFINE end(sw) == IF sw = top THEN w0 ELSE sw * Width + (Width - 1)
           Good(n) == n - 1 <= top => LastUpto(sm, end(n - 1), scan[n - 1])
           G == {n \in Nat : n <= N => Good(n)}
<1>7. 0 \in G
  <2>1. scan[0 - 1] = None /\ end(0 - 1) = -1
    <3>1. 0 - 1 \in -1..N - 1 /\ 0 - 1 = -1 /\ 0 - 1 # top
      BY <1>1
    <3>2. (0 - 1) * Width + (Width - 1) = -1
      <4>1. (0 - 1) * Width = 0 - Width
        BY <1>2
      <4> QED BY <1>2, <4>1
    <3>3. scan[0 - 1] = None
      BY <1>5, <3>1
    <3> QED BY <3>1, <3>2, <3>3
  <2>2. \A i \in Nat : ~(i <= -1)
    OBVIOUS
  <2>3. Good(0)
    BY <2>1, <2>2 DEF LastUpto
  <2> QED BY <2>3
<1>8. \A n \in Nat : n \in G => n + 1 \in G
  <2> SUFFICES ASSUME NEW n \in Nat, n + 1 <= N, Good(n), (n + 1) - 1 <= top
               PROVE  LastUpto(sm, end((n + 1) - 1), scan[(n + 1) - 1])
    BY <1>1
  <2>1. n \in 0..N - 1 /\ n < N /\ n \in -1..N - 1 /\ n # -1 /\ (n + 1) - 1 = n /\ n - 1 # top /\ n - 1 <= top
    BY <1>1
  <2>2. LastUpto(sm, n * Width - 1, scan[n - 1])
    <3>1. (n - 1) * Width + (Width - 1) = n * Width - 1
      <4>1. (n - 1) * Width = n * Width - Width /\ n * Width \in Int
        BY <1>2
      <4> QED BY <1>2, <4>1
    <3>2. end(n - 1) = n * Width - 1
      BY <2>1, <3>1
    <3> QED BY <2>1, <3>2
  <2>3. scan[n] = IF hit(n) # {} THEN n * Width + Max(hit(n)) ELSE scan[n - 1]
    BY <1>5, <2>1
  <2>4. end(n) = n * Width + upto(n)
    BY <1>1
  <2>5. upto(n) \in Bits
    BY <1>3, <2>1
  <2> HIDE DEF upto
  <2>6. /\ hit(n) # {} => LastUpto(sm, n * Width + upto(n), n * Width + Max(hit(n)))
        /\ \A k : hit(n) = {} /\ LastUpto(sm, n * Width - 1, k) => LastUpto(sm, n * Width + upto(n), k)
    <3> HIDE DEF N
    <3>1. n < Len(sm)
      BY <2>1 DEF N
    <3> QED BY <1>1, <2>1, <2>5, <3>1, DownInWord
  <2> HIDE DEF hit, end
  <2>7. LastUpto(sm, end(n), scan[n])
    BY <2>2, <2>3, <2>4, <2>6
  <2> QED BY <2>1, <2>7
<1> HIDE DEF G
<1>9. Nat \subseteq G
  BY <1>7, <1>8, Induction
<1>10. top + 1 \in Nat /\ top + 1 <= N /\ (top + 1) - 1 = top /\ top <= top
  BY <1>1
<1>11. Good(top + 1)
  <2> HIDE DEF Good
  <2> QED BY <1>9, <1>10 DEF G
<1>12. LastUpto(sm, end(top), scan[top])
  <2> HIDE DEF end
  <2> QED BY <1>10, <1>11
<1> QED BY <1>6, <1>12

\* No bit is set in a stretch of empty words.
LEMMA EmptyStretch ==
  ASSUME NEW seq \in Vector, NEW lo \in Nat, NEW hi \in Nat,
         \A v \in Nat : lo <= v /\ v < hi => ~(v < Len(seq) /\ seq[v + 1] # {})
  PROVE  \A i \in Nat : lo * Width <= i /\ i < hi * Width => ~Bit(seq, i)
<1> SUFFICES ASSUME NEW i \in Nat, lo * Width <= i, i < hi * Width, Bit(seq, i) PROVE FALSE
  OBVIOUS
<1>1. i \div Width \in Nat
  BY WordOf
<1>2. lo <= i \div Width
  BY InWord
<1>3. i \div Width < hi
  <2>1. hi - 1 \in Int /\ (hi - 1) + 1 = hi
    OBVIOUS
  <2>2. i \div Width <= hi - 1
    BY <2>1, InWord
  <2> QED BY <1>1, <2>2
<1> QED BY <1>1, <1>2, <1>3 DEF Bit

\* No bit is set past the last word.
LEMMA PastTheEnd ==
  ASSUME NEW seq \in Vector, NEW i \in Nat, i >= Len(seq) * Width
  PROVE  ~Bit(seq, i)
<1>1. i < Len(seq) * Width <=> i \div Width < Len(seq)
  BY WordOf
<1>2. Len(seq) * Width \in Int
  BY WidthIs DEF Vector
<1> QED BY <1>1, <1>2 DEF Bit

\* next_set_from finds the first set index from idx on.
LEMMA NextIs ==
  ASSUME NEW bm, TiersAgree(bm), NEW idx \in Nat
  PROVE  FirstFrom(bm.words, idx, next_set_from(bm, idx))
<1> DEFINE ws == bm.words
           n == Len(ws)
           w == idx \div Width
           r == idx % Width
           masked == {b \in ws[w + 1] : b >= r}
           next == SummaryNext(bm, w)
           result == next_set_from(bm, idx)
<1>1. ws \in Vector /\ bm.summary \in Vector /\ n \in Nat /\ w \in Nat /\ r \in Bits /\ idx = w * Width + r
      /\ n <= Len(bm.summary) * Width /\ Len(bm.summary) * Width \in Int
      /\ \A v \in Nat : Bit(bm.summary, v) <=> v < n /\ ws[v + 1] # {}
  <2>1. ws \in Vector /\ bm.summary \in Vector /\ n <= Len(bm.summary) * Width
        /\ \A v \in Nat : Bit(bm.summary, v) <=> v < n /\ ws[v + 1] # {}
    BY DEF TiersAgree, Tiers
  <2>2. n \in Nat /\ Len(bm.summary) \in Nat /\ Len(bm.summary) * Width \in Int
    BY <2>1, WidthIs DEF Vector
  <2>3. w \in Nat /\ r \in Bits /\ idx = w * Width + r
    BY IndexParts
  <2> QED BY <2>1, <2>2, <2>3
<1> SUFFICES FirstFrom(ws, idx, result)
  OBVIOUS
<1>2. result = IF w >= n THEN None
               ELSE IF masked # {} THEN w * Width + Min(masked)
               ELSE IF next = None \/ next >= n THEN None
               ELSE next * Width + Min(ws[next + 1])
  BY DEF next_set_from, Word
<1>3. Width \in Nat /\ r \in 0..Width /\ 0 \in 0..Width
  BY <1>1, WidthIs DEF Bits
<1>4. CASE w >= n
  <2>1. idx >= n * Width /\ n * Width \in Int
    <3>1. idx < n * Width <=> w < n
      BY <1>1, WordOf
    <3>2. n * Width \in Int
      BY <1>1, <1>3
    <3> QED BY <1>1, <1>4, <3>1, <3>2
  <2>2. \A i \in Nat : i >= idx => i >= n * Width
    BY <2>1
  <2>3. \A i \in Nat : i >= idx => ~Bit(ws, i)
    BY <1>1, <2>2, PastTheEnd
  <2> QED BY <1>2, <1>4, <2>3 DEF FirstFrom
<1>5. CASE w < n
  <2>1. /\ masked # {} => FirstFrom(ws, w * Width + r, w * Width + Min(masked))
        /\ \A k : masked = {} /\ FirstFrom(ws, (w + 1) * Width, k) => FirstFrom(ws, w * Width + r, k)
    <3> HIDE DEF w, r, ws
    <3> QED BY <1>1, <1>3, <1>5, UpInWord
  <2>2. w \div Width < Len(bm.summary)
    <3>1. w < Len(bm.summary) * Width
      BY <1>1, <1>5
    <3> HIDE DEF w
    <3> QED BY <1>1, <3>1, WordOf
  <2>3. FirstFrom(bm.summary, w + 1, next)
    <3> HIDE DEF w
    <3> QED BY <1>1, <2>2, SummaryNextIs
  <2>4. CASE masked # {}
    <3> HIDE DEF masked, w, r, ws, next, result
    <3> QED BY <1>1, <1>2, <1>5, <2>1, <2>4
  <2>5. CASE masked = {}
    <3>1. CASE next = None
      <4>1. \A v \in Nat : v >= w + 1 => ~(v < n /\ ws[v + 1] # {})
        BY <1>1, <2>3, <3>1 DEF FirstFrom
      <4>2. ASSUME NEW i \in Nat, i >= (w + 1) * Width PROVE ~Bit(ws, i)
        <5>1. w + 1 \in Nat /\ (i + 1) \in Nat
          BY <1>1
        <5>2. \A v \in Nat : w + 1 <= v /\ v < i + 1 => ~(v < n /\ ws[v + 1] # {})
          BY <1>1, <4>1
        <5>3. \A j \in Nat : (w + 1) * Width <= j /\ j < (i + 1) * Width => ~Bit(ws, j)
          <6> HIDE DEF w, ws
          <6> QED BY <1>1, <5>1, <5>2, EmptyStretch
        <5>4. i < (i + 1) * Width
          BY WidthIs
        <5>5. (w + 1) * Width \in Int
          BY <1>1, <1>3
        <5> QED BY <4>2, <5>3, <5>4, <5>5
      <4>3. FirstFrom(ws, (w + 1) * Width, None)
        BY <4>2 DEF FirstFrom
      <4>4. result = None
        <5>1. ~(w >= n)
          BY <1>1, <1>5
        <5> QED BY <1>2, <5>1, <2>5, <3>1
      <4> HIDE DEF masked, w, r, ws, next, result
      <4> QED BY <1>1, <2>1, <2>5, <4>3, <4>4
    <3>2. CASE next # None
      <4>1. next \in Nat /\ next >= w + 1 /\ next < n /\ ws[next + 1] # {}
            /\ \A v \in Nat : w + 1 <= v /\ v < next => ~(v < n /\ ws[v + 1] # {})
        <5> HIDE DEF next, w, ws
        <5> QED BY <1>1, <2>3, <3>2 DEF FirstFrom
      <4> HIDE DEF next
      <4>2. ws[next + 1] = {b \in ws[next + 1] : b >= 0}
        <5>1. next + 1 \in 1..n
          BY <1>1, <4>1
        <5>2. ws[next + 1] \in SUBSET Bits
          BY <1>1, <5>1, ElementOfSeq DEF Vector
        <5>3. \A h \in SUBSET Bits : h = {b \in h : b >= 0}
          <6>1. \A b \in Bits : b >= 0 /\ b <= Width - 1
            BY DEF Bits
          <6> QED BY <6>1
        <5> HIDE DEF ws
        <5> QED BY <5>2, <5>3
      <4>3. FirstFrom(ws, next * Width + 0, next * Width + Min(ws[next + 1]))
        <5> HIDE DEF w, r, ws
        <5> DEFINE hit == {b \in ws[next + 1] : b >= 0}
        <5>1. hit # {} => FirstFrom(ws, next * Width + 0, next * Width + Min(hit))
          BY <1>1, <1>3, <4>1, UpInWord
        <5>2. hit = ws[next + 1]
          BY <4>2
        <5> HIDE DEF hit
        <5> QED BY <4>1, <5>1, <5>2
      <4>4. next * Width + 0 = next * Width /\ next * Width \in Int /\ (w + 1) * Width <= next * Width
            /\ (w + 1) * Width \in Int
        <5>1. next * Width \in Int /\ (w + 1) * Width \in Int
          BY <1>1, <1>3, <4>1
        <5>2. (w + 1) * Width <= next * Width
          <6> DEFINE d == next - (w + 1)
          <6>1. d \in Nat /\ next = (w + 1) + d
            BY <1>1, <4>1
          <6> HIDE DEF d
          <6>2. next * Width = (w + 1) * Width + d * Width
            BY <1>1, <1>3, <6>1
          <6>3. d * Width \in Nat
            BY <1>3, <6>1
          <6> QED BY <5>1, <6>2, <6>3
        <5> QED BY <5>1, <5>2
      <4>5. \A i \in Nat : (w + 1) * Width <= i /\ i < next * Width => ~Bit(ws, i)
        <5>1. w + 1 \in Nat
          BY <1>1
        <5> HIDE DEF w, ws
        <5> QED BY <1>1, <4>1, <5>1, EmptyStretch
      <4>6. result = next * Width + Min(ws[next + 1])
        <5>1. ~(w >= n) /\ ~(next >= n)
          BY <1>1, <1>5, <4>1
        <5> QED BY <1>2, <2>5, <3>2, <5>1
      <4>7. FirstFrom(ws, next * Width, result)
        BY <4>3, <4>4, <4>6
      <4> HIDE DEF masked, w, r, ws, result
      <4> DEFINE lo == (w + 1) * Width
                 mid == next * Width
      <4>8. lo \in Int /\ mid \in Int /\ lo <= mid /\ FirstFrom(ws, mid, result)
            /\ \A i \in Nat : lo <= i /\ i < mid => ~Bit(ws, i)
        BY <4>4, <4>5, <4>7
      <4> HIDE DEF lo, mid
      <4>9. FirstFrom(ws, lo, result)
        <5>1. CASE result = None
          BY <4>8, <5>1 DEF FirstFrom
        <5>2. CASE result # None
          <6>1. result \in Nat /\ result >= mid /\ Bit(ws, result) /\ \A i \in Nat : mid <= i /\ i < result => ~Bit(ws, i)
            BY <4>8, <5>2 DEF FirstFrom
          <6>2. result >= lo /\ \A i \in Nat : lo <= i /\ i < result => ~Bit(ws, i)
            BY <4>8, <6>1
          <6> QED BY <5>2, <6>1, <6>2 DEF FirstFrom
        <5> QED BY <5>1, <5>2
      <4> QED BY <1>1, <2>1, <2>5, <4>9 DEF lo
    <3> QED BY <3>1, <3>2
  <2> QED BY <2>4, <2>5
<1> QED BY <1>1, <1>4, <1>5

\* prev_set_from finds the last set index up to idx0.
LEMMA PrevIs ==
  ASSUME NEW bm, TiersAgree(bm), NEW idx0 \in Nat
  PROVE  LastUpto(bm.words, idx0, prev_set_from(bm, idx0))
<1> DEFINE ws == bm.words
           n == Len(ws)
           idx == IF idx0 \div Width >= n THEN n * Width - 1 ELSE idx0
           w == idx \div Width
           r == idx % Width
           masked == {b \in ws[w + 1] : b <= r}
           prev == SummaryPrev(bm, w - 1)
           result == prev_set_from(bm, idx0)
<1>1. ws \in Vector /\ bm.summary \in Vector /\ n \in Nat
      /\ n <= Len(bm.summary) * Width /\ Len(bm.summary) * Width \in Int
      /\ \A v \in Nat : Bit(bm.summary, v) <=> v < n /\ ws[v + 1] # {}
  <2>1. ws \in Vector /\ bm.summary \in Vector /\ n <= Len(bm.summary) * Width
        /\ \A v \in Nat : Bit(bm.summary, v) <=> v < n /\ ws[v + 1] # {}
    BY DEF TiersAgree, Tiers
  <2>2. n \in Nat /\ Len(bm.summary) \in Nat /\ Len(bm.summary) * Width \in Int
    BY <2>1, WidthIs DEF Vector
  <2> QED BY <2>1, <2>2
<1> SUFFICES LastUpto(ws, idx0, result)
  OBVIOUS
<1>2. result = IF n = 0 THEN None
               ELSE IF masked # {} THEN w * Width + Max(masked)
               ELSE IF w = 0 \/ prev = None THEN None
               ELSE prev * Width + Max(ws[prev + 1])
  BY DEF prev_set_from, Word
<1>3. Width \in Nat \ {0} /\ Width - 1 \in Bits
  BY WidthIs
<1>4. CASE n = 0
  <2>1. \A i \in Nat : ~Bit(ws, i)
    <3> TAKE i \in Nat
    <3>1. i \div Width \in Nat
      BY IndexParts
    <3> QED BY <1>4, <3>1 DEF Bit
  <2> QED BY <1>2, <1>4, <2>1 DEF LastUpto
<1>5. CASE n # 0
  <2>1. idx \in Nat /\ idx <= idx0 /\ w \in Nat /\ r \in Bits /\ idx = w * Width + r /\ w < n
        /\ \A i \in Nat : idx < i /\ i <= idx0 => ~Bit(ws, i)
    <3>1. CASE idx0 \div Width >= n
      <4> DEFINE m == n - 1
                 len == n * Width
      <4>1. m \in Nat /\ m < n /\ m + 1 = n
        BY <1>1, <1>5
      <4>2. len = m * Width + Width /\ m * Width \in Nat /\ len \in Nat
        BY <4>1, <1>3
      <4>3. idx = len - 1
        BY <3>1
      <4>4. idx = m * Width + (Width - 1) /\ idx \in Nat
        <5> HIDE DEF m, len, idx
        <5> QED BY <1>3, <4>2, <4>3
      <4>5. w = m /\ r = Width - 1
        <5> DEFINE last == Width - 1
        <5>1. last \in Bits /\ m \in Int /\ idx = m * Width + last
          BY <1>3, <4>1, <4>4
        <5> HIDE DEF last, m, idx
        <5>2. (m * Width + last) \div Width = m /\ (m * Width + last) % Width = last
          BY <5>1, BitIndex
        <5> QED BY <5>1, <5>2 DEF last
      <4>6. idx0 >= len
        <5>1. idx0 < n * Width <=> idx0 \div Width < n
          BY <1>1, WordOf
        <5>2. idx0 \div Width \in Int
          BY IndexParts
        <5>3. ~(idx0 \div Width < n)
          BY <1>1, <3>1, <5>2
        <5>4. ~(idx0 < len)
          BY <5>1, <5>3
        <5> HIDE DEF len
        <5> QED BY <4>2, <5>4
      <4>7. \A i \in Nat : idx < i => ~Bit(ws, i)
        <5> SUFFICES ASSUME NEW i \in Nat, idx < i PROVE ~Bit(ws, i)
          OBVIOUS
        <5>1. i >= len
          <6> HIDE DEF len, idx
          <6> QED BY <4>2, <4>3
        <5> QED BY <1>1, <5>1, PastTheEnd
      <4>8. idx <= idx0
        <5> HIDE DEF len, idx
        <5> QED BY <4>2, <4>3, <4>6
      <4> HIDE DEF idx
      <4> QED BY <1>3, <4>1, <4>4, <4>5, <4>7, <4>8
    <3>2. CASE ~(idx0 \div Width >= n)
      <4>1. idx = idx0
        BY <3>2
      <4>2. w \in Nat /\ r \in Bits /\ idx = w * Width + r
        BY <4>1, IndexParts
      <4>3. w < n
        BY <1>1, <3>2, <4>1, <4>2
      <4> HIDE DEF idx
      <4> QED BY <4>1, <4>2, <4>3
    <3> QED BY <3>1, <3>2
  <2> HIDE DEF idx
  <2>2. /\ masked # {} => LastUpto(ws, w * Width + r, w * Width + Max(masked))
        /\ \A k : masked = {} /\ LastUpto(ws, w * Width - 1, k) => LastUpto(ws, w * Width + r, k)
    <3> HIDE DEF w, r, ws
    <3> QED BY <1>1, <2>1, DownInWord
  <2>3. LastUpto(ws, idx, result)
    <3>1. CASE masked # {}
      <4> HIDE DEF masked, w, r, ws, prev, result
      <4> QED BY <1>2, <1>5, <2>1, <2>2, <3>1
    <3>2. CASE masked = {} /\ w = 0
      <4>1. w * Width - 1 = -1
        BY <1>3, <3>2
      <4>2. LastUpto(ws, w * Width - 1, None)
        <5> HIDE DEF w
        <5> QED BY <4>1 DEF LastUpto
      <4> HIDE DEF masked, w, r, ws, prev, result
      <4> QED BY <1>2, <1>5, <2>1, <2>2, <3>2, <4>2
    <3>3. CASE masked = {} /\ w # 0
      <4> DEFINE below == w - 1
                 mid == w * Width
      <4>1. below \in Nat /\ below < n /\ below + 1 = w /\ mid \in Nat
        BY <1>1, <1>3, <2>1, <3>3
      <4>2. below \div Width < Len(bm.summary)
        <5>1. below < Len(bm.summary) * Width
          BY <1>1, <4>1
        <5> HIDE DEF below
        <5> QED BY <1>1, <4>1, <5>1, WordOf
      <4>3. LastUpto(bm.summary, below, prev)
        <5>1. prev = SummaryPrev(bm, below)
          OBVIOUS
        <5> HIDE DEF below, prev
        <5> QED BY <1>1, <4>1, <4>2, <5>1, SummaryPrevIs
      <4>4. LastUpto(ws, mid - 1, result)
        <5>1. CASE prev = None
          <6>1. \A v \in Nat : v <= below => ~(v < n /\ ws[v + 1] # {})
            BY <1>1, <4>3, <5>1 DEF LastUpto
          <6>2. \A v \in Nat : 0 <= v /\ v < w => ~(v < n /\ ws[v + 1] # {})
            <7> HIDE DEF ws, w
            <7> QED BY <2>1, <6>1
          <6>3. \A i \in Nat : 0 * Width <= i /\ i < w * Width => ~Bit(ws, i)
            <7> HIDE DEF w, ws
            <7> QED BY <1>1, <2>1, <6>2, EmptyStretch
          <6>4. 0 * Width = 0
            BY <1>3
          <6>5. \A i \in Nat : i <= mid - 1 => ~Bit(ws, i)
            <7>1. \A i \in Nat : i < mid => ~Bit(ws, i)
              BY <6>3, <6>4
            <7> HIDE DEF mid
            <7> QED BY <4>1, <7>1
          <6>6. result = None
            <7> HIDE DEF masked, w, ws, prev, result
            <7> QED BY <1>2, <1>5, <3>3, <5>1
          <6> HIDE DEF result, mid
          <6> QED BY <6>5, <6>6 DEF LastUpto
        <5>2. CASE prev # None
          <6>1. prev \in Nat /\ prev <= below /\ prev < n /\ ws[prev + 1] # {}
                /\ \A v \in Nat : prev < v /\ v <= below => ~(v < n /\ ws[v + 1] # {})
            <7> HIDE DEF prev, w, ws, below
            <7> QED BY <1>1, <4>3, <5>2 DEF LastUpto
          <6> HIDE DEF prev
          <6>2. result = prev * Width + Max(ws[prev + 1])
            <7> HIDE DEF masked, w, ws, result
            <7> QED BY <1>2, <1>5, <3>3, <5>2
          <6>3. ws[prev + 1] = {b \in ws[prev + 1] : b <= Width - 1}
            <7>1. prev + 1 \in 1..n
              BY <1>1, <6>1
            <7>2. ws[prev + 1] \in SUBSET Bits
              BY <1>1, <7>1, ElementOfSeq DEF Vector
            <7>3. \A h \in SUBSET Bits : h = {b \in h : b <= Width - 1}
              <8>1. \A b \in Bits : b >= 0 /\ b <= Width - 1
                BY DEF Bits
              <8> QED BY <8>1
            <7> HIDE DEF ws
            <7> QED BY <7>2, <7>3
          <6>4. LastUpto(ws, prev * Width + (Width - 1), prev * Width + Max(ws[prev + 1]))
            <7> HIDE DEF w, r, ws
            <7> DEFINE hit == {b \in ws[prev + 1] : b <= Width - 1}
            <7>1. hit # {} => LastUpto(ws, prev * Width + (Width - 1), prev * Width + Max(hit))
              BY <1>1, <1>3, <6>1, DownInWord
            <7>2. hit = ws[prev + 1]
              BY <6>3
            <7> HIDE DEF hit
            <7> QED BY <6>1, <7>1, <7>2
          <6> DEFINE next == prev + 1
                     lo == next * Width
          <6>5. next \in Nat /\ next <= w
            BY <4>1, <6>1
          <6>6. lo \in Nat /\ lo - 1 = prev * Width + (Width - 1)
            <7>1. lo = prev * Width + Width /\ prev * Width \in Nat
              BY <1>3, <6>1
            <7> HIDE DEF lo
            <7> QED BY <1>3, <7>1
          <6>7. lo <= mid
            <7> DEFINE d == w - next
            <7>1. d \in Nat /\ w = next + d
              BY <2>1, <6>5
            <7> HIDE DEF d, next, w
            <7>2. w * Width = next * Width + d * Width
              BY <1>3, <6>5, <7>1
            <7>3. d * Width \in Nat
              BY <1>3, <7>1
            <7> QED BY <6>6, <7>2, <7>3
          <6>8. \A i \in Nat : lo <= i /\ i < mid => ~Bit(ws, i)
            <7>1. \A v \in Nat : next <= v /\ v < w => ~(v < n /\ ws[v + 1] # {})
              <8> TAKE v \in Nat
              <8>1. next <= v /\ v < w => prev < v /\ v <= below
                <9> HIDE DEF w
                <9> QED BY <2>1, <6>1
              <8> QED BY <6>1, <8>1
            <7> HIDE DEF next, w, ws
            <7> QED BY <1>1, <2>1, <6>5, <7>1, EmptyStretch
          <6>9. LastUpto(ws, lo - 1, result)
            BY <6>2, <6>4, <6>6
          <6> HIDE DEF lo, mid, ws, result
          <6>10. CASE result = None
            <7>1. \A i \in Nat : i <= lo - 1 => ~Bit(ws, i)
              BY <6>9, <6>10 DEF LastUpto
            <7>2. \A i \in Nat : i <= mid - 1 => ~Bit(ws, i)
              BY <4>1, <6>6, <6>7, <6>8, <7>1
            <7> QED BY <6>10, <7>2 DEF LastUpto
          <6>11. CASE result # None
            <7>1. result \in Nat /\ result <= lo - 1 /\ Bit(ws, result)
                  /\ \A i \in Nat : result < i /\ i <= lo - 1 => ~Bit(ws, i)
              BY <6>9, <6>11 DEF LastUpto
            <7>2. result <= mid - 1 /\ \A i \in Nat : result < i /\ i <= mid - 1 => ~Bit(ws, i)
              BY <4>1, <6>6, <6>7, <6>8, <7>1
            <7> QED BY <6>11, <7>1, <7>2 DEF LastUpto
          <6> QED BY <6>10, <6>11
        <5> QED BY <5>1, <5>2
      <4>5. LastUpto(ws, w * Width - 1, result)
        BY <4>4
      <4> HIDE DEF masked, w, r, ws, prev, result
      <4> QED BY <2>1, <2>2, <3>3, <4>5
    <3> QED BY <3>1, <3>2, <3>3
  <2> HIDE DEF ws, result
  <2>4. CASE result = None
    <3>1. \A i \in Nat : i <= idx => ~Bit(ws, i)
      BY <2>3, <2>4 DEF LastUpto
    <3>2. \A i \in Nat : i <= idx0 => ~Bit(ws, i)
      BY <2>1, <3>1
    <3> QED BY <2>4, <3>2 DEF LastUpto
  <2>5. CASE result # None
    <3>1. result \in Nat /\ result <= idx /\ Bit(ws, result)
          /\ \A i \in Nat : result < i /\ i <= idx => ~Bit(ws, i)
      BY <2>3, <2>5 DEF LastUpto
    <3>2. result <= idx0 /\ \A i \in Nat : result < i /\ i <= idx0 => ~Bit(ws, i)
      BY <2>1, <3>1
    <3> QED BY <2>5, <3>1, <3>2 DEF LastUpto
  <2> QED BY <2>4, <2>5
<1> QED BY <1>4, <1>5

-----------------------------------------------------------------------------
(* The ladder *)

Bitmap == [words |-> words, summary |-> summary]

\* Bit i is that of the level at baseTick + i, and levels are within the array.
BitsAreLevels(seq, base, count, ticks) ==
  /\ base \in Nat /\ count \in Nat
  /\ \A i \in Nat : Bit(seq, i) <=> base + i \in ticks
  /\ \A t \in ticks : base <= t /\ t < base + count

LadderInv ==
  /\ occupied \subseteq Ticks
  /\ TiersAgree(Bitmap)
  /\ BitsAreLevels(words, baseTick, levelCount, occupied)

LEMMA LadderStart == LadderInit => LadderInv
<1> SUFFICES ASSUME LadderInit PROVE LadderInv
  OBVIOUS
<1>1. TiersAgree(Bitmap) /\ \A i \in Nat : ~Bit(words, i)
  BY EmptyTiers DEF LadderInit, Bitmap
<1> QED BY <1>1 DEF LadderInit, LadderInv, BitsAreLevels

\* ensure keeps every bit with its level and brings the tick within the array.
LEMMA EnsureIs ==
  ASSUME LadderInv, NEW tick \in Ticks
  PROVE  LET l == ensure(tick) IN
         /\ TiersAgree(l.bm) /\ BitsAreLevels(l.bm.words, l.base, l.count, occupied)
         /\ l.base <= tick /\ tick < l.base + l.count
<1> DEFINE bm == Bitmap
<1>1. /\ tick \in Nat /\ baseTick \in Nat /\ levelCount \in Nat /\ TiersAgree(bm)
      /\ \A t \in occupied : t \in Nat /\ baseTick <= t /\ t < baseTick + levelCount
      /\ bm.words = words
  BY LadderAssumption DEF LadderInv, BitsAreLevels, Ticks, Bitmap
<1>2. \A i \in Nat : Bit(words, i) <=> baseTick + i \in occupied
  BY DEF LadderInv, BitsAreLevels
<1>3. ASSUME NEW count \in Nat
      PROVE  TiersAgree(ensure_len(bm, count))
             /\ \A i \in Nat : Bit(ensure_len(bm, count).words, i) <=> Bit(words, i)
  <2> HIDE DEF bm
  <2> QED BY <1>1, EnsureLen
<1>4. CASE levelCount = 0
  <2>1. ensure(tick) = [base |-> tick, count |-> 1, bm |-> ensure_len(bm, 1)]
    BY <1>4 DEF ensure, Bitmap
  <2>2. occupied = {}
    BY <1>1, <1>4
  <2>3. TiersAgree(ensure_len(bm, 1)) /\ \A i \in Nat : ~Bit(ensure_len(bm, 1).words, i)
    BY <1>2, <1>3, <2>2
  <2> HIDE DEF bm
  <2> QED BY <1>1, <2>1, <2>2, <2>3 DEF BitsAreLevels
<1>5. CASE levelCount > 0 /\ tick < baseTick
  <2> DEFINE shift == baseTick - tick
             raised == shift_up(bm, shift, levelCount + shift)
  <2>1. ensure(tick) = [base |-> tick, count |-> levelCount + shift, bm |-> raised]
    BY <1>1, <1>5 DEF ensure, Bitmap
  <2>2. shift \in Nat /\ levelCount + shift \in Nat /\ tick + shift = baseTick
    BY <1>1, <1>5
  <2>3. TiersAgree(raised) /\ \A i \in Nat : Bit(raised.words, i) <=> i >= shift /\ Bit(words, i - shift)
    <3> HIDE DEF bm, shift
    <3> QED BY <1>1, <2>2, ShiftUp
  <2> HIDE DEF raised, shift, bm
  <2>4. \A i \in Nat : Bit(raised.words, i) <=> tick + i \in occupied
    <3> TAKE i \in Nat
    <3>1. CASE i >= shift
      <4>1. i - shift \in Nat /\ baseTick + (i - shift) = tick + i
        BY <1>1, <2>2, <3>1
      <4>2. Bit(words, i - shift) <=> baseTick + (i - shift) \in occupied
        BY <1>2, <4>1
      <4> QED BY <2>3, <3>1, <4>1, <4>2
    <3>2. CASE ~(i >= shift)
      <4>1. tick + i < baseTick /\ ~(baseTick <= tick + i)
        BY <1>1, <2>2, <3>2
      <4>2. tick + i \notin occupied
        BY <1>1, <4>1
      <4> QED BY <2>3, <3>2, <4>2
    <3> QED BY <3>1, <3>2
  <2>5. \A t \in occupied : tick <= t /\ t < tick + (levelCount + shift)
    BY <1>1, <1>5, <2>2
  <2>6. tick <= tick /\ tick < tick + (levelCount + shift)
    BY <1>1, <1>5, <2>2
  <2> QED BY <1>1, <2>1, <2>2, <2>3, <2>4, <2>5, <2>6 DEF BitsAreLevels
<1>6. CASE levelCount > 0 /\ tick >= baseTick /\ tick - baseTick >= levelCount
  <2> DEFINE count == tick - baseTick + 1
             long == ensure_len(bm, count)
  <2>1. ensure(tick) = [base |-> baseTick, count |-> count, bm |-> long]
    <3>1. ~(levelCount = 0) /\ ~(tick < baseTick)
      BY <1>1, <1>6
    <3> QED BY <1>6, <3>1 DEF ensure, Bitmap
  <2>2. count \in Nat /\ count >= levelCount /\ tick < baseTick + count
    BY <1>1, <1>6
  <2> HIDE DEF count
  <2>3. TiersAgree(long) /\ \A i \in Nat : Bit(long.words, i) <=> baseTick + i \in occupied
    BY <1>2, <1>3, <2>2
  <2> HIDE DEF long, bm
  <2>4. \A t \in occupied : baseTick <= t /\ t < baseTick + count
    BY <1>1, <2>2
  <2> QED BY <1>1, <1>6, <2>1, <2>2, <2>3, <2>4 DEF BitsAreLevels
<1>7. CASE levelCount > 0 /\ tick >= baseTick /\ ~(tick - baseTick >= levelCount)
  <2>1. ensure(tick) = [base |-> baseTick, count |-> levelCount, bm |-> bm]
    <3>1. ~(levelCount = 0) /\ ~(tick < baseTick)
      BY <1>1, <1>7
    <3> QED BY <1>7, <3>1 DEF ensure, Bitmap
  <2>2. tick < baseTick + levelCount
    BY <1>1, <1>7
  <2> HIDE DEF bm
  <2> QED BY <1>1, <1>2, <1>7, <2>1, <2>2 DEF BitsAreLevels
<1>8. levelCount = 0 \/ levelCount > 0
  BY <1>1
<1>9. tick < baseTick \/ tick >= baseTick
  BY <1>1
<1> QED BY <1>4, <1>5, <1>6, <1>7, <1>8, <1>9

LEMMA LadderStep == LadderInv /\ [LadderNext]_ladderVars => LadderInv'
<1> SUFFICES ASSUME LadderInv, [LadderNext]_ladderVars PROVE LadderInv'
  OBVIOUS
<1>1. CASE UNCHANGED ladderVars
  <2>1. baseTick' = baseTick /\ levelCount' = levelCount /\ words' = words /\ summary' = summary
        /\ occupied' = occupied
    BY <1>1 DEF ladderVars
  <2>2. Bitmap' = Bitmap
    BY <2>1 DEF Bitmap
  <2> QED BY <2>1, <2>2 DEF LadderInv
\* A pair of tiers that agree is what the two variables hold of it.
<1>2. ASSUME NEW bm, TiersAgree(bm), words' = bm.words, summary' = bm.summary PROVE TiersAgree(Bitmap')
  <2>1. bm = [words |-> bm.words, summary |-> bm.summary]
    BY <1>2 DEF TiersAgree, Tiers
  <2>2. Bitmap' = bm
    BY <1>2, <2>1 DEF Bitmap
  <2> QED BY <1>2, <2>2
<1>3. ASSUME NEW tick \in Ticks, Occupy(tick) PROVE LadderInv'
  <2> DEFINE l == ensure(tick)
             idx == tick - l.base
             bm == set(l.bm, idx)
  <2>1. baseTick' = l.base /\ levelCount' = l.count /\ words' = bm.words /\ summary' = bm.summary
        /\ occupied' = occupied \cup {tick}
    BY <1>3 DEF Occupy
  <2>2. TiersAgree(l.bm) /\ BitsAreLevels(l.bm.words, l.base, l.count, occupied)
        /\ l.base <= tick /\ tick < l.base + l.count
    BY EnsureIs
  <2> HIDE DEF l
  <2>3. tick \in Nat /\ l.base \in Nat /\ l.count \in Nat /\ idx \in Nat /\ l.base + idx = tick
    <3>1. tick \in Nat /\ l.base \in Nat /\ l.count \in Nat
      BY <2>2, LadderAssumption DEF Ticks, BitsAreLevels
    <3> QED BY <2>2, <3>1
  <2> HIDE DEF idx
  <2>4. TiersAgree(bm) /\ \A i \in Nat : Bit(bm.words, i) <=> Bit(l.bm.words, i) \/ i = idx
    BY <2>2, <2>3, SetBit
  <2> HIDE DEF bm
  <2>5. \A i \in Nat : Bit(bm.words, i) <=> l.base + i \in occupied \cup {tick}
    <3> TAKE i \in Nat
    <3>1. l.base + i = tick <=> i = idx
      BY <2>3
    <3>2. Bit(l.bm.words, i) <=> l.base + i \in occupied
      BY <2>2 DEF BitsAreLevels
    <3> QED BY <2>4, <3>1, <3>2
  <2>6. BitsAreLevels(words', baseTick', levelCount', occupied')
    BY <2>1, <2>2, <2>3, <2>5 DEF BitsAreLevels
  <2>7. TiersAgree(Bitmap')
    BY <1>2, <2>1, <2>4
  <2>8. occupied' \subseteq Ticks
    BY <2>1 DEF LadderInv
  <2> QED BY <2>6, <2>7, <2>8 DEF LadderInv
<1>4. ASSUME NEW tick \in Ticks, Vacate(tick) PROVE LadderInv'
  <2> DEFINE idx == tick - baseTick
             bm == clear(Bitmap, idx)
  <2>1. tick \in occupied /\ tick \in Nat /\ baseTick \in Nat /\ levelCount \in Nat
        /\ baseTick <= tick /\ tick < baseTick + levelCount
    BY <1>4, LadderAssumption DEF Vacate, LadderInv, BitsAreLevels, Ticks
  <2>2. idx \in Nat /\ baseTick + idx = tick /\ index_of(tick) = idx
    <3>1. ~(levelCount = 0 \/ tick < baseTick \/ tick - baseTick >= levelCount)
      BY <2>1
    <3> QED BY <2>1, <3>1 DEF index_of
  <2>3. words' = bm.words /\ summary' = bm.summary /\ occupied' = occupied \ {tick}
        /\ baseTick' = baseTick /\ levelCount' = levelCount
    BY <1>4, <2>2 DEF Vacate, Bitmap
  <2> HIDE DEF idx
  <2>4. TiersAgree(bm) /\ \A i \in Nat : Bit(bm.words, i) <=> Bit(words, i) /\ i # idx
    <3>1. Bitmap.words = words /\ TiersAgree(Bitmap)
      BY DEF Bitmap, LadderInv
    <3> QED BY <2>2, <3>1, ClearBit
  <2> HIDE DEF bm
  <2>5. \A i \in Nat : Bit(bm.words, i) <=> baseTick + i \in occupied \ {tick}
    <3> TAKE i \in Nat
    <3>1. baseTick + i = tick <=> i = idx
      BY <2>1, <2>2
    <3>2. Bit(words, i) <=> baseTick + i \in occupied
      BY DEF LadderInv, BitsAreLevels
    <3> QED BY <2>4, <3>1, <3>2
  <2>6. BitsAreLevels(words', baseTick', levelCount', occupied')
    BY <2>1, <2>3, <2>5 DEF BitsAreLevels, LadderInv
  <2>7. TiersAgree(Bitmap')
    BY <1>2, <2>3, <2>4
  <2>8. occupied' \subseteq Ticks
    BY <2>3 DEF LadderInv
  <2> QED BY <2>6, <2>7, <2>8 DEF LadderInv
<1> QED BY <1>1, <1>3, <1>4 DEF LadderNext

\* A greatest or a least element is the one CHOOSE picks.
LEMMA OneGreatest ==
  ASSUME NEW T, T \subseteq Int, NEW m \in T
  PROVE  /\ (\A t \in T : t <= m) => Max(T) = m
         /\ (\A t \in T : m <= t) => Min(T) = m
<1>1. ASSUME \A t \in T : t <= m PROVE Max(T) = m
  <2>1. Max(T) \in T /\ \A t \in T : t <= Max(T)
    BY <1>1 DEF Max
  <2>2. Max(T) \in Int /\ m \in Int
    BY <2>1
  <2>3. m <= Max(T) /\ Max(T) <= m
    BY <1>1, <2>1
  <2> QED BY <2>2, <2>3
<1>2. ASSUME \A t \in T : m <= t PROVE Min(T) = m
  <2>1. Min(T) \in T /\ \A t \in T : Min(T) <= t
    BY <1>2 DEF Min
  <2>2. Min(T) \in Int /\ m \in Int
    BY <2>1
  <2>3. m <= Min(T) /\ Min(T) <= m
    BY <1>2, <2>1
  <2> QED BY <2>2, <2>3
<1> QED BY <1>1, <1>2

LEMMA LadderReads == LadderInv => SummaryExact /\ BitmapExact /\ WorseLevelExact
<1> SUFFICES ASSUME LadderInv PROVE SummaryExact /\ BitmapExact /\ WorseLevelExact
  OBVIOUS
<1>1. /\ words \in Vector /\ summary \in Vector /\ TiersAgree(Bitmap) /\ Bitmap.words = words
      /\ \A v \in Nat : Bit(summary, v) <=> v < Len(words) /\ words[v + 1] # {}
  BY DEF LadderInv, TiersAgree, Tiers, Bitmap
<1>2. /\ baseTick \in Nat /\ levelCount \in Nat
      /\ \A i \in Nat : Bit(words, i) <=> baseTick + i \in occupied
      /\ \A t \in occupied : t \in Nat /\ baseTick <= t /\ t < baseTick + levelCount
  BY LadderAssumption DEF LadderInv, BitsAreLevels, Ticks
<1>3. SummaryExact
  <2> SUFFICES ASSUME NEW i \in 0..(Len(summary) * Width - 1)
               PROVE  (i % Width) \in summary[(i \div Width) + 1] <=> i < Len(words) /\ words[i + 1] # {}
    BY DEF SummaryExact, Word
  <2>1. Len(summary) * Width \in Int
    BY <1>1, WidthIs DEF Vector
  <2>2. i \in Nat /\ i < Len(summary) * Width
    BY <2>1
  <2>3. i \div Width < Len(summary)
    BY <1>1, <2>2, WordOf
  <2>4. Bit(summary, i) <=> (i % Width) \in summary[(i \div Width) + 1]
    BY <2>3 DEF Bit
  <2> QED BY <1>1, <2>2, <2>4
<1>4. BitmapExact
  <2>1. Len(words) * Width \in Int
    BY <1>1, WidthIs DEF Vector
  <2>2. \A i : i \in SetBits(Bitmap) <=> i \in Nat /\ Bit(words, i)
    <3> TAKE i
    <3>1. i \in SetBits(Bitmap) <=> i \in 0..(Len(words) * Width - 1) /\ Bit(words, i)
      BY <1>1, IsSetIs DEF SetBits
    <3>2. ASSUME i \in Nat, Bit(words, i) PROVE i < Len(words) * Width
      BY <1>1, <3>2, WordOf DEF Bit
    <3> QED BY <2>1, <3>1, <3>2
  <2>3. \A t \in occupied : t - baseTick \in Nat /\ baseTick + (t - baseTick) = t
    BY <1>2
  <2>4. {baseTick + i : i \in SetBits(Bitmap)} = occupied
    <3>1. \A i \in SetBits(Bitmap) : baseTick + i \in occupied
      BY <1>2, <2>2
    <3>2. \A t \in occupied : t - baseTick \in SetBits(Bitmap)
      BY <1>2, <2>2, <2>3
    <3> HIDE DEF LadderInv
    <3> QED BY <2>3, <3>1, <3>2
  <2>5. \A t \in occupied : index_of(t) # None
    BY <1>2 DEF index_of, None
  <2> QED BY <2>4, <2>5 DEF BitmapExact, Bitmap
<1>5. WorseLevelExact
  <2> SUFFICES ASSUME NEW i \in 0..(levelCount - 1)
               PROVE  LET below == {t \in occupied : t < baseTick + i}
                          above == {t \in occupied : t > baseTick + i}
                      IN /\ next_worse_level(Bitmap, "Long", i) =
                              IF below = {} THEN None ELSE Max(below) - baseTick
                         /\ next_worse_level(Bitmap, "Short", i) =
                              IF above = {} THEN None ELSE Min(above) - baseTick
    BY DEF WorseLevelExact, Bitmap
  <2> DEFINE below == {t \in occupied : t < baseTick + i}
             above == {t \in occupied : t > baseTick + i}
             down == prev_set_from(Bitmap, i - 1)
             up == next_set_from(Bitmap, i + 1)
  <2>1. i \in Nat
    BY <1>2
  <2>2. below \subseteq Int /\ above \subseteq Int
    BY <1>2
  <2>3. ASSUME i = 0
        PROVE  next_worse_level(Bitmap, "Long", i) = IF below = {} THEN None ELSE Max(below) - baseTick
    <3>1. next_worse_level(Bitmap, "Long", i) = None
      BY <2>3 DEF next_worse_level
    <3>2. below = {}
      BY <1>2, <2>3
    <3> QED BY <3>1, <3>2
  <2>4. ASSUME i # 0
        PROVE  next_worse_level(Bitmap, "Long", i) = IF below = {} THEN None ELSE Max(below) - baseTick
    <3>1. next_worse_level(Bitmap, "Long", i) = down
      BY <2>4 DEF next_worse_level
    <3>2. LastUpto(words, i - 1, down)
      <4>1. i - 1 \in Nat
        BY <2>1, <2>4
      <4> QED BY <1>1, <4>1, PrevIs
    <3> HIDE DEF down
    <3>3. \A t \in below : t - baseTick \in Nat /\ t - baseTick <= i - 1 /\ Bit(words, t - baseTick)
      <4> TAKE t \in below
      <4>1. t - baseTick \in Nat /\ t - baseTick <= i - 1 /\ baseTick + (t - baseTick) = t
        BY <1>2, <2>1
      <4> QED BY <1>2, <4>1
    <3>4. CASE down = None
      <4>1. below = {}
        BY <3>2, <3>3, <3>4 DEF LastUpto
      <4> QED BY <3>1, <3>4, <4>1
    <3>5. CASE down # None
      <4>1. down \in Nat /\ down <= i - 1 /\ Bit(words, down)
            /\ \A j \in Nat : down < j /\ j <= i - 1 => ~Bit(words, j)
        BY <3>2, <3>5 DEF LastUpto
      <4>2. baseTick + down \in below
        <5>1. baseTick + down < baseTick + i
          BY <1>2, <2>1, <4>1
        <5> QED BY <1>2, <4>1, <5>1
      <4>3. \A t \in below : t <= baseTick + down
        <5> TAKE t \in below
        <5>1. ~(down < t - baseTick)
          BY <3>3, <4>1
        <5>2. t \in Int
          BY <2>2
        <5> QED BY <1>2, <4>1, <5>1, <5>2
      <4> DEFINE m == baseTick + down
      <4> HIDE DEF below
      <4>4. Max(below) = m
        <5>1. m \in below /\ \A t \in below : t <= m
          BY <4>2, <4>3
        <5> HIDE DEF m
        <5> QED BY <2>2, <5>1, OneGreatest
      <4>5. m - baseTick = down
        BY <1>2, <4>1
      <4> QED BY <3>1, <4>2, <4>4, <4>5
    <3> QED BY <3>4, <3>5
  <2>5. next_worse_level(Bitmap, "Short", i) = IF above = {} THEN None ELSE Min(above) - baseTick
    <3>1. next_worse_level(Bitmap, "Short", i) = up
      BY DEF next_worse_level
    <3>2. FirstFrom(words, i + 1, up)
      <4>1. i + 1 \in Nat
        BY <2>1
      <4> QED BY <1>1, <4>1, NextIs
    <3> HIDE DEF up
    <3>3. \A t \in above : t - baseTick \in Nat /\ t - baseTick >= i + 1 /\ Bit(words, t - baseTick)
      <4> TAKE t \in above
      <4>1. t - baseTick \in Nat /\ t - baseTick >= i + 1 /\ baseTick + (t - baseTick) = t
        BY <1>2, <2>1
      <4> QED BY <1>2, <4>1
    <3>4. CASE up = None
      <4>1. above = {}
        BY <3>2, <3>3, <3>4 DEF FirstFrom
      <4> QED BY <3>1, <3>4, <4>1
    <3>5. CASE up # None
      <4>1. up \in Nat /\ up >= i + 1 /\ Bit(words, up)
            /\ \A j \in Nat : i + 1 <= j /\ j < up => ~Bit(words, j)
        BY <3>2, <3>5 DEF FirstFrom
      <4>2. baseTick + up \in above
        <5>1. baseTick + up > baseTick + i
          BY <1>2, <2>1, <4>1
        <5> QED BY <1>2, <4>1, <5>1
      <4>3. \A t \in above : baseTick + up <= t
        <5> TAKE t \in above
        <5>1. ~(t - baseTick < up)
          BY <3>3, <4>1
        <5>2. t \in Int
          BY <2>2
        <5> QED BY <1>2, <4>1, <5>1, <5>2
      <4> DEFINE m == baseTick + up
      <4> HIDE DEF above
      <4>4. Min(above) = m
        <5>1. m \in above /\ \A t \in above : m <= t
          BY <4>2, <4>3
        <5> HIDE DEF m
        <5> QED BY <2>2, <5>1, OneGreatest
      <4>5. m - baseTick = up
        BY <1>2, <4>1
      <4> QED BY <3>1, <4>2, <4>4, <4>5
    <3> QED BY <3>4, <3>5
  <2> HIDE DEF below, above
  <2>6. /\ next_worse_level(Bitmap, "Long", i) = IF below = {} THEN None ELSE Max(below) - baseTick
        /\ next_worse_level(Bitmap, "Short", i) = IF above = {} THEN None ELSE Min(above) - baseTick
    BY <2>3, <2>4, <2>5
  <2> QED BY <2>6 DEF below, above
<1> QED BY <1>3, <1>4, <1>5

\* For every width of a word and every range of ticks, after any order of
\* inserts, removals, growth at either end and re-basing (book.rs, Occupancy and
\* Ladder): the bits set are those of the levels that hold orders, the summary's
\* those of the words that are not zero, and next_worse_level finds the nearest.
THEOREM LadderAlwaysExact == MCSpec => []LadderExact
<1>1. MCInit => LadderInv
  BY LadderStart DEF MCInit
<1>2. [MCNext]_allVars => [LadderNext]_ladderVars
  BY DEF MCNext, allVars
<1>3. LadderInv /\ [LadderNext]_ladderVars => LadderInv'
  BY LadderStep
<1>4. LadderInv => LadderExact
  BY LadderReads DEF LadderExact
<1> QED BY <1>1, <1>2, <1>3, <1>4, PTL DEF MCSpec

-----------------------------------------------------------------------------
(* The bits of a number: the proofs' comparison gadget *)

\* The doubling function satisfies its own equations, and is positive.
LEMMA Pow2Is ==
  /\ Pow2[0] = 1
  /\ \A n \in 0..FieldBits : Pow2[n] \in Nat \ {0}
  /\ \A n \in 1..FieldBits : Pow2[n] = 2 * Pow2[n - 1]
<1> DEFINE V == Nat \ {0}
           Body(f, n) == IF n = 0 THEN 1 ELSE 2 * f[n - 1]
           IsPow(f) == f = [n \in 0..FieldBits |-> Body(f, n)]
           step == [p \in V \X (1..FieldBits) |-> 2 * p[1]]
<1>1. FieldBits \in Nat
  BY ProofAssumption
<1>2. \E f : IsPow(f)
  <2>1. step \in StepsOf(V, FieldBits) /\ 1 \in V
    BY DEF StepsOf
  <2>2. PICK f : RunOf(f, V, FieldBits, 1, step)
    <3> HIDE DEF step, V
    <3> QED BY <1>1, <2>1, RunExists
  <2>3. f \in [0..FieldBits -> V] /\ f[0] = 1
    BY <2>2 DEF RunOf
  <2>4. \A n \in 1..FieldBits : f[n] = 2 * f[n - 1]
    <3> TAKE n \in 1..FieldBits
    <3>1. n - 1 \in 0..FieldBits /\ f[n] = step[<<f[n - 1], n>>]
      <4> HIDE DEF step
      <4> QED BY <1>1, <2>2 DEF RunOf
    <3>2. f[n - 1] \in V
      BY <2>3, <3>1
    <3> QED BY <3>1, <3>2
  <2>5. \A n \in 0..FieldBits : f[n] = Body(f, n)
    BY <2>3, <2>4
  <2>6. f = [n \in 0..FieldBits |-> f[n]]
    BY <2>3
  <2>7. IsPow(f)
    BY <2>5, <2>6
  <2> QED BY <2>7
<1> DEFINE it == CHOOSE f : IsPow(f)
<1>3. it = [n \in 0..FieldBits |-> Body(it, n)]
  BY <1>2
<1>4. Pow2 = it
  BY Zenon DEF Pow2
<1> HIDE DEF it
<1>5. Pow2[0] = 1
  BY <1>1, <1>3, <1>4
<1>6. \A n \in 1..FieldBits : Pow2[n] = 2 * Pow2[n - 1]
  BY <1>1, <1>3, <1>4
<1> DEFINE G == {n \in Nat : n <= FieldBits => Pow2[n] \in V}
<1>7. 0 \in G
  BY <1>5
<1>8. \A n \in Nat : n \in G => n + 1 \in G
  <2> SUFFICES ASSUME NEW n \in Nat, n + 1 <= FieldBits, Pow2[n] \in V PROVE Pow2[n + 1] \in V
    BY <1>1
  <2>1. n + 1 \in 1..FieldBits /\ n + 1 - 1 = n
    BY <1>1
  <2>2. Pow2[n + 1] = 2 * Pow2[n]
    BY <1>6, <2>1
  <2> QED BY <2>2
<1> HIDE DEF G
<1>9. Nat \subseteq G
  BY <1>7, <1>8, Induction
<1> QED BY <1>1, <1>5, <1>6, <1>9 DEF G

\* Halving a quotient is dividing by twice as much.
LEMMA HalfQuotient ==
  ASSUME NEW a \in Nat, NEW p \in Nat \ {0}
  PROVE  /\ a \div p \in Nat /\ a \div (2 * p) \in Nat /\ (a \div p) % 2 \in {0, 1}
         /\ a \div p = 2 * (a \div (2 * p)) + ((a \div p) % 2)
<1> DEFINE q == a \div p
           h == a \div (2 * p)
           b == q % 2
           c == q \div 2
<1>1. q \in Nat /\ q * p <= a /\ a < q * p + p
  OBVIOUS
<1>2. h \in Nat /\ h * (2 * p) <= a /\ a < h * (2 * p) + 2 * p
  <2> DEFINE d == 2 * p
  <2>1. d \in Nat \ {0}
    OBVIOUS
  <2> HIDE DEF h, d
  <2>2. a \div d \in Nat /\ (a \div d) * d <= a /\ a < (a \div d) * d + d
    BY <2>1
  <2> QED BY <2>2 DEF h, d
<1> HIDE DEF q, h
<1>3. b \in {0, 1} /\ c \in Nat /\ q = 2 * c + b
  BY <1>1
<1> HIDE DEF b, c
<1> DEFINE u == c * p
           v == h * p
<1>4. u \in Nat /\ v \in Nat
  BY <1>1, <1>2, <1>3
<1>5. q * p = 2 * u + b * p
  BY <1>3
<1>6. h * (2 * p) = 2 * v
  BY <1>2
<1>7. b * p >= 0 /\ b * p <= p /\ b * p \in Int
  BY <1>3
<1>8. ~(c + 1 <= h)
  <2> SUFFICES ASSUME c + 1 <= h PROVE FALSE
    OBVIOUS
  <2>1. (c + 1) * p <= h * p /\ (c + 1) * p = u + p
    BY <1>2, <1>3
  <2>2. u + p <= v
    BY <2>1
  <2> HIDE DEF u, v
  <2> DEFINE w == b * p
  <2>3. w \in Int /\ w <= p /\ 2 * v <= a /\ a < 2 * u + w + p
    BY <1>1, <1>2, <1>5, <1>6, <1>7
  <2> HIDE DEF w
  <2> QED BY <2>2, <2>3, <1>4
<1>9. ~(h + 1 <= c)
  <2> SUFFICES ASSUME h + 1 <= c PROVE FALSE
    OBVIOUS
  <2>1. (h + 1) * p <= c * p /\ (h + 1) * p = v + p
    BY <1>2, <1>3
  <2>2. v + p <= u
    BY <2>1
  <2> HIDE DEF u, v
  <2> DEFINE w == b * p
  <2>3. w \in Int /\ w >= 0 /\ 2 * u + w <= a /\ a < 2 * v + 2 * p
    BY <1>1, <1>2, <1>5, <1>6, <1>7
  <2> HIDE DEF w
  <2> QED BY <2>2, <2>3, <1>4
<1>10. h = c
  BY <1>2, <1>3, <1>8, <1>9
<1> QED BY <1>1, <1>2, <1>3, <1>10 DEF q, h, b, c

\* Reading a number from its most significant bit: nothing, then each quotient
\* twice the one before and the next bit, at the end the number itself.
Read(a, i) == a \div Pow2[FieldBits - i]

LEMMA BitsRead ==
  ASSUME NEW a \in 0..(FieldModulus - 1)
  PROVE  /\ Read(a, 0) = 0 /\ Read(a, FieldBits) = a
         /\ \A i \in 0..FieldBits : Read(a, i) \in Nat
         /\ \A i \in 1..FieldBits : /\ to_bits_be(a)[i] \in {0, 1}
                                    /\ Read(a, i) = 2 * Read(a, i - 1) + to_bits_be(a)[i]
<1>1. FieldBits \in Nat /\ FieldModulus \in Nat /\ FieldModulus <= Pow2[FieldBits]
  BY ProofAssumption
<1>2. a \in Nat /\ a < Pow2[FieldBits]
  <2>1. Pow2[FieldBits] \in Nat
    BY <1>1, Pow2Is
  <2> QED BY <1>1, <2>1
<1>3. Read(a, 0) = 0
  <2> DEFINE p == Pow2[FieldBits]
  <2>1. p \in Nat \ {0} /\ a < p
    BY <1>1, <1>2, Pow2Is
  <2> HIDE DEF p
  <2>2. a \div p = 0
    BY <1>2, <2>1
  <2>3. FieldBits - 0 = FieldBits
    BY <1>1
  <2> QED BY <2>2, <2>3 DEF Read, p
<1>4. Read(a, FieldBits) = a
  <2>1. FieldBits - FieldBits = 0 /\ a \div 1 = a
    BY <1>1, <1>2
  <2> QED BY <2>1, Pow2Is DEF Read
<1>5. \A i \in 0..FieldBits : Read(a, i) \in Nat
  <2> TAKE i \in 0..FieldBits
  <2>1. FieldBits - i \in 0..FieldBits
    BY <1>1
  <2>2. Pow2[FieldBits - i] \in Nat \ {0}
    BY <2>1, Pow2Is
  <2> QED BY <1>2, <2>2, HalfQuotient DEF Read
<1>6. \A i \in 1..FieldBits : /\ to_bits_be(a)[i] \in {0, 1}
                              /\ Read(a, i) = 2 * Read(a, i - 1) + to_bits_be(a)[i]
  <2> TAKE i \in 1..FieldBits
  <2> DEFINE p == Pow2[FieldBits - i]
  <2>1. FieldBits - i \in 0..FieldBits /\ FieldBits - (i - 1) \in 1..FieldBits
        /\ FieldBits - (i - 1) - 1 = FieldBits - i
    BY <1>1
  <2>2. p \in Nat \ {0} /\ Pow2[FieldBits - (i - 1)] = 2 * p
    BY <2>1, Pow2Is
  <2>3. to_bits_be(a)[i] = (a \div p) % 2
    BY DEF to_bits_be
  <2>4. Read(a, i) = a \div p /\ Read(a, i - 1) = a \div (2 * p)
    BY <2>2 DEF Read
  <2> HIDE DEF p
  <2>5. /\ (a \div p) % 2 \in {0, 1}
        /\ a \div p = 2 * (a \div (2 * p)) + ((a \div p) % 2)
    BY <1>2, <2>2, HalfQuotient
  <2> QED BY <2>3, <2>4, <2>5
<1> QED BY <1>3, <1>4, <1>5, <1>6

\* The turn of le's loop for bit i.
LeTurn(x, y, acc, i) ==
  [greater    |-> acc.greater \/ (acc.still_tied /\ x[i] = 1 /\ y[i] = 0),
   still_tied |-> acc.still_tied /\ x[i] = y[i]]

Untold == [greater |-> FALSE, still_tied |-> TRUE]

Verdicts == [greater : BOOLEAN, still_tied : BOOLEAN]

Turned(v, acc, xi, yi) ==
  /\ v.greater <=> acc.greater \/ (acc.still_tied /\ xi = 1 /\ yi = 0)
  /\ v.still_tied <=> acc.still_tied /\ xi = yi

\* A turn finds a greater number at the first bit where it is 1 and the other 0.
LEMMA LeTurnIs ==
  ASSUME NEW x, NEW y, NEW acc \in Verdicts, NEW i
  PROVE  LeTurn(x, y, acc, i) \in Verdicts /\ Turned(LeTurn(x, y, acc, i), acc, x[i], y[i])
<1>1. \A p, q : [greater |-> p, still_tied |-> q].greater = p /\ [greater |-> p, still_tied |-> q].still_tied = q
  OBVIOUS
<1> DEFINE r == LeTurn(x, y, acc, i).greater
           t == LeTurn(x, y, acc, i).still_tied
<1>2. r = (acc.greater \/ (acc.still_tied /\ x[i] = 1 /\ y[i] = 0))
  BY <1>1, Zenon DEF LeTurn
<1>3. t = (acc.still_tied /\ x[i] = y[i])
  BY <1>1, Zenon DEF LeTurn
<1>4. LeTurn(x, y, acc, i) \in Verdicts
  BY DEF LeTurn, Verdicts
<1>5. r \in BOOLEAN /\ t \in BOOLEAN
  <2> HIDE DEF r, t
  <2>1. \A v \in Verdicts : v.greater \in BOOLEAN /\ v.still_tied \in BOOLEAN
    BY DEF Verdicts
  <2> QED BY <1>4, <2>1 DEF r, t
<1> HIDE DEF r, t
<1>6. r <=> acc.greater \/ (acc.still_tied /\ x[i] = 1 /\ y[i] = 0)
  BY <1>2, <1>5
<1>7. t <=> acc.still_tied /\ x[i] = y[i]
  BY <1>3, <1>5
<1> QED BY <1>4, <1>6, <1>7 DEF r, t, Turned

LeFold(x, y, g) ==
  g = [s \in SUBSET DOMAIN [i \in 1..FieldBits |-> i] |->
         IF s = {} THEN Untold
         ELSE LeTurn(x, y, g[s \ {Max(s)}], [i \in 1..FieldBits |-> i][Max(s)])]

\* The loop of le as a run over the bits.
LEMMA LeRuns ==
  ASSUME NEW a, NEW b
  PROVE  \E run : /\ run \in [0..FieldBits -> Verdicts]
                  /\ run[0] = Untold
                  /\ \A n \in 1..FieldBits : run[n] = LeTurn(to_bits_be(a), to_bits_be(b), run[n - 1], n)
                  /\ le(a, b) <=> ~ run[FieldBits].greater
<1> DEFINE x == to_bits_be(a)
           y == to_bits_be(b)
           N == FieldBits
           V == Verdicts
           D == DOMAIN [i \in 1..N |-> i]
           step == [p \in V \X (1..N) |-> LeTurn(x, y, p[1], p[2])]
           it == CHOOSE g : LeFold(x, y, g)
<1>1. N \in Nat
  BY ProofAssumption
<1>2. le(a, b) = ~ it[D].greater
  BY Zenon DEF le, FoldLeft, MapThenFoldSet, LeTurn, LeFold, Untold
<1>3. D = 1..N /\ \A i \in 1..N : [j \in 1..N |-> j][i] = i
  OBVIOUS
<1> HIDE DEF x, y, D
<1>4. step \in StepsOf(V, N) /\ Untold \in V
  BY DEF StepsOf, LeTurn, Untold, Verdicts
<1> HIDE DEF V, step
<1>5. PICK g : FoldsUp(g, V, N, Untold, step)
  BY <1>1, <1>4, FoldExists
<1>6. \A s \in SUBSET (1..N) : s # {} => /\ Max(s) \in 1..N /\ s \ {Max(s)} \in SUBSET (1..N)
  <2> TAKE s \in SUBSET (1..N)
  <2> HAVE s # {}
  <2>1. Max(s) \in s
    BY <1>1, MaxOf
  <2> QED BY <2>1
<1>7. \E h : LeFold(x, y, h)
  <2>1. \A s \in SUBSET (1..N) : s # {} => step[<<g[s \ {Max(s)}], Max(s)>>] = LeTurn(x, y, g[s \ {Max(s)}], Max(s))
    <3> TAKE s \in SUBSET (1..N)
    <3> HAVE s # {}
    <3>1. Max(s) \in 1..N /\ g[s \ {Max(s)}] \in V
      BY <1>5, <1>6 DEF FoldsUp
    <3> QED BY <3>1 DEF step
  <2>2. g = [s \in SUBSET (1..N) |-> g[s]]
    BY <1>5 DEF FoldsUp
  <2>3. \A s \in SUBSET (1..N) : g[s] = IF s = {} THEN Untold ELSE LeTurn(x, y, g[s \ {Max(s)}], [j \in 1..N |-> j][Max(s)])
    <3> TAKE s \in SUBSET (1..N)
    <3>1. g[s] = IF s = {} THEN Untold ELSE step[<<g[s \ {Max(s)}], Max(s)>>]
      BY <1>5 DEF FoldsUp
    <3>2. CASE s = {}
      BY <3>1, <3>2
    <3>3. CASE s # {}
      <4>1. Max(s) \in 1..N
        BY <1>6, <3>3
      <4>2. [j \in 1..N |-> j][Max(s)] = Max(s)
        BY <1>3, <4>1
      <4> QED BY <2>1, <3>1, <3>3, <4>2
    <3> QED BY <3>2, <3>3
  <2> DEFINE id == [j \in 1..N |-> j]
  <2> HIDE DEF id
  <2>4. g = [s \in SUBSET D |-> IF s = {} THEN Untold ELSE LeTurn(x, y, g[s \ {Max(s)}], id[Max(s)])]
    BY <1>3, <2>2, <2>3 DEF id
  <2>5. LeFold(x, y, g)
    BY <2>4 DEF LeFold, id, D
  <2> QED BY <2>5
<1>8. LeFold(x, y, it)
  BY <1>7
<1> HIDE DEF it
<1>9. \A s \in SUBSET (1..N) : it[s] = IF s = {} THEN Untold ELSE LeTurn(x, y, it[s \ {Max(s)}], Max(s))
  BY <1>3, <1>6, <1>8 DEF LeFold, D
<1>10. \A n \in 1..N : 1..n \in SUBSET (1..N) /\ 1..n # {} /\ Max(1..n) = n /\ (1..n) \ {n} = 1..(n - 1)
  BY <1>1, MaxUpTo
<1>11. \A n \in 1..N : it[1..n] = LeTurn(x, y, it[1..(n - 1)], n)
  BY <1>9, <1>10
<1>12. it[1..0] = Untold
  <2>1. 1..0 = {} /\ {} \in SUBSET (1..N)
    OBVIOUS
  <2> QED BY <1>9, <2>1
<1> DEFINE run == [n \in 0..N |-> it[1..n]]
           G == {n \in Nat : n <= N => it[1..n] \in V}
<1>13. 0 \in G
  BY <1>4, <1>12
<1>14. \A n \in Nat : n \in G => n + 1 \in G
  <2> SUFFICES ASSUME NEW n \in Nat, n + 1 <= N, it[1..n] \in V PROVE it[1..(n + 1)] \in V
    BY <1>1
  <2>1. n + 1 \in 1..N /\ n + 1 - 1 = n
    BY <1>1
  <2>2. it[1..(n + 1)] = LeTurn(x, y, it[1..n], n + 1)
    BY <1>11, <2>1
  <2> QED BY <2>2 DEF LeTurn, V, Verdicts
<1> HIDE DEF G
<1>15. Nat \subseteq G
  BY <1>13, <1>14, Induction
<1>16. \A n \in 0..N : it[1..n] \in V
  BY <1>1, <1>15 DEF G
<1>17. run \in [0..N -> V] /\ run[0] = Untold
  BY <1>1, <1>12, <1>16
<1>18. \A n \in 1..N : run[n] = LeTurn(x, y, run[n - 1], n)
  BY <1>1, <1>11
<1>19. le(a, b) <=> ~ run[N].greater
  <2>1. N \in 0..N
    BY <1>1
  <2> QED BY <1>2, <1>3, <2>1
<1> HIDE DEF run, N
<1> QED BY <1>17, <1>18, <1>19 DEF N, V, x, y

\* The comparison gadget `le` (match_correctness.rs), a loop over bits in a field
\* without an order, decides as numbers do, whatever the length of the field: after
\* any number of bits, the ones read are tied or greater as the numbers they make.
THEOREM LeDecides ==
  ASSUME NEW a \in 0..(FieldModulus - 1), NEW b \in 0..(FieldModulus - 1)
  PROVE  le(a, b) <=> a <= b
<1> DEFINE N == FieldBits
<1>0. N \in Nat /\ FieldModulus \in Nat
  BY ProofAssumption
<1>1. PICK run : /\ run \in [0..N -> Verdicts] /\ run[0] = Untold
                 /\ \A n \in 1..N : run[n] = LeTurn(to_bits_be(a), to_bits_be(b), run[n - 1], n)
                 /\ le(a, b) <=> ~ run[N].greater
  BY LeRuns
<1> DEFINE Told(n) == /\ run[n].still_tied <=> Read(a, n) = Read(b, n)
                      /\ run[n].greater <=> Read(a, n) > Read(b, n)
           G == {n \in Nat : n <= N => Told(n)}
<1>2. 0 \in G
  BY <1>1, BitsRead DEF Untold
<1>3. \A n \in Nat : n \in G => n + 1 \in G
  <2> SUFFICES ASSUME NEW n \in Nat, n + 1 <= N, Told(n) PROVE Told(n + 1)
    BY <1>0
  <2> DEFINE m == n + 1
             xa == to_bits_be(a)[m]
             xb == to_bits_be(b)[m]
  <2>1. m \in 1..N /\ m - 1 = n /\ n \in 0..N
    BY <1>0
  <2>2. run[m] = LeTurn(to_bits_be(a), to_bits_be(b), run[n], m)
    BY <1>1, <2>1
  <2>3. xa \in {0, 1} /\ xb \in {0, 1} /\ Read(a, m) = 2 * Read(a, n) + xa /\ Read(b, m) = 2 * Read(b, n) + xb
        /\ Read(a, n) \in Nat /\ Read(b, n) \in Nat
    BY <2>1, BitsRead
  <2>4. run[n] \in Verdicts
    BY <1>1, <2>1
  <2>5. /\ run[m].greater <=> run[n].greater \/ (run[n].still_tied /\ xa = 1 /\ xb = 0)
        /\ run[m].still_tied <=> run[n].still_tied /\ xa = xb
    <3> DEFINE v == LeTurn(to_bits_be(a), to_bits_be(b), run[n], m)
    <3>1. Turned(v, run[n], xa, xb)
      BY <2>4, LeTurnIs, Zenon DEF xa, xb
    <3> HIDE DEF v, xa, xb
    <3>2. run[m] = v
      BY <2>2 DEF v
    <3> QED BY <3>1, <3>2 DEF Turned
  <2> HIDE DEF xa, xb, m
  <2>6. Told(m)
    BY <2>3, <2>4, <2>5
  <2> QED BY <2>6 DEF m
<1> HIDE DEF G
<1>4. Nat \subseteq G
  BY <1>2, <1>3, Induction
<1>5. Told(N)
  BY <1>0, <1>4 DEF G
<1>6. Read(a, N) = a /\ Read(b, N) = b
  BY BitsRead
<1> QED BY <1>0, <1>1, <1>5, <1>6

LEMMA FieldSizes == FieldModulus \in Nat \ {0} /\ BIAS \in Nat /\ 2 * BIAS < FieldModulus /\ SHIFT \in Nat
BY ProofAssumption

\* Reducing a number that the modulus divides off changes nothing.
LEMMA Reduced ==
  ASSUME NEW x \in Int
  PROVE  /\ x \div FieldModulus \in Int /\ Field(x) \in 0..(FieldModulus - 1)
         /\ x = (x \div FieldModulus) * FieldModulus + Field(x)
<1> DEFINE M == FieldModulus
           q == x \div M
<1>1. M \in Nat \ {0}
  BY FieldSizes
<1> HIDE DEF M
<1>2. q \in Int /\ x % M \in 0..(M - 1) /\ x = M * q + (x % M)
  BY <1>1
<1>3. M * q = q * M
  BY <1>1, <1>2
<1> HIDE DEF q
<1> QED BY <1>2, <1>3 DEF q, Field, M

\* Reduction names the one element that differs by a multiple of the modulus.
LEMMA FieldIs ==
  ASSUME NEW x \in Int, NEW y \in 0..(FieldModulus - 1), NEW k \in Int, x = y + k * FieldModulus
  PROVE  Field(x) = y
<1> DEFINE M == FieldModulus
           q == x \div M
           r == Field(x)
<1>1. M \in Nat \ {0}
  BY FieldSizes
<1>2. q \in Int /\ r \in 0..(M - 1) /\ x = q * M + r
  BY Reduced
<1> HIDE DEF q, r, M
<1>4. y \in 0..(M - 1) /\ x = y + k * M
  BY DEF M
<1>5. ~(q + 1 <= k)
  <2> SUFFICES ASSUME q + 1 <= k PROVE FALSE
    OBVIOUS
  <2>1. (q + 1) * M <= k * M /\ (q + 1) * M = q * M + M
    BY <1>1, <1>2
  <2> DEFINE u == q * M
             v == k * M
  <2>2. u \in Int /\ v \in Int /\ u + M <= v
    BY <1>1, <1>2, <2>1
  <2>3. x = u + r /\ x = y + v
    BY <1>2, <1>4
  <2> HIDE DEF u, v
  <2> QED BY <1>1, <1>2, <1>4, <2>2, <2>3
<1>6. ~(k + 1 <= q)
  <2> SUFFICES ASSUME k + 1 <= q PROVE FALSE
    OBVIOUS
  <2>1. (k + 1) * M <= q * M /\ (k + 1) * M = k * M + M
    BY <1>1, <1>2
  <2> DEFINE u == q * M
             v == k * M
  <2>2. u \in Int /\ v \in Int /\ v + M <= u
    BY <1>1, <1>2, <2>1
  <2>3. x = u + r /\ x = y + v
    BY <1>2, <1>4
  <2> HIDE DEF u, v
  <2> QED BY <1>1, <1>2, <1>4, <2>2, <2>3
<1>7. q = k
  BY <1>2, <1>5, <1>6
<1>8. r = y
  <2> DEFINE u == q * M
  <2>1. u \in Int /\ x = u + r /\ x = y + u
    BY <1>1, <1>2, <1>4, <1>7
  <2> HIDE DEF u
  <2> QED BY <2>1, <1>2, <1>4
<1> QED BY <1>8 DEF r

\* The canonical value of an integer is in the field, a multiple of the modulus away.
LEMMA FieldOf ==
  ASSUME NEW x \in Int
  PROVE  Field(x) \in 0..(FieldModulus - 1) /\ \E k \in Int : x = Field(x) + k * FieldModulus
<1> DEFINE q == x \div FieldModulus
           w == q * FieldModulus
<1>1. q \in Int /\ Field(x) \in 0..(FieldModulus - 1) /\ x = w + Field(x)
  BY Reduced
<1> HIDE DEF q
<1>3. w \in Int
  BY <1>1, FieldSizes
<1> HIDE DEF w
<1>2. x = Field(x) + w
  BY <1>1, <1>3, FieldSizes
<1> QED BY <1>1, <1>2 DEF w

\* Numbers that differ by a multiple of the modulus are one element.
LEMMA FieldShift ==
  ASSUME NEW x \in Int, NEW j \in Int
  PROVE  Field(x + j * FieldModulus) = Field(x)
<1> DEFINE M == FieldModulus
<1>1. M \in Nat \ {0}
  BY FieldSizes
<1>2. PICK k \in Int : x = Field(x) + k * M
  BY FieldOf
<1>3. Field(x) \in 0..(M - 1)
  BY FieldOf
<1> DEFINE y == Field(x)
           z == x + j * M
<1>4. y \in 0..(M - 1) /\ x = y + k * M
  BY <1>2, <1>3
<1> HIDE DEF y, M
<1>5. z = y + (k + j) * M /\ k + j \in Int /\ z \in Int
  BY <1>1, <1>4
<1> HIDE DEF z
<1>6. Field(z) = y
  BY <1>4, <1>5, FieldIs DEF M
<1> QED BY <1>6 DEF y, z, M

LEMMA FieldSmall ==
  ASSUME NEW y \in 0..(FieldModulus - 1)
  PROVE  Field(y) = y
<1>1. y \in Int /\ 0 \in Int /\ y = y + 0 * FieldModulus
  BY FieldSizes
<1> QED BY <1>1, FieldIs

\* An addend may be reduced first.
LEMMA FieldSum ==
  ASSUME NEW x \in Int, NEW y \in Int
  PROVE  Field(Field(x) + y) = Field(x + y)
<1> DEFINE M == FieldModulus
           z == Field(x)
<1>1. M \in Nat \ {0}
  BY FieldSizes
<1>2. PICK k \in Int : x = z + k * M
  BY FieldOf
<1>3. z \in Int
  BY FieldOf
<1> HIDE DEF z
<1>4. x + y = (z + y) + k * M /\ z + y \in Int
  BY <1>1, <1>2, <1>3
<1>5. Field((z + y) + k * M) = Field(z + y)
  BY <1>4, FieldShift
<1> QED BY <1>4, <1>5 DEF z

LEMMA Unbiased ==
  ASSUME NEW s \in Int
  PROVE  unbiased(to_biased(s)) = Field(s)
<1>1. BIAS \in Int /\ -BIAS \in Int /\ s + BIAS \in Int
  BY FieldSizes
<1> DEFINE z == Field(s + BIAS)
<1>2. z \in Int
  BY <1>1, FieldOf, FieldSizes
<1>3. Field(Field(s + BIAS) + (-BIAS)) = Field((s + BIAS) + (-BIAS))
  BY <1>1, FieldSum
<1>4. (s + BIAS) + (-BIAS) = s /\ z + (-BIAS) = z - BIAS
  <2> HIDE DEF z
  <2> QED BY <1>1, <1>2
<1> QED BY <1>3, <1>4 DEF unbiased, to_biased, z

\* A shift applied to the sum of two reduced sizes is the shift of the true sum.
LEMMA ShiftedValue ==
  ASSUME NEW s \in Int, NEW t \in Int, NEW c \in Int, c * (s + t) \in -BIAS..BIAS
  PROVE  LET net == Field(s) + Field(t) IN
         to_biased(c * net) = c * (s + t) + BIAS
<1> DEFINE M == FieldModulus
           a == Field(s)
           b == Field(t)
           net == a + b
           v == c * (s + t)
<1>1. M \in Nat \ {0} /\ BIAS \in Nat /\ 2 * BIAS < M
  BY FieldSizes
<1>2. PICK j \in Int : s = a + j * M
  BY FieldOf
<1>3. PICK k \in Int : t = b + k * M
  BY FieldOf
<1>4. a \in Int /\ b \in Int
  BY FieldOf, FieldSizes
<1> HIDE DEF a, b
<1>5. c * (s + t) = c * net + (c * (j + k)) * M
  <2>1. s + t = net + (j + k) * M
    BY <1>1, <1>2, <1>3, <1>4
  <2> DEFINE e == j + k
  <2>2. e \in Int /\ net \in Int
    BY <1>4
  <2> HIDE DEF e, net
  <2>3. c * (net + e * M) = c * net + (c * e) * M
    BY <1>1, <2>2
  <2>4. s + t = net + e * M
    BY <2>1 DEF e
  <2> QED BY <2>3, <2>4 DEF e
<1> DEFINE w == c * net
           i == c * (j + k)
<1>6. w \in Int /\ i \in Int /\ v \in Int
  BY <1>4
<1>7. v = w + i * M
  BY <1>5
<1>8. v \in -BIAS..BIAS
  OBVIOUS
<1> HIDE DEF w, i, v, M
<1> DEFINE x == w + BIAS
           y == v + BIAS
<1>9. y \in 0..(M - 1) /\ x \in Int /\ -i \in Int /\ x = y + (-i) * M
  BY <1>1, <1>6, <1>7, <1>8
<1> HIDE DEF x, y
<1>10. Field(x) = y
  BY <1>9, FieldIs DEF M
<1> QED BY <1>10 DEF x, y, w, v, to_biased, a, b

\* The circuit's f_S is the larger scenario loss of the signed net size.
LEMMA ScenarioTerm ==
  ASSUME NEW s \in MarginSizes, NEW t \in MarginSizes
  PROVE  LET net == s + t IN
         /\ SHIFT * (IF net < 0 THEN -net ELSE net) \in Nat
         /\ f_S(<<to_biased(s), to_biased(t)>>) = Field(SHIFT * (IF net < 0 THEN -net ELSE net))
<1> DEFINE net == s + t
           abs == IF net < 0 THEN -net ELSE net
           sum == Field(s) + Field(t)
           up == to_biased(SHIFT * sum)
           down == to_biased((-SHIFT) * sum)
           loss == SHIFT * net
<1>1. s \in Int /\ t \in Int /\ SHIFT \in Nat /\ BIAS \in Nat /\ 2 * BIAS < FieldModulus /\ FieldModulus \in Nat
  BY ProofAssumption
<1>2. SHIFT * (s + t) \in -BIAS..BIAS
  BY ProofAssumption
<1>3. loss \in -BIAS..BIAS /\ loss \in Int /\ net \in Int
  BY <1>1, <1>2
<1>4. up = loss + BIAS
  BY <1>1, <1>2, ShiftedValue
<1>5. -SHIFT \in Int /\ (-SHIFT) * (s + t) = -loss
  BY <1>1
<1>6. (-SHIFT) * (s + t) \in -BIAS..BIAS
  <2> HIDE DEF loss
  <2> QED BY <1>1, <1>3, <1>5
<1>7. to_biased((-SHIFT) * sum) = (-SHIFT) * (s + t) + BIAS
  BY <1>1, <1>5, <1>6, ShiftedValue
<1>8. down = (-loss) + BIAS
  BY <1>5, <1>7
<1>9. SHIFT * abs = IF loss < 0 THEN -loss ELSE loss
  <2>1. CASE net < 0
    <3>1. SHIFT * (-net) = -(SHIFT * net) /\ SHIFT * net <= 0
      BY <1>1, <2>1
    <3> HIDE DEF net
    <3> QED BY <1>3, <2>1, <3>1
  <2>2. CASE ~(net < 0)
    <3>1. SHIFT * net >= 0
      BY <1>1, <2>2
    <3> HIDE DEF net
    <3> QED BY <1>3, <2>2, <3>1
  <2> QED BY <2>1, <2>2
<1>10. f_S(<<to_biased(s), to_biased(t)>>) = unbiased(IF le(down, up) THEN up ELSE down)
  <2>1. unbiased(to_biased(s)) + unbiased(to_biased(t)) = sum
    BY <1>1, Unbiased
  <2> DEFINE p == <<to_biased(s), to_biased(t)>>
  <2>2. p[1] = to_biased(s) /\ p[2] = to_biased(t)
    OBVIOUS
  <2> HIDE DEF p
  <2>3. unbiased(p[1]) + unbiased(p[2]) = sum
    BY <2>1, <2>2
  <2>4. f_S(p) = unbiased(IF le(down, up) THEN up ELSE down)
    BY <2>3, Zenon DEF f_S
  <2> QED BY <2>4 DEF p
<1> HIDE DEF abs, up, down, loss, net, sum
<1>11. up \in 0..(FieldModulus - 1) /\ down \in 0..(FieldModulus - 1)
  BY <1>1, <1>3, <1>4, <1>8
<1>12. le(down, up) <=> down <= up
  BY <1>11, LeDecides
<1>13. (IF le(down, up) THEN up ELSE down) = (SHIFT * abs) + BIAS
  BY <1>1, <1>3, <1>4, <1>8, <1>9, <1>12
<1>14. SHIFT * abs \in Nat
  BY <1>3, <1>9
<1> DEFINE x == SHIFT * abs
<1> HIDE DEF x
<1>15. (x + BIAS) - BIAS = x
  BY <1>1, <1>14 DEF x
<1>16. unbiased(x + BIAS) = Field(x)
  BY <1>15 DEF unbiased
<1> QED BY <1>10, <1>13, <1>14, <1>16 DEF abs, net, x

\* A claim is accepted exactly when it is the native margin.
ClaimExact(m) ==
  LET net == m.sizes[1] + m.sizes[2]
  IN m.holds <=> m.claimed = Field(SHIFT * (IF net < 0 THEN -net ELSE net) + m.trusted)

\* The verdict on a claim is that of the native margin.
LEMMA CheckedMargin ==
  ASSUME NEW s \in MarginSizes, NEW t \in MarginSizes, NEW trusted \in TrustedTerms, NEW c,
         CheckMargin(s, t, trusted, c)
  PROVE  ClaimExact(margin')
<1> DEFINE net == s + t
           x == SHIFT * (IF net < 0 THEN -net ELSE net)
           h == MarginConstraints(<<to_biased(s), to_biased(t)>>, trusted, c)
<1>1. x \in Nat /\ f_S(<<to_biased(s), to_biased(t)>>) = Field(x)
  BY ScenarioTerm
<1>2. trusted \in Int
  BY ProofAssumption
<1> HIDE DEF x
<1>3. Field(Field(x) + trusted) = Field(x + trusted)
  BY <1>1, <1>2, FieldSum
<1>4. h <=> c = Field(x + trusted)
  BY <1>1, <1>3, Zenon DEF MarginConstraints
<1>5. margin' = [sizes |-> <<s, t>>, trusted |-> trusted, claimed |-> c, holds |-> h]
  BY Zenon DEF CheckMargin
<1>6. h \in BOOLEAN
  BY DEF MarginConstraints
<1> HIDE DEF h
<1>7. /\ margin'.sizes[1] + margin'.sizes[2] = net /\ margin'.trusted = trusted
      /\ margin'.claimed = c /\ margin'.holds = h
  BY <1>5
<1>8. margin'.holds <=> c = Field(x + trusted)
  BY <1>4, <1>6, <1>7
<1> QED BY <1>7, <1>8 DEF ClaimExact, x

LEMMA NoClaimExact == ClaimExact(NoClaim)
<1>1. SHIFT * 0 = 0 /\ 0 + 0 = 0 /\ ~(0 < 0)
  BY FieldSizes
<1>2. Field(0) = 0
  BY FieldSizes, FieldSmall
<1> QED BY <1>1, <1>2 DEF ClaimExact, NoClaim

-----------------------------------------------------------------------------
(* The witnesses of a sweep, as its loop pushes them *)

\* The witnesses that one sweep's fills make, as provable_fills collects them.
PushProvable(s, f, ws) == IF should_prove(f.qty) THEN Append(ws, Witness(s, f)) ELSE ws

Provable(s, fs) == FoldLeft(LAMBDA ws, f : PushProvable(s, f, ws), <<>>, fs)

\* The sweep's witnesses are those of its taker and fills.
LEMMA ProvableFills == provable_fills = Provable(sweep, fills)
BY Zenon DEF provable_fills, Provable, PushProvable, FoldLeft, MapThenFoldSet

ProvableFold(s, fs, g) ==
  g = [t \in SUBSET DOMAIN fs |-> IF t = {} THEN <<>> ELSE PushProvable(s, fs[Max(t)], g[t \ {Max(t)}])]

WitnessesOf(s, fs) == {Witness(s, fs[i]) : i \in DOMAIN fs}

ProvableRun(run, s, fs) ==
  /\ run \in [0..Len(fs) -> Seq(WitnessesOf(s, fs))] /\ run[0] = <<>>
  /\ \A n \in 1..Len(fs) : run[n] = PushProvable(s, fs[n], run[n - 1])
  /\ Provable(s, fs) = run[Len(fs)]

\* The loop over the fills as a run.
LEMMA ProvableRuns ==
  ASSUME NEW s, NEW fs, NEW N \in Nat, DOMAIN fs = 1..N, Len(fs) = N
  PROVE  \E run : ProvableRun(run, s, fs)
<1> DEFINE V == Seq(WitnessesOf(s, fs))
           D == DOMAIN fs
           step == [p \in V \X (1..N) |-> PushProvable(s, fs[p[2]], p[1])]
           it == CHOOSE g : ProvableFold(s, fs, g)
<1>1. N \in Nat /\ D = 1..N
  OBVIOUS
<1>2. Provable(s, fs) = it[D]
  BY Zenon DEF Provable, FoldLeft, MapThenFoldSet, ProvableFold
<1> HIDE DEF D
<1>3. \A ws \in V, n \in 1..N : PushProvable(s, fs[n], ws) \in V
  <2> TAKE ws \in V, n \in 1..N
  <2>1. Witness(s, fs[n]) \in WitnessesOf(s, fs)
    BY <1>1, Zenon DEF WitnessesOf, D
  <2>2. Append(ws, Witness(s, fs[n])) \in V
    <3> DEFINE U == WitnessesOf(s, fs)
    <3>1. ws \in Seq(U) /\ Witness(s, fs[n]) \in U
      BY <2>1
    <3> HIDE DEF U
    <3> QED BY <3>1 DEF U
  <2> QED BY <2>2, Zenon DEF PushProvable
<1>4. step \in StepsOf(V, N) /\ <<>> \in V
  BY <1>3 DEF StepsOf
<1> HIDE DEF V, step
<1>5. PICK g : FoldsUp(g, V, N, <<>>, step)
  BY <1>1, <1>4, FoldExists
<1>6. \A t \in SUBSET (1..N) : t # {} => /\ Max(t) \in 1..N /\ t \ {Max(t)} \in SUBSET (1..N)
  <2> TAKE t \in SUBSET (1..N)
  <2> HAVE t # {}
  <2>1. Max(t) \in t
    BY <1>1, MaxOf
  <2> QED BY <2>1
<1>7. \E h : ProvableFold(s, fs, h)
  <2>1. \A t \in SUBSET (1..N) : g[t] = IF t = {} THEN <<>> ELSE PushProvable(s, fs[Max(t)], g[t \ {Max(t)}])
    <3> TAKE t \in SUBSET (1..N)
    <3>1. g[t] = IF t = {} THEN <<>> ELSE step[<<g[t \ {Max(t)}], Max(t)>>]
      BY <1>5 DEF FoldsUp
    <3>2. CASE t = {}
      BY <3>1, <3>2
    <3>3. CASE t # {}
      <4>1. Max(t) \in 1..N /\ g[t \ {Max(t)}] \in V
        BY <1>5, <1>6, <3>3 DEF FoldsUp
      <4> QED BY <3>1, <3>3, <4>1 DEF step
    <3> QED BY <3>2, <3>3
  <2>2. g = [t \in SUBSET (1..N) |-> g[t]]
    BY <1>5 DEF FoldsUp
  <2>3. ProvableFold(s, fs, g)
    BY <1>1, <2>1, <2>2 DEF ProvableFold, D
  <2> QED BY <2>3
<1>8. ProvableFold(s, fs, it)
  BY <1>7
<1> HIDE DEF it
<1>9. \A t \in SUBSET (1..N) : it[t] = IF t = {} THEN <<>> ELSE PushProvable(s, fs[Max(t)], it[t \ {Max(t)}])
  BY <1>1, <1>8 DEF ProvableFold, D
<1>10. \A n \in 1..N : 1..n \in SUBSET (1..N) /\ 1..n # {} /\ Max(1..n) = n /\ (1..n) \ {n} = 1..(n - 1)
  BY <1>1, MaxUpTo
<1>11. \A n \in 1..N : it[1..n] = PushProvable(s, fs[n], it[1..(n - 1)])
  <2> TAKE n \in 1..N
  <2>1. 1..n \in SUBSET (1..N) /\ 1..n # {} /\ Max(1..n) = n /\ (1..n) \ {n} = 1..(n - 1)
    BY <1>10
  <2> QED BY <1>9, <2>1, Zenon
<1>12. it[1..0] = <<>>
  <2>1. 1..0 = {} /\ {} \in SUBSET (1..N)
    OBVIOUS
  <2> QED BY <1>9, <2>1
<1> DEFINE run == [n \in 0..N |-> it[1..n]]
           Typed(n) == it[1..n] \in V
           G == {n \in Nat : n <= N => Typed(n)}
<1>13. 0 \in G
  BY <1>4, <1>12
<1>14. \A n \in Nat : n \in G => n + 1 \in G
  <2> SUFFICES ASSUME NEW n \in Nat, n + 1 <= N, Typed(n) PROVE Typed(n + 1)
    <3> HIDE DEF Typed
    <3> QED OBVIOUS
  <2>1. n + 1 \in 1..N /\ n + 1 - 1 = n
    BY <1>1
  <2>2. it[1..(n + 1)] = PushProvable(s, fs[n + 1], it[1..n])
    BY <1>11, <2>1
  <2> QED BY <1>3, <2>1, <2>2 DEF V
<1> HIDE DEF G
<1>15. Nat \subseteq G
  BY <1>13, <1>14, Induction
<1>16. \A n \in 0..N : it[1..n] \in V
  BY <1>1, <1>15 DEF G
<1>17. run \in [0..N -> V] /\ run[0] = <<>>
  BY <1>1, <1>12, <1>16
<1>18. \A n \in 1..N : run[n] = PushProvable(s, fs[n], run[n - 1])
  BY <1>1, <1>11
<1>19. Provable(s, fs) = run[N]
  BY <1>1, <1>2
<1> HIDE DEF run
<1> QED BY <1>17, <1>18, <1>19 DEF V, ProvableRun

\* The fills at or above the threshold, and how many come before one of them.
Large(fs) == {i \in DOMAIN fs : fs[i].qty >= NOTIONAL_THRESHOLD}

Before(fs, i) == Cardinality({p \in Large(fs) : p < i})

\* Every large fill has its witness, in the order of the fills, and no other has.
LEMMA ProvableAre ==
  ASSUME NEW s, NEW fs, NEW N \in Nat, DOMAIN fs = 1..N, Len(fs) = N
  PROVE  LET ws == Provable(s, fs) IN
         /\ ws \in Seq(WitnessesOf(s, fs))
         /\ Cardinality(Large(fs)) = Len(ws)
         /\ \A i \in Large(fs) : /\ Before(fs, i) \in Nat /\ Before(fs, i) + 1 \in 1..Len(ws)
                                 /\ ws[Before(fs, i) + 1] = Witness(s, fs[i])
<1> DEFINE U == WitnessesOf(s, fs)
           P == Large(fs)
           Upto(n) == {p \in P : p <= n}
           J(i) == Before(fs, i)
<1>1. N \in Nat /\ \A p \in P : p \in 1..N
  BY DEF Large
<1>2. PICK run : ProvableRun(run, s, fs)
  BY ProvableRuns
<1> HIDE DEF U, P
<1>3. /\ run \in [0..N -> Seq(U)] /\ run[0] = <<>> /\ Provable(s, fs) = run[N]
      /\ \A n \in 1..N : run[n] = PushProvable(s, fs[n], run[n - 1])
  BY <1>2 DEF ProvableRun, U
<1>4. \A n \in 0..N : IsFiniteSet(Upto(n)) /\ Cardinality(Upto(n)) \in Nat
  <2> TAKE n \in 0..N
  <2>1. IsFiniteSet(1..N) /\ Upto(n) \subseteq 1..N
    <3>1. IsFiniteSet(1..N)
      BY FS_Interval
    <3> QED BY <1>1, <3>1
  <2>2. IsFiniteSet(Upto(n))
    BY <2>1, FS_Subset
  <2> QED BY <2>2, FS_CardinalityType
<1>5. \A n \in 1..N : {p \in P : p < n} = Upto(n - 1)
  BY <1>1
<1>6. \A n \in 1..N : J(n) = Cardinality(Upto(n - 1))
  BY <1>5, Zenon DEF Before, P
<1> DEFINE Good(n) == /\ Len(run[n]) = Cardinality(Upto(n))
                      /\ \A i \in Upto(n) : J(i) \in Nat /\ J(i) + 1 \in 1..Len(run[n]) /\ run[n][J(i) + 1] = Witness(s, fs[i])
           G == {n \in Nat : n <= N => Good(n)}
<1> HIDE DEF J
<1>7. 0 \in G
  <2>1. Upto(0) = {}
    BY <1>1
  <2>2. Cardinality({}) = 0
    BY FS_EmptySet
  <2>3. Len(run[0]) = 0
    BY <1>3
  <2> HIDE DEF Upto
  <2> QED BY <2>1, <2>2, <2>3
<1>8. \A n \in Nat : n \in G => n + 1 \in G
  <2> SUFFICES ASSUME NEW n \in Nat, n + 1 <= N, Good(n) PROVE Good(n + 1)
    <3> HIDE DEF Good
    <3> QED OBVIOUS
  <2> DEFINE m == n + 1
             r == run[n]
             t == run[m]
             w == Witness(s, fs[m])
  <2>1. m \in 1..N /\ m - 1 = n /\ n \in 0..N /\ m \in 0..N
    BY <1>1
  <2>2. t = PushProvable(s, fs[m], r) /\ r \in Seq(U)
    BY <1>3, <2>1
  <2>3. m \in P <=> should_prove(fs[m].qty)
    BY <1>1, <2>1 DEF P, Large, should_prove
  <2>4. CASE m \in P
    <3>1. t = Append(r, w)
      BY <2>2, <2>3, <2>4 DEF PushProvable
    <3>2. Len(t) = Len(r) + 1 /\ Len(r) \in Nat /\ t[Len(r) + 1] = w /\ \A k \in 1..Len(r) : t[k] = r[k]
      <4>1. \A S, x : \A q \in Seq(S) : /\ Len(Append(q, x)) = Len(q) + 1 /\ Len(q) \in Nat
                                        /\ Append(q, x)[Len(q) + 1] = x
                                        /\ \A k \in 1..Len(q) : Append(q, x)[k] = q[k]
        OBVIOUS
      <4> HIDE DEF w, r, t
      <4> QED BY <2>2, <3>1, <4>1
    <3>3. Upto(m) = Upto(n) \union {m} /\ m \notin Upto(n)
      BY <1>1, <2>1, <2>4
    <3>4. Cardinality(Upto(m)) = Cardinality(Upto(n)) + 1
      <4> HIDE DEF Upto
      <4> QED BY <1>4, <2>1, <3>3, FS_AddElement
    <3>5. J(m) = Len(r)
      BY <1>6, <2>1
    <3>6. Len(t) = Cardinality(Upto(m))
      BY <3>2, <3>4
    <3>7. \A i \in Upto(m) : J(i) \in Nat /\ J(i) + 1 \in 1..Len(t) /\ t[J(i) + 1] = Witness(s, fs[i])
      <4> HIDE DEF Upto, t, m
      <4> TAKE i \in Upto(m)
      <4>1. CASE i \in Upto(n)
        <5>1. J(i) \in Nat /\ J(i) + 1 \in 1..Len(r) /\ r[J(i) + 1] = Witness(s, fs[i])
          BY <4>1
        <5> HIDE DEF r
        <5> QED BY <3>2, <5>1
      <4>2. CASE i = m
        <5> HIDE DEF r
        <5> QED BY <3>2, <3>5, <4>2
      <4> QED BY <3>3, <4>1, <4>2
    <3> QED BY <3>6, <3>7
  <2>5. CASE m \notin P
    <3>1. t = r
      BY <2>2, <2>3, <2>5 DEF PushProvable
    <3>2. Upto(m) = Upto(n)
      BY <1>1, <2>1, <2>5
    <3> HIDE DEF Upto
    <3> QED BY <3>1, <3>2
  <2> QED BY <2>4, <2>5
<1> HIDE DEF G
<1>9. Nat \subseteq G
  BY <1>7, <1>8, Induction
<1>10. Good(N)
  <2> HIDE DEF Good
  <2> QED BY <1>1, <1>9 DEF G
<1>11. Upto(N) = P
  BY <1>1
<1> HIDE DEF Upto
<1>12. run[N] \in Seq(U)
  BY <1>1, <1>3
<1> QED BY <1>3, <1>10, <1>11, <1>12 DEF P, U, J

-----------------------------------------------------------------------------
(* The chunks of the witnesses *)

\* One witness in the loop of chunk_for_batching.
ChunkTurn(acc, w) ==
  LET current == Append(acc.current, w)
  IN IF Len(current) = MAX_BATCH_SIZE
     THEN [chunks |-> Append(acc.chunks, current), current |-> <<>>]
     ELSE [acc EXCEPT !.current = current]

NoChunks == [chunks |-> <<>>, current |-> <<>>]

Chunkings(U) == [chunks : Seq(Seq(U)), current : Seq(U)]

ChunkFold(ws, g) ==
  g = [t \in SUBSET DOMAIN ws |-> IF t = {} THEN NoChunks ELSE ChunkTurn(g[t \ {Max(t)}], ws[Max(t)])]

ChunkRun(run, ws, U) ==
  /\ run \in [0..Len(ws) -> Chunkings(U)] /\ run[0] = NoChunks
  /\ \A n \in 1..Len(ws) : run[n] = ChunkTurn(run[n - 1], ws[n])
  /\ LET end == run[Len(ws)] IN
     chunk_for_batching(ws) = end.chunks \o (IF end.current = <<>> THEN <<>> ELSE <<end.current>>)

\* A turn of chunk_for_batching.
LEMMA ChunkTurnIs ==
  ASSUME NEW U, NEW acc \in Chunkings(U), NEW w \in U
  PROVE  LET current == Append(acc.current, w)
             next == ChunkTurn(acc, w)
         IN /\ next \in Chunkings(U)
            /\ Len(current) = MAX_BATCH_SIZE => next.chunks = Append(acc.chunks, current) /\ next.current = <<>>
            /\ Len(current) # MAX_BATCH_SIZE => next.chunks = acc.chunks /\ next.current = current
<1> DEFINE current == Append(acc.current, w)
           full == [chunks |-> Append(acc.chunks, current), current |-> <<>>]
           more == [acc EXCEPT !.current = current]
<1>1. acc.chunks \in Seq(Seq(U)) /\ acc.current \in Seq(U) /\ acc = [chunks |-> acc.chunks, current |-> acc.current]
  BY DEF Chunkings
<1>2. current \in Seq(U)
  BY <1>1
<1>3. more.chunks = acc.chunks /\ more.current = current /\ full.chunks = Append(acc.chunks, current) /\ full.current = <<>>
  <2> HIDE DEF current
  <2> QED BY <1>1
<1>4. full \in Chunkings(U) /\ more \in Chunkings(U)
  <2> HIDE DEF current
  <2>1. Append(acc.chunks, current) \in Seq(Seq(U)) /\ <<>> \in Seq(U)
    <3> DEFINE S == Seq(U)
    <3>1. current \in S /\ acc.chunks \in Seq(S)
      BY <1>1, <1>2
    <3> HIDE DEF S
    <3>2. Append(acc.chunks, current) \in Seq(S)
      BY <3>1
    <3> QED BY <3>2 DEF S
  <2> QED BY <1>1, <1>2, <2>1 DEF Chunkings
<1>5. ChunkTurn(acc, w) = IF Len(current) = MAX_BATCH_SIZE THEN full ELSE more
  BY Zenon DEF ChunkTurn
<1> HIDE DEF full, more
<1>6. CASE Len(current) = MAX_BATCH_SIZE
  <2>1. ChunkTurn(acc, w) = full
    BY <1>5, <1>6, Zenon
  <2> QED BY <1>3, <1>4, <1>6, <2>1, Zenon
<1>7. CASE Len(current) # MAX_BATCH_SIZE
  <2>1. ChunkTurn(acc, w) = more
    BY <1>5, <1>7, Zenon
  <2> QED BY <1>3, <1>4, <1>7, <2>1, Zenon
<1> QED BY <1>6, <1>7, Zenon

\* The loop over the witnesses as a run.
LEMMA ChunkRuns ==
  ASSUME NEW U, NEW ws \in Seq(U)
  PROVE  \E run : ChunkRun(run, ws, U)
<1> DEFINE N == Len(ws)
           V == Chunkings(U)
           D == DOMAIN ws
           step == [p \in V \X (1..N) |-> ChunkTurn(p[1], ws[p[2]])]
           it == CHOOSE g : ChunkFold(ws, g)
           out(end) == end.chunks \o (IF end.current = <<>> THEN <<>> ELSE <<end.current>>)
<1>1. N \in Nat /\ D = 1..N /\ \A n \in 1..N : ws[n] \in U
  OBVIOUS
<1>2. chunk_for_batching(ws) = out(it[D])
  BY Zenon DEF chunk_for_batching, FoldLeft, MapThenFoldSet, ChunkFold, ChunkTurn, NoChunks
<1> HIDE DEF D, out
<1>3. \A acc \in V, n \in 1..N : ChunkTurn(acc, ws[n]) \in V
  <2> TAKE acc \in V, n \in 1..N
  <2>1. ws[n] \in U
    BY <1>1
  <2> QED BY <2>1, ChunkTurnIs, Zenon
<1>4. step \in StepsOf(V, N) /\ NoChunks \in V
  <2>1. NoChunks \in V
    BY DEF NoChunks, Chunkings
  <2> HIDE DEF V, N
  <2> QED BY <1>3, <2>1 DEF StepsOf
<1> HIDE DEF V, step, N
<1>5. PICK g : FoldsUp(g, V, N, NoChunks, step)
  BY <1>1, <1>4, FoldExists
<1>6. \A t \in SUBSET (1..N) : t # {} => /\ Max(t) \in 1..N /\ t \ {Max(t)} \in SUBSET (1..N)
  <2> TAKE t \in SUBSET (1..N)
  <2> HAVE t # {}
  <2>1. Max(t) \in t
    BY <1>1, MaxOf
  <2> QED BY <2>1
<1>7. \E h : ChunkFold(ws, h)
  <2>1. \A t \in SUBSET (1..N) : g[t] = IF t = {} THEN NoChunks ELSE ChunkTurn(g[t \ {Max(t)}], ws[Max(t)])
    <3> TAKE t \in SUBSET (1..N)
    <3>1. g[t] = IF t = {} THEN NoChunks ELSE step[<<g[t \ {Max(t)}], Max(t)>>]
      BY <1>5 DEF FoldsUp
    <3>2. CASE t = {}
      BY <3>1, <3>2
    <3>3. CASE t # {}
      <4>1. Max(t) \in 1..N /\ g[t \ {Max(t)}] \in V
        BY <1>5, <1>6, <3>3 DEF FoldsUp
      <4> QED BY <3>1, <3>3, <4>1 DEF step
    <3> QED BY <3>2, <3>3
  <2>2. g = [t \in SUBSET (1..N) |-> g[t]]
    BY <1>5 DEF FoldsUp
  <2>3. ChunkFold(ws, g)
    BY <1>1, <2>1, <2>2 DEF ChunkFold, D
  <2> QED BY <2>3
<1>8. ChunkFold(ws, it)
  BY <1>7
<1> HIDE DEF it
<1>9. \A t \in SUBSET (1..N) : it[t] = IF t = {} THEN NoChunks ELSE ChunkTurn(it[t \ {Max(t)}], ws[Max(t)])
  BY <1>1, <1>8 DEF ChunkFold, D
<1>10. \A n \in 1..N : 1..n \in SUBSET (1..N) /\ 1..n # {} /\ Max(1..n) = n /\ (1..n) \ {n} = 1..(n - 1)
  BY <1>1, MaxUpTo
<1>11. \A n \in 1..N : it[1..n] = ChunkTurn(it[1..(n - 1)], ws[n])
  <2> TAKE n \in 1..N
  <2>1. 1..n \in SUBSET (1..N) /\ 1..n # {} /\ Max(1..n) = n /\ (1..n) \ {n} = 1..(n - 1)
    BY <1>10
  <2> QED BY <1>9, <2>1, Zenon
<1>12. it[1..0] = NoChunks
  <2>1. 1..0 = {} /\ {} \in SUBSET (1..N)
    OBVIOUS
  <2> QED BY <1>9, <2>1
<1> DEFINE run == [n \in 0..N |-> it[1..n]]
           Typed(n) == it[1..n] \in V
           G == {n \in Nat : n <= N => Typed(n)}
<1>13. 0 \in G
  BY <1>4, <1>12
<1>14. \A n \in Nat : n \in G => n + 1 \in G
  <2> SUFFICES ASSUME NEW n \in Nat, n + 1 <= N, Typed(n) PROVE Typed(n + 1)
    <3> HIDE DEF Typed
    <3> QED BY <1>1
  <2>1. n + 1 \in 1..N /\ n + 1 - 1 = n
    BY <1>1
  <2>2. it[1..(n + 1)] = ChunkTurn(it[1..n], ws[n + 1])
    BY <1>11, <2>1
  <2> QED BY <1>3, <2>1, <2>2 DEF V
<1> HIDE DEF G
<1>15. Nat \subseteq G
  BY <1>13, <1>14, Induction
<1>16. \A n \in 0..N : it[1..n] \in V
  BY <1>1, <1>15 DEF G
<1>17. run \in [0..N -> V] /\ run[0] = NoChunks
  BY <1>1, <1>12, <1>16
<1>18. \A n \in 1..N : run[n] = ChunkTurn(run[n - 1], ws[n])
  BY <1>1, <1>11
<1>19. chunk_for_batching(ws) = out(run[N])
  BY <1>1, <1>2
<1> HIDE DEF run
<1> QED BY <1>17, <1>18, <1>19 DEF N, V, ChunkRun, out

\* The place in the sequence of a chunk's slot.
SlotAt(k, m) == (k - 1) * MAX_BATCH_SIZE + m

LEMMA BatchSize == MAX_BATCH_SIZE \in Nat \ {0}
BY ProofAssumption

\* The slots of a chunk come before those of the next.
LEMMA SlotOrder ==
  ASSUME NEW k \in Int, NEW l \in Int, k + 1 <= l
  PROVE  /\ (k - 1) * MAX_BATCH_SIZE \in Int /\ (l - 1) * MAX_BATCH_SIZE \in Int
         /\ (k - 1) * MAX_BATCH_SIZE + MAX_BATCH_SIZE <= (l - 1) * MAX_BATCH_SIZE
<1> DEFINE M == MAX_BATCH_SIZE
<1>1. M \in Nat \ {0}
  BY BatchSize
<1> HIDE DEF M
<1>2. k * M <= (l - 1) * M /\ k * M = (k - 1) * M + M /\ (k - 1) * M \in Int /\ (l - 1) * M \in Int
  BY <1>1
<1> QED BY <1>2 DEF M

\* No two slots have the same place.
LEMMA SlotUnique ==
  ASSUME NEW k \in Int, NEW l \in Int, NEW m \in 1..MAX_BATCH_SIZE, NEW n \in 1..MAX_BATCH_SIZE,
         SlotAt(k, m) = SlotAt(l, n)
  PROVE  k = l /\ m = n
<1> DEFINE M == MAX_BATCH_SIZE
           x == (k - 1) * M
           y == (l - 1) * M
<1>1. M \in Nat \ {0} /\ m \in 1..M /\ n \in 1..M
  BY BatchSize
<1>2. x + m = y + n
  BY DEF SlotAt
<1>3. x \in Int /\ y \in Int
  <2>1. k - 1 \in Int /\ l - 1 \in Int /\ M \in Int
    BY <1>1
  <2> DEFINE p == k - 1
             q == l - 1
  <2> HIDE DEF p, q, M
  <2>2. p \in Int /\ q \in Int /\ M \in Int
    BY <2>1 DEF p, q
  <2>3. p * M \in Int /\ q * M \in Int
    BY <2>2
  <2> QED BY <2>3 DEF p, q
<1>4. CASE k + 1 <= l
  <2>1. x + M <= y
    BY <1>4, SlotOrder
  <2> HIDE DEF x, y, M
  <2> QED BY <1>1, <1>2, <1>3, <2>1
<1>5. CASE l + 1 <= k
  <2>1. y + M <= x
    BY <1>5, SlotOrder
  <2> HIDE DEF x, y, M
  <2> QED BY <1>1, <1>2, <1>3, <2>1
<1>6. CASE k = l
  <2>1. x = y
    BY <1>6
  <2> HIDE DEF x, y, M
  <2> QED BY <1>1, <1>2, <1>3, <1>6, <2>1
<1> QED BY <1>4, <1>5, <1>6

\* Every place is that of a slot.
LEMMA SlotParts ==
  ASSUME NEW j \in Nat \ {0}
  PROVE  LET k == ((j - 1) \div MAX_BATCH_SIZE) + 1
             m == ((j - 1) % MAX_BATCH_SIZE) + 1
         IN k \in Nat \ {0} /\ m \in 1..MAX_BATCH_SIZE /\ SlotAt(k, m) = j
<1> DEFINE M == MAX_BATCH_SIZE
           i == j - 1
           q == i \div M
           r == i % M
<1>1. M \in Nat \ {0} /\ i \in Nat /\ j = i + 1
  BY BatchSize
<1> HIDE DEF M, i
<1>2. q \in Nat /\ r \in 0..(M - 1) /\ i = M * q + r
  BY <1>1
<1>3. M * q = q * M /\ q * M \in Int
  BY <1>1, <1>2
<1> HIDE DEF q, r
<1>4. (q + 1) - 1 = q /\ q + 1 \in Nat \ {0} /\ r + 1 \in 1..M
  BY <1>1, <1>2
<1>5. SlotAt(q + 1, r + 1) = q * M + (r + 1)
  BY <1>4 DEF SlotAt, M
<1> DEFINE w == q * M
<1> HIDE DEF w
<1>6. w \in Int /\ i = w + r /\ SlotAt(q + 1, r + 1) = w + (r + 1)
  BY <1>2, <1>3, <1>5 DEF w
<1>7. SlotAt(q + 1, r + 1) = j
  BY <1>1, <1>2, <1>6
<1> QED BY <1>4, <1>7 DEF q, r, i, M

\* The loop: full chunks so far, and less than one more.
ChunkedSoFar(r, ws, n) ==
  LET C == Len(r.chunks)
      L == Len(r.current)
  IN /\ L < MAX_BATCH_SIZE /\ n = C * MAX_BATCH_SIZE + L
     /\ \A k \in 1..C : /\ Len(r.chunks[k]) = MAX_BATCH_SIZE
                        /\ \A m \in 1..MAX_BATCH_SIZE : r.chunks[k][m] = ws[SlotAt(k, m)]
     /\ \A m \in 1..L : r.current[m] = ws[SlotAt(C + 1, m)]

\* What the loop has built, a witness later.
LEMMA ChunkStep ==
  ASSUME NEW U, NEW ws, NEW n \in Nat, ws[n + 1] \in U,
         NEW r \in Chunkings(U), ChunkedSoFar(r, ws, n)
  PROVE  ChunkedSoFar(ChunkTurn(r, ws[n + 1]), ws, n + 1)
<1> DEFINE M == MAX_BATCH_SIZE
           w == ws[n + 1]
           cs == r.chunks
           c == r.current
           C == Len(cs)
           L == Len(c)
           d == Append(c, w)
           t == ChunkTurn(r, w)
<1>0. M \in Nat \ {0}
  BY BatchSize
<1>1. cs \in Seq(Seq(U)) /\ c \in Seq(U) /\ C \in Nat /\ L \in Nat
  <2>1. cs \in Seq(Seq(U)) /\ c \in Seq(U)
    BY DEF Chunkings
  <2> HIDE DEF cs, c
  <2> QED BY <2>1
<1>2. /\ L < M /\ n = C * M + L
      /\ \A k \in 1..C : Len(cs[k]) = M /\ \A m \in 1..M : cs[k][m] = ws[SlotAt(k, m)]
      /\ \A m \in 1..L : c[m] = ws[SlotAt(C + 1, m)]
  BY DEF ChunkedSoFar
<1>3. \A S, x : \A q \in Seq(S) : /\ Len(Append(q, x)) = Len(q) + 1 /\ Append(q, x)[Len(q) + 1] = x
                                  /\ \A k \in 1..Len(q) : Append(q, x)[k] = q[k]
  OBVIOUS
<1>4. Len(d) = L + 1 /\ d[L + 1] = w /\ \A m \in 1..L : d[m] = c[m]
  <2> HIDE DEF c, w
  <2> QED BY <1>1, <1>3
<1>5. /\ Len(d) = M => t.chunks = Append(cs, d) /\ t.current = <<>>
      /\ Len(d) # M => t.chunks = cs /\ t.current = d
  BY ChunkTurnIs, Zenon
<1> HIDE DEF t, cs, c, C, L, d, M, w
<1>6. C * M \in Int /\ (C + 1) * M = C * M + M /\ (C + 1) - 1 = C
  BY <1>0, <1>1
<1>7. SlotAt(C + 1, L + 1) = n + 1
  <2>1. SlotAt(C + 1, L + 1) = C * M + (L + 1)
    BY <1>6 DEF SlotAt, M
  <2> DEFINE x == C * M
  <2>2. x \in Int /\ n = x + L /\ SlotAt(C + 1, L + 1) = x + (L + 1)
    BY <1>2, <1>6, <2>1
  <2> HIDE DEF x
  <2> QED BY <1>1, <2>2
<1>8. \A m \in 1..(L + 1) : d[m] = ws[SlotAt(C + 1, m)]
  <2> TAKE m \in 1..(L + 1)
  <2>1. CASE m = L + 1
    BY <1>4, <1>7, <2>1 DEF w
  <2>2. CASE m # L + 1
    <3>1. m \in 1..L
      BY <1>1, <2>2
    <3> QED BY <1>2, <1>4, <3>1
  <2> QED BY <2>1, <2>2
<1>9. CASE L + 1 = M
  <2>1. t.chunks = Append(cs, d) /\ t.current = <<>>
    BY <1>4, <1>5, <1>9
  <2>2. Len(t.chunks) = C + 1 /\ t.chunks[C + 1] = d /\ \A k \in 1..C : t.chunks[k] = cs[k]
    <3>1. Len(Append(cs, d)) = C + 1 /\ Append(cs, d)[C + 1] = d /\ \A k \in 1..C : Append(cs, d)[k] = cs[k]
      <4> DEFINE S == Seq(U)
      <4>1. cs \in Seq(S)
        BY <1>1
      <4> HIDE DEF S
      <4> QED BY <1>3, <4>1 DEF C
    <3> QED BY <2>1, <3>1
  <2>3. Len(t.current) = 0
    BY <2>1
  <2>4. n + 1 = (C + 1) * M + 0
    <3> DEFINE x == C * M
    <3>1. x \in Int /\ n = x + L /\ (C + 1) * M = x + M
      BY <1>2, <1>6
    <3> HIDE DEF x
    <3> QED BY <1>0, <1>1, <1>9, <3>1
  <2>5. \A k \in 1..(C + 1) : Len(t.chunks[k]) = M /\ \A m \in 1..M : t.chunks[k][m] = ws[SlotAt(k, m)]
    <3> TAKE k \in 1..(C + 1)
    <3>1. CASE k = C + 1
      BY <1>4, <1>8, <1>9, <2>2, <3>1
    <3>2. CASE k # C + 1
      <4>1. k \in 1..C
        BY <1>1, <3>2
      <4> QED BY <1>2, <2>2, <4>1
    <3> QED BY <3>1, <3>2
  <2>6. \A m \in 1..0 : t.current[m] = ws[SlotAt((C + 1) + 1, m)]
    OBVIOUS
  <2>7. 0 < M
    BY <1>0
  <2> QED BY <2>2, <2>3, <2>4, <2>5, <2>6, <2>7 DEF ChunkedSoFar, M, t, w
<1>10. CASE L + 1 # M
  <2>1. t.chunks = cs /\ t.current = d
    BY <1>4, <1>5, <1>10
  <2>2. L + 1 < M
    BY <1>0, <1>1, <1>2, <1>10
  <2>3. n + 1 = C * M + (L + 1)
    <3> DEFINE x == C * M
    <3>1. x \in Int /\ n = x + L
      BY <1>2, <1>6
    <3> HIDE DEF x
    <3>2. n + 1 = x + (L + 1)
      BY <1>1, <3>1
    <3> QED BY <3>2 DEF x
  <2> QED BY <1>2, <1>4, <1>8, <2>1, <2>2, <2>3 DEF ChunkedSoFar, M, C, t, w
<1> QED BY <1>9, <1>10

\* The chunks hold the witnesses in their order, each in one slot, none empty.
ChunksOf(cs, ws) ==
  /\ \A k \in 1..Len(cs) : /\ Len(cs[k]) \in 1..MAX_BATCH_SIZE
                           /\ \A m \in 1..Len(cs[k]) : SlotAt(k, m) \in 1..Len(ws) /\ cs[k][m] = ws[SlotAt(k, m)]
  /\ \A j \in 1..Len(ws) : \E k \in 1..Len(cs) : \E m \in 1..Len(cs[k]) : SlotAt(k, m) = j

LEMMA ChunksAre ==
  ASSUME NEW U, NEW ws \in Seq(U)
  PROVE  /\ chunk_for_batching(ws) \in Seq(Seq(U))
         /\ ChunksOf(chunk_for_batching(ws), ws)
<1> DEFINE N == Len(ws)
           M == MAX_BATCH_SIZE
<1>1. N \in Nat /\ \A n \in 1..N : ws[n] \in U
  OBVIOUS
<1>2. PICK run : ChunkRun(run, ws, U)
  BY ChunkRuns
<1>3. M \in Nat \ {0}
  BY BatchSize
<1>4. /\ run \in [0..N -> Chunkings(U)] /\ run[0] = NoChunks
      /\ \A n \in 1..N : run[n] = ChunkTurn(run[n - 1], ws[n])
  BY <1>2 DEF ChunkRun
<1> DEFINE Good(n) == ChunkedSoFar(run[n], ws, n)
           G == {n \in Nat : n <= N => Good(n)}
<1> HIDE DEF N, M
<1>5. 0 \in G
  <2>1. Len(<<>>) = 0 /\ 0 < M /\ 0 = 0 * M + 0
    BY <1>3
  <2>2. ChunkedSoFar(NoChunks, ws, 0)
    BY <2>1 DEF ChunkedSoFar, NoChunks, M
  <2> QED BY <1>4, <2>2
<1>6. \A n \in Nat : n \in G => n + 1 \in G
  <2> SUFFICES ASSUME NEW n \in Nat, n + 1 <= N, Good(n) PROVE Good(n + 1)
    <3> HIDE DEF Good
    <3> QED BY <1>1
  <2>1. n + 1 \in 1..N /\ n + 1 - 1 = n /\ n \in 0..N
    BY <1>1
  <2>2. run[n + 1] = ChunkTurn(run[n], ws[n + 1]) /\ run[n] \in Chunkings(U) /\ ws[n + 1] \in U
    BY <1>1, <1>4, <2>1
  <2> QED BY <2>2, ChunkStep
<1> HIDE DEF G, Good
<1>7. Nat \subseteq G
  BY <1>5, <1>6, Induction
<1>8. Good(N)
  BY <1>1, <1>7 DEF G
<1> DEFINE cs == run[N].chunks
           c == run[N].current
           C == Len(cs)
           L == Len(c)
           all == chunk_for_batching(ws)
<1>9. cs \in Seq(Seq(U)) /\ c \in Seq(U) /\ C \in Nat /\ L \in Nat
  <2>1. run[N] \in Chunkings(U)
    BY <1>1, <1>4
  <2>2. cs \in Seq(Seq(U)) /\ c \in Seq(U)
    BY <2>1 DEF Chunkings
  <2> HIDE DEF cs, c
  <2> QED BY <2>2
<1>10. /\ L < M /\ N = C * M + L
       /\ \A k \in 1..C : Len(cs[k]) = M /\ \A m \in 1..M : cs[k][m] = ws[SlotAt(k, m)]
       /\ \A m \in 1..L : c[m] = ws[SlotAt(C + 1, m)]
  BY <1>8 DEF Good, ChunkedSoFar, M
<1>11. all = cs \o (IF c = <<>> THEN <<>> ELSE <<c>>)
  BY <1>2, Zenon DEF ChunkRun, N
<1> HIDE DEF cs, c, C, L, all
<1>12. C * M \in Int /\ (C + 1) - 1 = C
  BY <1>3, <1>9
\* Below a chunk lie the witnesses of those before it.
<1>13. \A k \in 1..C, m \in 1..M : SlotAt(k, m) \in 1..N
  <2> TAKE k \in 1..C, m \in 1..M
  <2> DEFINE x == (k - 1) * M
             y == C * M
  <2>1. x \in Int /\ x >= 0 /\ x + M <= y
    <3>1. k \in Int /\ C + 1 \in Int /\ k + 1 <= C + 1
      BY <1>9
    <3>2. x \in Int /\ x + M <= ((C + 1) - 1) * M
      BY <3>1, SlotOrder DEF M
    <3>3. k - 1 \in Nat /\ M \in Nat
      BY <1>3, <1>9
    <3> DEFINE p == k - 1
    <3> HIDE DEF p
    <3>4. p \in Nat
      BY <3>3 DEF p
    <3>5. p * M >= 0
      BY <1>3, <3>4
    <3> QED BY <1>12, <3>2, <3>5 DEF p
  <2>2. y \in Int /\ N = y + L
    BY <1>10, <1>12
  <2>3. SlotAt(k, m) = x + m
    BY DEF SlotAt, M
  <2> HIDE DEF x, y
  <2> QED BY <1>3, <1>9, <2>1, <2>2, <2>3
<1>14. \A m \in 1..L : SlotAt(C + 1, m) = C * M + m /\ SlotAt(C + 1, m) \in 1..N
  <2> TAKE m \in 1..L
  <2> DEFINE y == C * M
  <2>1. y \in Int /\ y >= 0 /\ N = y + L
    BY <1>3, <1>9, <1>10
  <2>2. SlotAt(C + 1, m) = y + m
    BY <1>12 DEF SlotAt, M
  <2> HIDE DEF y
  <2>3. SlotAt(C + 1, m) \in 1..N
    BY <1>9, <2>1, <2>2
  <2> QED BY <2>2, <2>3 DEF y
<1>15. /\ all \in Seq(Seq(U)) /\ Len(all) = IF L = 0 THEN C ELSE C + 1
       /\ \A k \in 1..C : all[k] = cs[k]
       /\ L # 0 => all[C + 1] = c
  <2> DEFINE S == Seq(U)
  <2>1. cs \in Seq(S) /\ c \in S
    BY <1>9
  <2>2. c = <<>> <=> L = 0
    BY <1>9 DEF L
  <2> HIDE DEF S
  <2>3. CASE L = 0
    <3>1. all = cs \o <<>>
      BY <1>11, <2>2, <2>3
    <3> QED BY <2>1, <2>3, <3>1 DEF C, S
  <2>4. CASE L # 0
    <3>1. all = cs \o <<c>>
      BY <1>11, <2>2, <2>4
    <3> QED BY <2>1, <2>4, <3>1 DEF C, S
  <2> QED BY <2>3, <2>4
<1>16. \A k \in 1..Len(all) : /\ Len(all[k]) \in 1..M
                              /\ \A m \in 1..Len(all[k]) : SlotAt(k, m) \in 1..N /\ all[k][m] = ws[SlotAt(k, m)]
  <2> TAKE k \in 1..Len(all)
  <2>1. CASE k \in 1..C
    <3>1. all[k] = cs[k] /\ Len(all[k]) = M
      BY <1>10, <1>15, <2>1
    <3> QED BY <1>3, <1>10, <1>13, <2>1, <3>1
  <2>2. CASE k \notin 1..C
    <3>1. k = C + 1 /\ L # 0
      BY <1>9, <1>15, <2>2
    <3>2. all[k] = c /\ Len(all[k]) = L
      BY <1>15, <3>1 DEF L
    <3>3. L \in 1..M
      BY <1>3, <1>9, <1>10, <3>1
    <3> QED BY <1>10, <1>14, <3>1, <3>2, <3>3
  <2> QED BY <2>1, <2>2
<1>17. \A j \in 1..N : \E k \in 1..Len(all) : \E m \in 1..Len(all[k]) : SlotAt(k, m) = j
  <2> TAKE j \in 1..N
  <2>1. PICK k \in Nat \ {0}, m \in 1..M : SlotAt(k, m) = j
    <3>1. j \in Nat \ {0}
      BY <1>1
    <3> QED BY <3>1, SlotParts DEF M
  <2>2. CASE k \in 1..C
    <3>1. all[k] = cs[k] /\ Len(cs[k]) = M
      BY <1>10, <1>15, <2>2
    <3>2. Len(all) \in Int /\ Len(all) >= C
      BY <1>9, <1>15
    <3>3. k \in 1..Len(all) /\ m \in 1..Len(all[k])
      BY <1>9, <2>2, <3>1, <3>2
    <3> QED BY <2>1, <3>3
  <2>3. CASE k \notin 1..C
    <3>1. k >= C + 1
      BY <1>9, <2>3
    <3> DEFINE x == (k - 1) * M
               y == C * M
    <3>2. x \in Int /\ y \in Int /\ j = x + m /\ N = y + L
      <4>1. j = x + m
        BY <2>1 DEF SlotAt, M
      <4>2. x \in Int
        BY <1>3, <2>1
      <4> QED BY <1>10, <1>12, <4>1, <4>2
    <3>3. CASE k >= C + 2
      <4>1. (C + 1) + 1 <= k /\ C + 1 \in Int /\ k \in Int
        BY <1>9, <3>3
      <4>2. ((C + 1) - 1) * M + M <= x
        BY <4>1, SlotOrder DEF M
      <4>3. y + M <= x
        BY <1>12, <4>2
      <4> HIDE DEF x, y
      <4> QED BY <1>1, <1>3, <1>9, <1>10, <3>2, <4>3
    <3>4. CASE k = C + 1
      <4>1. x = y
        BY <1>12, <3>4
      <4> HIDE DEF x, y
      <4>2. m \in 1..L /\ L # 0
        BY <1>1, <1>3, <1>9, <3>2, <4>1
      <4>3. k \in 1..Len(all) /\ m \in 1..Len(all[k])
        BY <1>9, <1>15, <3>4, <4>2 DEF L
      <4> QED BY <2>1, <4>3
    <3> QED BY <1>9, <3>1, <3>3, <3>4
  <2> QED BY <2>2, <2>3
<1> QED BY <1>15, <1>16, <1>17 DEF ChunksOf, all, N, M

-----------------------------------------------------------------------------
(* What the circuit decides *)

Amounts == 0..(FieldModulus - 1)

Sweeps == [buy : BOOLEAN, tick : Amounts, tif : {"ioc", "fok", "gtc"}, left : Amounts]

FillSet == [tick : Amounts, qty : Amounts, backstop : BOOLEAN,
            maker_size_before : Amounts, taker_size_before : Amounts]

\* No fill is for more than either side had.
FillsSound(fs) ==
  /\ fs \in Seq(FillSet)
  /\ \A i \in 1..Len(fs) : fs[i].qty <= fs[i].maker_size_before /\ fs[i].qty <= fs[i].taker_size_before

LEMMA AmountsAre ==
  /\ \A a \in Amounts : a \in Int
  /\ 0 \in Amounts
  /\ \A q \in ProofTicks \union SweepQtys \union MakerSizes : q \in Amounts
BY ProofAssumption, FieldSizes DEF Amounts

\* The circuit accepts a fill's witness exactly within the taker's limit.
LEMMA WitnessDecided ==
  ASSUME NEW s \in Sweeps, NEW f \in FillSet, f.qty <= f.maker_size_before, f.qty <= f.taker_size_before
  PROVE  LET w == Witness(s, f) IN
         /\ generate_constraints(MatchCircuit(w)) <=> ~ BeyondLimit(w)
         /\ w.match_size <= w.size_a /\ w.match_size <= w.size_b
<1> DEFINE w == Witness(s, f)
           c == MatchCircuit(w)
<1>1. /\ s.buy \in BOOLEAN /\ s.tick \in Amounts /\ f.tick \in Amounts /\ f.qty \in Amounts
      /\ f.maker_size_before \in Amounts /\ f.taker_size_before \in Amounts
  BY DEF Sweeps, FillSet
<1>2. /\ w.side_a = s.buy /\ w.side_b = (~ s.buy) /\ w.price_a = s.tick /\ w.price_b = f.tick
      /\ w.match_price = f.tick /\ w.match_size = f.qty
      /\ w.size_a = f.taker_size_before /\ w.size_b = f.maker_size_before
  BY Zenon DEF Witness
<1>3. c.witness = w /\ c.cmt_a = <<w.side_a, w.price_a, w.size_a>> /\ c.cmt_b = <<w.side_b, w.price_b, w.size_b>>
  BY DEF MatchCircuit
<1>4. w.side_a # w.side_b
  BY <1>1, <1>2
<1> HIDE DEF w, c
<1>5. generate_constraints(c) <=>
        LET buyer_price  == IF w.side_a THEN w.price_a ELSE w.price_b
            seller_price == IF w.side_a THEN w.price_b ELSE w.price_a
        IN /\ le(seller_price, w.match_price) /\ le(w.match_price, buyer_price)
           /\ le(w.match_size, w.size_a) /\ le(w.match_size, w.size_b)
  BY <1>3, <1>4, Zenon DEF generate_constraints
<1>6. \A a, b \in Amounts : le(a, b) <=> a <= b
  BY LeDecides DEF Amounts
<1>7. le(w.match_size, w.size_a) /\ le(w.match_size, w.size_b) /\ le(f.tick, f.tick)
  <2>1. f.tick <= f.tick
    BY <1>1, AmountsAre
  <2> QED BY <1>1, <1>2, <1>6, <2>1
<1>8. CASE s.buy
  <2>1. generate_constraints(c) <=> le(f.tick, s.tick)
    BY <1>2, <1>5, <1>7, <1>8
  <2>2. BeyondLimit(w) <=> f.tick > s.tick
    BY <1>2, <1>8 DEF BeyondLimit
  <2>3. le(f.tick, s.tick) <=> f.tick <= s.tick
    BY <1>1, <1>6
  <2>4. f.tick <= s.tick <=> ~(f.tick > s.tick)
    BY <1>1, AmountsAre
  <2> QED BY <1>2, <2>1, <2>2, <2>3, <2>4 DEF w, c
<1>9. CASE ~ s.buy
  <2>1. generate_constraints(c) <=> le(s.tick, f.tick)
    BY <1>2, <1>5, <1>7, <1>9
  <2>2. BeyondLimit(w) <=> f.tick < s.tick
    BY <1>2, <1>9 DEF BeyondLimit
  <2>3. le(s.tick, f.tick) <=> s.tick <= f.tick
    BY <1>1, <1>6
  <2>4. s.tick <= f.tick <=> ~(f.tick < s.tick)
    BY <1>1, AmountsAre
  <2> QED BY <1>2, <2>1, <2>2, <2>3, <2>4 DEF w, c
<1> QED BY <1>8, <1>9

\* The padding of a short chunk is always accepted.
LEMMA PaddingHolds == generate_constraints(padding_match)
<1> DEFINE w == [side_a |-> TRUE, price_a |-> 0, size_a |-> 0, side_b |-> FALSE,
                 price_b |-> 0, size_b |-> 0, match_price |-> 0, match_size |-> 0]
           c == MatchCircuit(w)
<1>1. /\ w.side_a = TRUE /\ w.side_b = FALSE /\ w.price_a = 0 /\ w.price_b = 0
      /\ w.match_price = 0 /\ w.match_size = 0 /\ w.size_a = 0 /\ w.size_b = 0
  BY Zenon
<1>2. padding_match = c
  BY Zenon DEF padding_match
<1>3. c.witness = w /\ c.cmt_a = <<w.side_a, w.price_a, w.size_a>> /\ c.cmt_b = <<w.side_b, w.price_b, w.size_b>>
  BY DEF MatchCircuit
<1> HIDE DEF w, c
<1>4. le(0, 0)
  <2>1. 0 \in 0..(FieldModulus - 1) /\ 0 <= 0
    BY FieldSizes
  <2> QED BY <2>1, LeDecides
<1>5. w.side_a # w.side_b
  BY <1>1
<1>6. generate_constraints(c) <=>
        LET buyer_price  == IF w.side_a THEN w.price_a ELSE w.price_b
            seller_price == IF w.side_a THEN w.price_b ELSE w.price_a
        IN /\ le(seller_price, w.match_price) /\ le(w.match_price, buyer_price)
           /\ le(w.match_size, w.size_a) /\ le(w.match_size, w.size_b)
  BY <1>3, <1>5, Zenon DEF generate_constraints
<1> QED BY <1>1, <1>2, <1>4, <1>6

\* A chunk is proved exactly when none of its fills is beyond the taker's limit.
LEMMA ChunkDecided ==
  ASSUME NEW s \in Sweeps, NEW fs, FillsSound(fs), NEW chunk \in Seq(WitnessesOf(s, fs)),
         Len(chunk) <= MAX_BATCH_SIZE
  PROVE  /\ generate_batch_match_proof(chunk) <=> \A i \in DOMAIN chunk : ~ BeyondLimit(chunk[i])
         /\ \A i \in DOMAIN chunk : chunk[i].match_size <= chunk[i].size_a /\ chunk[i].match_size <= chunk[i].size_b
<1>1. DOMAIN chunk = 1..Len(chunk) /\ Len(chunk) \in Nat /\ DOMAIN fs = 1..Len(fs)
  BY DEF FillsSound
<1>2. \A i \in DOMAIN chunk : \E j \in 1..Len(fs) : chunk[i] = Witness(s, fs[j])
  <2> TAKE i \in DOMAIN chunk
  <2>1. chunk[i] \in WitnessesOf(s, fs)
    <3> DEFINE U == WitnessesOf(s, fs)
    <3>1. chunk \in Seq(U)
      OBVIOUS
    <3> HIDE DEF U
    <3>2. chunk[i] \in U
      BY <3>1
    <3> QED BY <3>2 DEF U
  <2> QED BY <1>1, <2>1, Zenon DEF WitnessesOf
<1>3. \A j \in 1..Len(fs) : fs[j] \in FillSet /\ fs[j].qty <= fs[j].maker_size_before /\ fs[j].qty <= fs[j].taker_size_before
  BY DEF FillsSound
<1>4. \A i \in DOMAIN chunk :
        /\ generate_constraints(MatchCircuit(chunk[i])) <=> ~ BeyondLimit(chunk[i])
        /\ chunk[i].match_size <= chunk[i].size_a /\ chunk[i].match_size <= chunk[i].size_b
  <2> TAKE i \in DOMAIN chunk
  <2>1. PICK j \in 1..Len(fs) : chunk[i] = Witness(s, fs[j])
    BY <1>2
  <2>2. LET w == Witness(s, fs[j]) IN
         /\ generate_constraints(MatchCircuit(w)) <=> ~ BeyondLimit(w)
         /\ w.match_size <= w.size_a /\ w.match_size <= w.size_b
    BY <1>3, WitnessDecided
  <2> QED BY <2>1, <2>2
<1>5. \A i \in 1..MAX_BATCH_SIZE : generate_constraints(BatchCircuit(chunk)[i]) <=>
                                     (i \in DOMAIN chunk => ~ BeyondLimit(chunk[i]))
  <2> TAKE i \in 1..MAX_BATCH_SIZE
  <2>1. BatchCircuit(chunk)[i] = IF i <= Len(chunk) THEN MatchCircuit(chunk[i]) ELSE padding_match
    BY Zenon DEF BatchCircuit
  <2>2. i <= Len(chunk) <=> i \in DOMAIN chunk
    BY <1>1, BatchSize
  <2>3. CASE i \in DOMAIN chunk
    BY <1>4, <2>1, <2>2, <2>3
  <2>4. CASE i \notin DOMAIN chunk
    BY <2>1, <2>2, <2>4, PaddingHolds
  <2> QED BY <2>3, <2>4
<1>6. \A i \in DOMAIN chunk : i \in 1..MAX_BATCH_SIZE
  BY <1>1, BatchSize
<1>7. generate_batch_match_proof(chunk) <=> \A i \in 1..MAX_BATCH_SIZE : generate_constraints(BatchCircuit(chunk)[i])
  BY DEF generate_batch_match_proof
<1> QED BY <1>4, <1>5, <1>6, <1>7

\* The slot that holds a witness, found by division.
LEMMA SlotFilled ==
  ASSUME NEW ws, Len(ws) \in Nat, NEW cs, Len(cs) \in Nat, ChunksOf(cs, ws), NEW j \in 1..Len(ws)
  PROVE  LET k == ((j - 1) \div MAX_BATCH_SIZE) + 1
             m == ((j - 1) % MAX_BATCH_SIZE) + 1
         IN k \in 1..Len(cs) /\ m \in 1..Len(cs[k]) /\ cs[k][m] = ws[j] /\ SlotAt(k, m) = j
<1> DEFINE k == ((j - 1) \div MAX_BATCH_SIZE) + 1
           m == ((j - 1) % MAX_BATCH_SIZE) + 1
<1>1. j \in Nat \ {0}
  OBVIOUS
<1>2. k \in Nat \ {0} /\ m \in 1..MAX_BATCH_SIZE /\ SlotAt(k, m) = j
  BY <1>1, SlotParts
<1> HIDE DEF k, m
<1>3. PICK l \in 1..Len(cs) : \E n \in 1..Len(cs[l]) : SlotAt(l, n) = j
  BY DEF ChunksOf
<1>8. PICK n \in 1..Len(cs[l]) : SlotAt(l, n) = j
  BY <1>3
<1>4. Len(cs[l]) \in 1..MAX_BATCH_SIZE
  BY <1>3 DEF ChunksOf
<1>5. n \in 1..MAX_BATCH_SIZE /\ l \in Int /\ k \in Int
  BY <1>2, <1>4, BatchSize
<1>6. k = l /\ m = n
  BY <1>2, <1>5, <1>8, SlotUnique
<1>7. cs[l][n] = ws[SlotAt(l, n)]
  BY <1>3 DEF ChunksOf
<1> QED BY <1>2, <1>6, <1>7, <1>8 DEF k, m

Places(cs) == {p \in (1..Len(cs)) \X (1..MAX_BATCH_SIZE) : p[2] \in 1..Len(cs[p[1]])}

\* There are as many filled slots as witnesses.
LEMMA PlacesCounted ==
  ASSUME NEW ws, Len(ws) \in Nat, NEW cs, Len(cs) \in Nat, ChunksOf(cs, ws)
  PROVE  Cardinality(Places(cs)) = Len(ws)
<1> DEFINE N == Len(ws)
           at(j) == ((j - 1) \div MAX_BATCH_SIZE) + 1
           slot(j) == ((j - 1) % MAX_BATCH_SIZE) + 1
           f == [j \in 1..N |-> <<at(j), slot(j)>>]
           Q == Places(cs)
<1>1. \A j \in 1..N : at(j) \in 1..Len(cs) /\ slot(j) \in 1..Len(cs[at(j)]) /\ SlotAt(at(j), slot(j)) = j
  BY SlotFilled
<1>2. \A k \in 1..Len(cs) : /\ Len(cs[k]) \in 1..MAX_BATCH_SIZE
                            /\ \A m \in 1..Len(cs[k]) : SlotAt(k, m) \in 1..N
  BY DEF ChunksOf
<1> HIDE DEF at, slot
<1>3. \A j \in 1..N : f[j] \in Q
  <2> TAKE j \in 1..N
  <2>1. at(j) \in 1..Len(cs) /\ slot(j) \in 1..Len(cs[at(j)]) /\ Len(cs[at(j)]) \in 1..MAX_BATCH_SIZE
    BY <1>1, <1>2
  <2>2. slot(j) \in 1..MAX_BATCH_SIZE
    BY <2>1, BatchSize
  <2> QED BY <2>1, <2>2 DEF Places
<1>4. \A i, j \in 1..N : f[i] = f[j] => i = j
  <2> TAKE i \in 1..N, j \in 1..N
  <2> HAVE f[i] = f[j]
  <2>1. at(i) = at(j) /\ slot(i) = slot(j)
    OBVIOUS
  <2> QED BY <1>1, <2>1
<1>5. \A p \in Q : \E j \in 1..N : f[j] = p
  <2> TAKE p \in Q
  <2>1. p[1] \in 1..Len(cs) /\ p[2] \in 1..Len(cs[p[1]]) /\ p = <<p[1], p[2]>> /\ p[2] \in 1..MAX_BATCH_SIZE
    BY DEF Places
  <2> DEFINE j == SlotAt(p[1], p[2])
  <2>2. j \in 1..N
    BY <1>2, <2>1
  <2> HIDE DEF j
  <2>3. at(j) \in 1..Len(cs) /\ slot(j) \in 1..Len(cs[at(j)]) /\ SlotAt(at(j), slot(j)) = SlotAt(p[1], p[2])
    BY <1>1, <2>2 DEF j
  <2>4. at(j) \in Int /\ p[1] \in Int /\ slot(j) \in 1..MAX_BATCH_SIZE
    <3>1. Len(cs[at(j)]) \in 1..MAX_BATCH_SIZE
      BY <1>2, <2>3
    <3> QED BY <2>1, <2>3, <3>1, BatchSize
  <2>5. at(j) = p[1] /\ slot(j) = p[2]
    BY <2>1, <2>3, <2>4, SlotUnique
  <2> QED BY <2>1, <2>2, <2>5
<1>6. f \in [1..N -> Q]
  <2> HIDE DEF Q, N
  <2>1. f = [j \in 1..N |-> f[j]]
    OBVIOUS
  <2> QED BY <1>3, <2>1
<1> HIDE DEF f, Q, N
<1>7. f \in Bijection(1..N, Q)
  BY <1>4, <1>5, <1>6 DEF Bijection, Injection, Surjection, IsInjective
<1>8. ExistsBijection(1..N, Q)
  BY <1>7 DEF ExistsBijection
<1>9. N \in Nat
  BY DEF N
<1> QED BY <1>8, <1>9, FS_CountingElements DEF N, Q

-----------------------------------------------------------------------------
(* The tasks of a sweep *)

Job(cs, k) == [at |-> k, chunk |-> cs[k]]

JobDone(cs, k) == [at |-> k, chunk |-> cs[k], proved |-> generate_batch_match_proof(cs[k])]

\* Every chunk of the sweep's witnesses is being proved or has ended.
JobsOf(cs, T, E) ==
  /\ \A t \in T : \E k \in 1..Len(cs) : t = Job(cs, k)
  /\ \A e \in E : \E k \in 1..Len(cs) : e = JobDone(cs, k)
  /\ \A k \in 1..Len(cs) : Job(cs, k) \in T \/ JobDone(cs, k) \in E

\* The taker is gone: its chunks are those of some sweep with these fills.
Spawned == \E s \in Sweeps : JobsOf(chunk_for_batching(Provable(s, fills)), tasks, ended)

\* A sweep's fills are sound; it has no tasks until it ends and is spawned; and
\* the margin's verdict is exact.
SweepInv ==
  /\ FillsSound(fills)
  /\ \/ sweep \in Sweeps /\ tasks = {} /\ ended = {}
     \/ sweep = NoSweep /\ Spawned
  /\ ClaimExact(margin)

LEMMA SweepKinds == NoSweep.left = 0 /\ \A s \in Sweeps : s # NoSweep /\ s.left \in Amounts
<1>1. NoSweep.left = 0 /\ NoSweep.tif = "none"
  BY DEF NoSweep
<1>2. \A s \in Sweeps : s.tif \in {"ioc", "fok", "gtc"} /\ s.left \in Amounts
  BY DEF Sweeps
<1>3. "none" \notin {"ioc", "fok", "gtc"}
  OBVIOUS
<1> QED BY <1>1, <1>2, <1>3

\* The chunks of a sweep's fills are those of their witnesses.
LEMMA SweepChunks ==
  ASSUME NEW s, NEW fs, FillsSound(fs)
  PROVE  LET ws == Provable(s, fs)
             cs == chunk_for_batching(ws)
             U == WitnessesOf(s, fs)
         IN /\ ws \in Seq(U) /\ Len(ws) \in Nat /\ Cardinality(Large(fs)) = Len(ws)
            /\ \A i \in Large(fs) : /\ Before(fs, i) \in Nat /\ Before(fs, i) + 1 \in 1..Len(ws)
                                    /\ ws[Before(fs, i) + 1] = Witness(s, fs[i])
            /\ ChunksOf(cs, ws) /\ Len(cs) \in Nat
            /\ \A k \in 1..Len(cs) : cs[k] \in Seq(U) /\ Len(cs[k]) \in 1..MAX_BATCH_SIZE
<1> DEFINE N == Len(fs)
           ws == Provable(s, fs)
           cs == chunk_for_batching(ws)
           U == WitnessesOf(s, fs)
           S == Seq(U)
<1>1. N \in Nat /\ DOMAIN fs = 1..N /\ Len(fs) = N
  BY DEF FillsSound
<1> HIDE DEF N
<1>2. /\ ws \in Seq(U) /\ Cardinality(Large(fs)) = Len(ws)
      /\ \A i \in Large(fs) : /\ Before(fs, i) \in Nat /\ Before(fs, i) + 1 \in 1..Len(ws)
                              /\ ws[Before(fs, i) + 1] = Witness(s, fs[i])
  BY <1>1, ProvableAre
<1> HIDE DEF U, ws
<1>3. cs \in Seq(S) /\ ChunksOf(cs, ws)
  BY <1>2, ChunksAre
<1> HIDE DEF cs, S
<1>4. Len(cs) \in Nat /\ \A k \in 1..Len(cs) : cs[k] \in S
  BY <1>3
<1>5. \A k \in 1..Len(cs) : Len(cs[k]) \in 1..MAX_BATCH_SIZE
  BY <1>3 DEF ChunksOf
<1>6. Len(ws) \in Nat
  BY <1>2
<1> QED BY <1>2, <1>3, <1>4, <1>5, <1>6 DEF cs, ws, U, S

\* No fills, no chunks.
LEMMA NoChunksAtStart ==
  ASSUME NEW s, NEW fs, fs = <<>>
  PROVE  ~ \E k \in 1..Len(chunk_for_batching(Provable(s, fs))) : TRUE
<1> DEFINE ws == Provable(s, fs)
           cs == chunk_for_batching(ws)
<1>1. FillsSound(fs)
  BY DEF FillsSound
<1>2. /\ Cardinality(Large(fs)) = Len(ws) /\ ChunksOf(cs, ws) /\ Len(cs) \in Nat
      /\ \A k \in 1..Len(cs) : Len(cs[k]) \in 1..MAX_BATCH_SIZE
  BY <1>1, SweepChunks
<1>3. Large(fs) = {}
  BY DEF Large
<1>4. Len(ws) = 0
  BY <1>2, <1>3, FS_EmptySet
<1> HIDE DEF cs, ws
<1>5. ~ \E k \in 1..Len(cs) : TRUE
  <2> SUFFICES ASSUME NEW k \in 1..Len(cs) PROVE FALSE
    OBVIOUS
  <2>1. 1 \in 1..Len(cs[k])
    BY <1>2, BatchSize
  <2>2. SlotAt(k, 1) \in 1..Len(ws)
    BY <1>2, <2>1 DEF ChunksOf
  <2> QED BY <1>4, <2>2
<1> QED BY <1>5 DEF cs, ws

LEMMA SweepStart == ProofInit => SweepInv
<1> SUFFICES ASSUME ProofInit PROVE SweepInv
  OBVIOUS
<1>1. sweep = NoSweep /\ fills = <<>> /\ tasks = {} /\ ended = {} /\ margin = NoClaim
  BY DEF ProofInit
<1>2. FillsSound(fills)
  BY <1>1 DEF FillsSound
<1>3. PICK s \in Sweeps : TRUE
  <2>1. [buy |-> TRUE, tick |-> 0, tif |-> "ioc", left |-> 0] \in Sweeps
    BY AmountsAre DEF Sweeps
  <2> QED BY <2>1
<1> DEFINE cs == chunk_for_batching(Provable(s, fills))
<1>4. ~ \E k \in 1..Len(cs) : TRUE
  BY <1>1, NoChunksAtStart
<1> HIDE DEF cs
<1>5. JobsOf(cs, tasks, ended)
  BY <1>1, <1>4 DEF JobsOf
<1>6. Spawned
  BY <1>3, <1>5 DEF Spawned, cs
<1> QED BY <1>1, <1>2, <1>6, NoClaimExact DEF SweepInv

\* A fill for no more than either side had keeps the fills sound.
LEMMA PushSound ==
  ASSUME NEW fs, FillsSound(fs), NEW f \in FillSet,
         f.qty <= f.maker_size_before, f.qty <= f.taker_size_before
  PROVE  FillsSound(Append(fs, f))
<1> DEFINE N == Len(fs)
           gs == Append(fs, f)
<1>1. fs \in Seq(FillSet) /\ N \in Nat
  BY DEF FillsSound
<1>2. gs \in Seq(FillSet) /\ Len(gs) = N + 1 /\ gs[N + 1] = f /\ \A i \in 1..N : gs[i] = fs[i]
  BY <1>1
<1> HIDE DEF gs
<1>3. \A i \in 1..Len(gs) : gs[i].qty <= gs[i].maker_size_before /\ gs[i].qty <= gs[i].taker_size_before
  <2> TAKE i \in 1..Len(gs)
  <2>1. CASE i = N + 1
    BY <1>2, <2>1
  <2>2. CASE i # N + 1
    <3>1. i \in 1..N
      BY <1>1, <1>2, <2>2
    <3> QED BY <1>2, <3>1 DEF FillsSound
  <2> QED BY <2>1, <2>2
<1> QED BY <1>2, <1>3 DEF FillsSound, gs

LEMMA PushKeeps ==
  ASSUME SweepInv, sweep.left > 0, NEW tick \in Amounts, NEW qty \in Amounts, NEW size \in Amounts,
         NEW backstop \in BOOLEAN, qty <= size, qty <= sweep.left, PushFill(tick, qty, size, backstop)
  PROVE  SweepInv'
<1> DEFINE f == [tick |-> tick, qty |-> qty, backstop |-> backstop, maker_size_before |-> size,
                 taker_size_before |-> sweep.left]
<1>1. sweep \in Sweeps /\ tasks = {} /\ ended = {}
  <2>1. sweep # NoSweep
    BY SweepKinds
  <2> QED BY <2>1 DEF SweepInv
<1>2. sweep.left \in Amounts
  BY <1>1, SweepKinds
<1>3. f \in FillSet /\ f.qty = qty /\ f.maker_size_before = size /\ f.taker_size_before = sweep.left
  BY <1>2 DEF FillSet
<1> HIDE DEF f
<1>4. FillsSound(Append(fills, f))
  BY <1>3, PushSound DEF SweepInv
<1>5. fills' = Append(fills, f) /\ sweep' = [sweep EXCEPT !.left = @ - qty]
      /\ tasks' = tasks /\ ended' = ended /\ margin' = margin
  BY Zenon DEF PushFill, f
<1>6. sweep.left - qty \in Amounts
  BY <1>2, FieldSizes DEF Amounts
<1>7. sweep' \in Sweeps
  BY <1>1, <1>5, <1>6 DEF Sweeps
<1> QED BY <1>1, <1>4, <1>5, <1>7 DEF SweepInv, ClaimExact

LEMMA SpawnKeeps ==
  ASSUME SweepInv, SpawnProofs
  PROVE  SweepInv'
<1>1. sweep \in Sweeps /\ ended = {}
  BY DEF SweepInv, SpawnProofs
<1>2. PICK s \in Sweeps : s = sweep
  BY <1>1
<1>3. PICK fs : fs = fills
  OBVIOUS
<1> DEFINE cs == chunk_for_batching(Provable(s, fs))
<1>4. tasks' = {[at |-> k, chunk |-> cs[k]] : k \in 1..Len(cs)}
  BY <1>2, <1>3, ProvableFills, Zenon DEF SpawnProofs
<1>5. sweep' = NoSweep /\ fills' = fs /\ ended' = {} /\ margin' = margin
  BY <1>1, <1>3 DEF SpawnProofs
<1> HIDE DEF cs
<1>6. tasks' = {Job(cs, k) : k \in 1..Len(cs)}
  BY <1>4 DEF Job
<1>7. JobsOf(cs, tasks', ended')
  BY <1>5, <1>6 DEF JobsOf
<1>8. Spawned'
  BY <1>2, <1>5, <1>7 DEF Spawned, cs
<1> QED BY <1>3, <1>5, <1>8 DEF SweepInv, ClaimExact

LEMMA EndKeeps ==
  ASSUME SweepInv, NEW t \in tasks, EndProof(t)
  PROVE  SweepInv'
<1> DEFINE d == [at |-> t.at, chunk |-> t.chunk, proved |-> generate_batch_match_proof(t.chunk)]
<1>1. sweep = NoSweep /\ Spawned
  BY DEF SweepInv
<1>2. PICK fs : fs = fills
  OBVIOUS
<1>3. PICK s \in Sweeps : JobsOf(chunk_for_batching(Provable(s, fs)), tasks, ended)
  BY <1>1, <1>2 DEF Spawned
<1> DEFINE cs == chunk_for_batching(Provable(s, fs))
<1>4. JobsOf(cs, tasks, ended)
  BY <1>3
<1>5. tasks' = tasks \ {t} /\ ended' = ended \union {d} /\ sweep' = sweep /\ fills' = fills /\ margin' = margin
  BY Zenon DEF EndProof
<1> HIDE DEF cs
<1>6. PICK k \in 1..Len(cs) : t = Job(cs, k)
  BY <1>4 DEF JobsOf
<1>7. t.at = k /\ t.chunk = cs[k]
  BY <1>6 DEF Job
<1>8. d = JobDone(cs, k)
  BY <1>7, Zenon DEF JobDone
<1> HIDE DEF d
<1>9. JobsOf(cs, tasks', ended')
  <2>1. \A u \in tasks' : \E l \in 1..Len(cs) : u = Job(cs, l)
    BY <1>4, <1>5 DEF JobsOf
  <2>2. \A e \in ended' : \E l \in 1..Len(cs) : e = JobDone(cs, l)
    BY <1>4, <1>5, <1>8 DEF JobsOf
  <2>3. ASSUME NEW l \in 1..Len(cs) PROVE Job(cs, l) \in tasks' \/ JobDone(cs, l) \in ended'
    <3>1. CASE l = k
      BY <1>5, <1>8, <3>1
    <3>2. CASE l # k
      <4>1. Job(cs, l).at = l
        BY DEF Job
      <4>2. Job(cs, l) # t
        BY <1>7, <3>2, <4>1
      <4> QED BY <1>4, <1>5, <4>2 DEF JobsOf
    <3> QED BY <3>1, <3>2
  <2> QED BY <2>1, <2>2, <2>3 DEF JobsOf
<1>10. fills' = fs /\ sweep' = NoSweep
  BY <1>1, <1>2, <1>5
<1>11. Spawned'
  BY <1>3, <1>9, <1>10 DEF Spawned, cs
<1> QED BY <1>5, <1>10, <1>11 DEF SweepInv, ClaimExact

LEMMA BeginKeeps ==
  ASSUME SweepInv, NEW buy \in BOOLEAN, NEW tick \in ProofTicks, NEW tif \in {"ioc", "fok", "gtc"},
         NEW qty \in SweepQtys, BeginSweep(buy, tick, tif, qty)
  PROVE  SweepInv'
<1>1. sweep = NoSweep /\ fills = <<>> /\ tasks = {} /\ Spawned
  BY SweepKinds DEF BeginSweep, SweepInv
<1>2. PICK s \in Sweeps : JobsOf(chunk_for_batching(Provable(s, fills)), tasks, ended)
  BY <1>1 DEF Spawned
<1> DEFINE cs == chunk_for_batching(Provable(s, fills))
<1>3. ~ \E k \in 1..Len(cs) : TRUE
  BY <1>1, NoChunksAtStart
<1>4. JobsOf(cs, tasks, ended)
  BY <1>2
<1> HIDE DEF cs
<1>5. ended = {}
  BY <1>3, <1>4 DEF JobsOf
<1>6. /\ sweep' = [buy |-> buy, tick |-> tick, tif |-> tif, left |-> qty] /\ margin' = NoClaim
      /\ fills' = fills /\ tasks' = tasks /\ ended' = ended
  BY DEF BeginSweep
<1>7. tick \in Amounts /\ qty \in Amounts
  BY AmountsAre
<1>8. sweep' \in Sweeps
  BY <1>6, <1>7 DEF Sweeps
<1>9. FillsSound(fills')
  BY <1>6 DEF SweepInv
<1>10. ClaimExact(margin')
  BY <1>6, NoClaimExact
<1> QED BY <1>1, <1>5, <1>6, <1>8, <1>9, <1>10 DEF SweepInv, ClaimExact

\* SweepInv is inductive: one lemma above for every kind of step.
LEMMA SweepStep == SweepInv /\ [ProofNext]_proofVars => SweepInv'
<1> SUFFICES ASSUME SweepInv, [ProofNext]_proofVars PROVE SweepInv'
  OBVIOUS
<1>1. ASSUME NEW buy \in BOOLEAN, NEW tick \in ProofTicks, NEW tif \in {"ioc", "fok", "gtc"},
             NEW qty \in SweepQtys, BeginSweep(buy, tick, tif, qty)
      PROVE SweepInv'
  BY <1>1, BeginKeeps
<1>2. ASSUME NEW tick \in ProofTicks, NEW size \in MakerSizes, BookFill(tick, size)
      PROVE SweepInv'
  <2> DEFINE qty == IF size < sweep.left THEN size ELSE sweep.left
  <2>1. sweep.left > 0 /\ PushFill(tick, qty, size, FALSE)
    BY <1>2 DEF BookFill
  <2>2. sweep.left \in Amounts
    BY <2>1, SweepKinds DEF SweepInv
  <2>3. tick \in Amounts /\ size \in Amounts
    BY AmountsAre
  <2>4. qty \in Amounts /\ qty <= size /\ qty <= sweep.left
    BY <2>2, <2>3, AmountsAre
  <2> HIDE DEF qty
  <2>5. FALSE \in BOOLEAN
    OBVIOUS
  <2> QED BY <2>1, <2>3, <2>4, <2>5, PushKeeps
<1>3. ASSUME NEW tick \in ProofTicks, NEW filled \in 1..sweep.left, BackstopFill(tick, filled)
      PROVE SweepInv'
  <2>1. sweep.left > 0 /\ PushFill(tick, filled, filled, TRUE)
    BY <1>3 DEF BackstopFill
  <2>2. sweep.left \in Amounts
    BY <2>1, SweepKinds DEF SweepInv
  <2>3. tick \in Amounts
    BY AmountsAre
  <2>4. filled \in Amounts /\ filled <= filled /\ filled <= sweep.left
    BY <2>2, FieldSizes DEF Amounts
  <2>5. TRUE \in BOOLEAN
    OBVIOUS
  <2> QED BY <2>1, <2>3, <2>4, <2>5, PushKeeps
<1>4. ASSUME SpawnProofs PROVE SweepInv'
  BY <1>4, SpawnKeeps
<1>5. ASSUME NEW t \in tasks, EndProof(t) PROVE SweepInv'
  BY <1>5, EndKeeps
<1>6. ASSUME NEW a \in MarginSizes, NEW b \in MarginSizes, NEW trusted \in TrustedTerms,
             NEW m \in 0..(FieldModulus - 1), CheckMargin(a, b, trusted, m)
      PROVE SweepInv'
  <2>1. ClaimExact(margin')
    BY <1>6, CheckedMargin
  <2>2. sweep' = sweep /\ fills' = fills /\ tasks' = tasks /\ ended' = ended
    BY <1>6 DEF CheckMargin
  <2> QED BY <2>1, <2>2 DEF SweepInv, Spawned, ClaimExact
<1>7. ASSUME UNCHANGED proofVars PROVE SweepInv'
  <2>1. sweep' = sweep /\ fills' = fills /\ tasks' = tasks /\ ended' = ended /\ margin' = margin
    BY <1>7 DEF proofVars
  <2> QED BY <2>1 DEF SweepInv, Spawned, ClaimExact
<1> QED BY <1>1, <1>2, <1>3, <1>4, <1>5, <1>6, <1>7, Zenon DEF ProofNext

\* A job is known by its place: no chunk ends twice.
LEMMA EndedFacts ==
  ASSUME NEW cs, NEW E, JobsOf(cs, {}, E)
  PROVE  /\ \A k \in 1..Len(cs) : JobDone(cs, k) \in E
         /\ E = {JobDone(cs, k) : k \in 1..Len(cs)}
         /\ \A k \in 1..Len(cs) : JobDone(cs, k).at = k /\ JobDone(cs, k).chunk = cs[k]
         /\ \A k \in 1..Len(cs) : JobDone(cs, k).proved = generate_batch_match_proof(cs[k])
<1>1. \A k \in 1..Len(cs) : JobDone(cs, k) \in E
  BY DEF JobsOf
<1>2. \A e \in E : \E k \in 1..Len(cs) : e = JobDone(cs, k)
  BY DEF JobsOf
<1>3. \A k \in 1..Len(cs) : JobDone(cs, k).at = k /\ JobDone(cs, k).chunk = cs[k]
  BY Zenon DEF JobDone
<1>4. \A k \in 1..Len(cs) : JobDone(cs, k).proved = generate_batch_match_proof(cs[k])
  BY Zenon DEF JobDone
<1> QED BY <1>1, <1>2, <1>3, <1>4

\* The slots that the ended chunks fill.
LEMMA UsedArePlaces ==
  ASSUME NEW cs, NEW E, JobsOf(cs, {}, E), \A k \in 1..Len(cs) : DOMAIN cs[k] = 1..Len(cs[k])
  PROVE  LET slots == {<<e.at, i>> : e \in E, i \in 1..MAX_BATCH_SIZE}
         IN {s \in slots : \E e \in E : e.at = s[1] /\ s[2] \in DOMAIN e.chunk} = Places(cs)
<1> DEFINE slots == {<<e.at, i>> : e \in E, i \in 1..MAX_BATCH_SIZE}
           used == {s \in slots : \E e \in E : e.at = s[1] /\ s[2] \in DOMAIN e.chunk}
<1>1. /\ \A k \in 1..Len(cs) : JobDone(cs, k) \in E
      /\ \A e \in E : \E k \in 1..Len(cs) : e = JobDone(cs, k)
      /\ \A k \in 1..Len(cs) : JobDone(cs, k).at = k /\ JobDone(cs, k).chunk = cs[k]
  BY EndedFacts DEF JobsOf
<1>2. ASSUME NEW s \in used PROVE s \in Places(cs)
  <2>1. PICK e \in E, i \in 1..MAX_BATCH_SIZE : s = <<e.at, i>>
    OBVIOUS
  <2>2. PICK d \in E : d.at = s[1] /\ s[2] \in DOMAIN d.chunk
    OBVIOUS
  <2>3. PICK k \in 1..Len(cs) : d = JobDone(cs, k)
    BY <1>1
  <2>4. d.at = k /\ d.chunk = cs[k]
    BY <1>1, <2>3
  <2>5. s[1] = e.at /\ s[2] = i
    BY <2>1
  <2>6. s = <<k, i>> /\ i \in 1..Len(cs[k])
    BY <2>1, <2>2, <2>4, <2>5
  <2> QED BY <2>6 DEF Places
<1>3. ASSUME NEW s \in Places(cs) PROVE s \in used
  <2>1. s[1] \in 1..Len(cs) /\ s[2] \in 1..MAX_BATCH_SIZE /\ s[2] \in 1..Len(cs[s[1]]) /\ s = <<s[1], s[2]>>
    BY DEF Places
  <2> DEFINE k == s[1]
             e == JobDone(cs, k)
  <2>2. e \in E /\ e.at = k /\ e.chunk = cs[k]
    BY <1>1, <2>1
  <2> HIDE DEF e
  <2>3. s \in slots
    BY <2>1, <2>2
  <2>4. s[2] \in DOMAIN e.chunk
    BY <2>1, <2>2
  <2> QED BY <2>2, <2>3, <2>4
<1> QED BY <1>2, <1>3

\* The circuit's verdict on the chunks E is that of the numbers.
SweepDecided(E) ==
  \A e \in E :
    /\ e.proved <=> \A i \in DOMAIN e.chunk : ~ BeyondLimit(e.chunk[i])
    /\ \A i \in DOMAIN e.chunk : e.chunk[i].match_size <= e.chunk[i].size_a
                                 /\ e.chunk[i].match_size <= e.chunk[i].size_b

LEMMA SweepEach == SweepInv => SweepDecided(ended)
<1> SUFFICES ASSUME SweepInv, NEW e \in ended PROVE SweepDecided({e})
  BY DEF SweepDecided
<1>1. Spawned /\ FillsSound(fills)
  BY DEF SweepInv
<1>2. PICK s \in Sweeps : JobsOf(chunk_for_batching(Provable(s, fills)), tasks, ended)
  BY <1>1 DEF Spawned
<1> DEFINE cs == chunk_for_batching(Provable(s, fills))
<1>3. \A k \in 1..Len(cs) : cs[k] \in Seq(WitnessesOf(s, fills)) /\ Len(cs[k]) \in 1..MAX_BATCH_SIZE
  BY <1>1, SweepChunks
<1>4. JobsOf(cs, tasks, ended)
  BY <1>2
<1> HIDE DEF cs
<1>5. PICK k \in 1..Len(cs) : e = JobDone(cs, k)
  BY <1>4 DEF JobsOf
<1>6. e.chunk = cs[k] /\ e.proved = generate_batch_match_proof(cs[k])
  BY <1>5, Zenon DEF JobDone
<1>7. PICK c : c = cs[k]
  OBVIOUS
<1>8. c \in Seq(WitnessesOf(s, fills)) /\ Len(c) <= MAX_BATCH_SIZE
  BY <1>3, <1>7, BatchSize
<1>9. /\ generate_batch_match_proof(c) <=> \A i \in DOMAIN c : ~ BeyondLimit(c[i])
      /\ \A i \in DOMAIN c : c[i].match_size <= c[i].size_a /\ c[i].match_size <= c[i].size_b
  BY <1>1, <1>8, ChunkDecided
<1> QED BY <1>6, <1>7, <1>9 DEF SweepDecided

LEMMA SweepDecides == SweepInv => CircuitDecidesTheMatch
BY SweepEach DEF SweepDecided, CircuitDecidesTheMatch

\* Every large fill has its slot, in a chunk proved unless beyond the limit.
LEMMA SweepProves == SweepInv => ProvedUnlessBackstopBeyondLimit
<1> SUFFICES ASSUME SweepInv, sweep = NoSweep, tasks = {}
             PROVE  OneSlotEach /\ \A i \in Provables : Stands(i)
  BY DEF ProvedUnlessBackstopBeyondLimit
<1>1. FillsSound(fills) /\ Spawned
  BY SweepKinds DEF SweepInv
<1>2. PICK s \in Sweeps : JobsOf(chunk_for_batching(Provable(s, fills)), tasks, ended)
  BY <1>1 DEF Spawned
<1> DEFINE ws == Provable(s, fills)
           cs == chunk_for_batching(ws)
<1>3. JobsOf(cs, {}, ended)
  BY <1>2
<1>4. /\ Len(ws) \in Nat /\ Cardinality(Large(fills)) = Len(ws)
      /\ \A i \in Large(fills) : /\ Before(fills, i) \in Nat /\ Before(fills, i) + 1 \in 1..Len(ws)
                                 /\ ws[Before(fills, i) + 1] = Witness(s, fills[i])
      /\ ChunksOf(cs, ws) /\ Len(cs) \in Nat
      /\ \A k \in 1..Len(cs) : cs[k] \in Seq(WitnessesOf(s, fills)) /\ Len(cs[k]) \in 1..MAX_BATCH_SIZE
  BY <1>1, SweepChunks
<1> HIDE DEF cs, ws
<1>5. Provables = Large(fills)
  BY DEF Provables, Large
<1>6. \A k \in 1..Len(cs) : DOMAIN cs[k] = 1..Len(cs[k])
  <2> DEFINE U == WitnessesOf(s, fills)
  <2>1. \A k \in 1..Len(cs) : cs[k] \in Seq(U)
    BY <1>4
  <2> HIDE DEF U
  <2> QED BY <2>1
<1>7. Cardinality(Places(cs)) = Len(ws)
  BY <1>4, PlacesCounted
<1>8. OneSlotEach
  <2> DEFINE slots == {<<e.at, i>> : e \in ended, i \in 1..MAX_BATCH_SIZE}
             used == {x \in slots : \E e \in ended : e.at = x[1] /\ x[2] \in DOMAIN e.chunk}
  <2>1. used = Places(cs)
    BY <1>3, <1>6, UsedArePlaces
  <2>2. Cardinality(used) = Cardinality(Provables)
    <3> HIDE DEF used
    <3> QED BY <1>4, <1>5, <1>7, <2>1
  <2> QED BY <2>2 DEF OneSlotEach
<1>9. SweepDecided(ended)
  BY SweepEach DEF SweepDecided
<1>10. ASSUME NEW i \in Provables PROVE Stands(i)
  <2> DEFINE j == Before(fills, i)
             k == (j \div MAX_BATCH_SIZE) + 1
             m == (j % MAX_BATCH_SIZE) + 1
             e == JobDone(cs, k)
  <2>1. j = Cardinality({p \in Provables : p < i})
    BY <1>5 DEF Before
  <2>2. j \in Nat /\ j + 1 \in 1..Len(ws) /\ ws[j + 1] = Witness(s, fills[i]) /\ (j + 1) - 1 = j
    BY <1>4, <1>5
  <2> HIDE DEF j
  <2>3. PICK q : q = j + 1
    OBVIOUS
  <2>4. q \in 1..Len(ws) /\ q - 1 = j
    BY <2>2, <2>3
  <2>5. LET a == ((q - 1) \div MAX_BATCH_SIZE) + 1
            b == ((q - 1) % MAX_BATCH_SIZE) + 1
        IN a \in 1..Len(cs) /\ b \in 1..Len(cs[a]) /\ cs[a][b] = ws[q]
    BY <1>4, <2>4, SlotFilled
  <2>6. k \in 1..Len(cs) /\ m \in 1..Len(cs[k]) /\ cs[k][m] = Witness(s, fills[i])
    BY <2>2, <2>3, <2>4, <2>5
  <2> HIDE DEF k, m
  <2>7. e \in ended /\ e.at = k /\ e.chunk = cs[k]
    BY <1>3, <2>6, EndedFacts
  <2> HIDE DEF e
  <2> DEFINE w == Witness(s, fills[i])
  <2>8. w.match_price = fills[i].tick /\ w.match_size = fills[i].qty
    BY Zenon DEF Witness
  <2> HIDE DEF w
  <2>9. e.proved <=> \A n \in DOMAIN e.chunk : ~ BeyondLimit(e.chunk[n])
    BY <1>9, <2>7 DEF SweepDecided
  <2>10. e.chunk[m] = w
    BY <2>6, <2>7 DEF w
  <2>11. /\ e \in ended /\ e.at = (j \div MAX_BATCH_SIZE) + 1
         /\ LET v == e.chunk[(j % MAX_BATCH_SIZE) + 1]
            IN /\ <<v.match_price, v.match_size>> = <<fills[i].tick, fills[i].qty>>
               /\ e.proved <=> \A n \in DOMAIN e.chunk : ~ BeyondLimit(e.chunk[n])
    BY <2>7, <2>8, <2>9, <2>10 DEF k, m
  <2> QED BY <2>1, <2>11, Zenon DEF Stands
<1> QED BY <1>8, <1>10

\* A match proof exists exactly for what may be claimed (proof.rs,
\* match_correctness.rs): once a sweep's tasks have ended each large fill stands in
\* one slot of one chunk, the chunk is proved unless the backstop filled beyond the
\* taker's limit, the circuit's verdict is that of the numbers; and the margin
\* circuit accepts the native margin and no other (margin_correctness.rs).
THEOREM ProofsAlwaysDecide == MCSpec => []ProofsDecide
<1>1. MCInit => SweepInv
  BY SweepStart DEF MCInit
<1>2. [MCNext]_allVars => [ProofNext]_proofVars
  BY DEF MCNext, allVars
<1>3. SweepInv /\ [ProofNext]_proofVars => SweepInv'
  BY SweepStep
<1>4. SweepInv => ProofsDecide
  <2>1. SweepInv => MarginClaimExact
    BY DEF SweepInv, ClaimExact, MarginClaimExact
  <2> QED BY <2>1, SweepProves, SweepDecides DEF ProofsDecide
<1> QED BY <1>1, <1>2, <1>3, <1>4, PTL DEF MCSpec
=============================================================================
