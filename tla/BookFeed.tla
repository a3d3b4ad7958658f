------------------------------ MODULE BookFeed ------------------------------
(***************************************************************************)
(* What a client sees of one side of a book (api.rs): each handler that    *)
(* changed the book looks up the market's broadcast channel, builds a      *)
(* snapshot under the book's mutex and sends it, as separate steps; a      *)
(* post_offer that is rejected changes the book too and sends nothing.  A  *)
(* subscriber on /ws/orderbook subscribes, sends the current snapshot and  *)
(* forwards what the channel brings, grouped into its own buckets.  The    *)
(* channel keeps a bounded number of messages and drops the oldest.        *)
(***************************************************************************)
EXTENDS Integers, Sequences, FiniteSets, FiniteSetsExt, Functions, SequencesExt

CONSTANTS
  FeedHandlers,
  FeedSide,                \* the side of the book that is modelled
  FeedTicks, FeedQtys,     \* prices, and quantities a level may be set to
  MAX_DEPTH_LEVELS,        \* 200 in the code
  Group,                   \* the subscriber's bucket, in ticks
  FeedCapacity,            \* of the channel, 64 in the code
  MaxMutations             \* bound

FeedSides == {"bids", "asks"}

ASSUME FeedAssumption ==
  /\ FeedSide \in FeedSides
  /\ IsFiniteSet(FeedTicks) /\ FeedTicks \subseteq Nat /\ FeedQtys \subseteq Nat
  /\ MAX_DEPTH_LEVELS \in Nat \ {0} /\ Group \in Nat \ {0} /\ FeedCapacity \in Nat \ {0}

VARIABLES
  feedLevels,   \* tick -> quantity
  feedStep,     \* handler -> its step, and the snapshot it has built
  feedQueue,    \* messages the subscriber has not received
  client,       \* "away", "subscribed" or "streaming"
  shown,        \* what the subscriber's screen shows
  mutations,    \* changes so far; stamps snapshots (history)
  said,         \* history: the last change of a handler that goes on to broadcast
  shownAt,      \* history: the stamp of what the screen shows
  newestSent,   \* history: the highest stamp sent
  overtaken     \* history: the last message sent was not the newest

feedVars == <<feedLevels, feedStep, feedQueue, client, shown, mutations, said, shownAt,
              newestSent, overtaken>>

Resting == [step |-> "idle"]

-----------------------------------------------------------------------------
(* Snapshots *)

\* Bids are listed from the highest tick, asks from the lowest.
Nearer(side, s, t) == IF side = "bids" THEN s > t ELSE s < t

FromTouch(side, ticks) ==
  CHOOSE f \in [1..Cardinality(ticks) -> ticks] :
    \A i, j \in DOMAIN f : i < j => Nearer(side, f[i], f[j])

\* The first levels from the touch, with their cumulative depth.
Depth(side, levels) ==
  LET ticks == FromTouch(side, {t \in FeedTicks : levels[t] > 0})
      near  == 1..Min({MAX_DEPTH_LEVELS, Len(ticks)})
      qty   == [k \in near |-> levels[ticks[k]]]
  IN [k \in near |->
        [tick |-> ticks[k], qty |-> qty[k], cumulative |-> SumFunctionOnSet(qty, 1..k)]]

Joined(last, level, cumulative) ==
  [last EXCEPT !.qty = @ + level.qty, !.cumulative = cumulative]

\* A level joins the newest bucket or opens the next one.
IntoBucket(acc, level, group) ==
  LET bucket == (level.tick \div group) * group
      sum    == acc.sum + level.qty
  IN [sum |-> sum,
      out |-> IF acc.out # <<>> /\ Last(acc.out).tick = bucket
              THEN Append(Front(acc.out), Joined(Last(acc.out), level, sum))
              ELSE Append(acc.out, [tick |-> bucket, qty |-> level.qty, cumulative |-> sum])]

\* One pass over levels in the order of the side.
group_levels(levels, group) ==
  IF group <= 1 THEN levels
  ELSE FoldLeft(LAMBDA acc, level : IntoBucket(acc, level, group), [sum |-> 0, out |-> <<>>], levels).out

build_orderbook_response == [levels |-> Depth(FeedSide, feedLevels), stamp |-> mutations]

-----------------------------------------------------------------------------
(* Handlers *)

FeedInit ==
  /\ feedLevels = [t \in FeedTicks |-> 0]
  /\ feedStep = [h \in FeedHandlers |-> Resting]
  /\ feedQueue = <<>> /\ client = "away" /\ shown = <<>>
  /\ mutations = 0 /\ said = 0 /\ shownAt = 0 /\ newestSent = 0 /\ overtaken = FALSE

\* post_order, post_offer or post_cancel changes a level under the books mutex,
\* and another in the same sweep or when it takes the mutex again for a rescue.
Mutate(h, t, q) ==
  /\ feedStep[h].step \in {"idle", "changed"} /\ feedLevels[t] # q
  /\ mutations < MaxMutations /\ mutations' = mutations + 1 /\ said' = mutations + 1
  /\ feedLevels' = [feedLevels EXCEPT ![t] = q]
  /\ feedStep' = [feedStep EXCEPT ![h] = [step |-> "changed"]]
  /\ UNCHANGED <<feedQueue, client, shown, shownAt, newestSent, overtaken>>

\* An offer is rejected for a live order at the touch, after submit dropped the
\* expired ones before it, and the handler returns ahead of the broadcast.
RejectOffer(t, q) ==
  /\ mutations < MaxMutations /\ mutations' = mutations + 1
  /\ q < feedLevels[t]
  /\ feedLevels' = [u \in FeedTicks |-> IF u = t THEN q
                                        ELSE IF Nearer(FeedSide, u, t) THEN 0 ELSE feedLevels[u]]
  /\ \E u \in FeedTicks : feedLevels'[u] > 0
  /\ UNCHANGED <<feedStep, feedQueue, client, shown, said, shownAt, newestSent, overtaken>>

\* broadcast_orderbook_update: without a channel there is nobody to tell.
LookUp(h) ==
  /\ feedStep[h].step = "changed"
  /\ feedStep' = [feedStep EXCEPT ![h] = IF client = "away" THEN Resting ELSE [step |-> "found"]]
  /\ UNCHANGED <<feedLevels, feedQueue, client, shown, mutations, said, shownAt, newestSent, overtaken>>

Build(h) ==
  /\ feedStep[h].step = "found"
  /\ feedStep' = [feedStep EXCEPT ![h] = [step |-> "built", response |-> build_orderbook_response]]
  /\ UNCHANGED <<feedLevels, feedQueue, client, shown, mutations, said, shownAt, newestSent, overtaken>>

\* Mutant: a full channel drops the message that comes.
EnqueuedDropNew(queue, m) == IF Len(queue) < FeedCapacity THEN Append(queue, m) ELSE queue

\* A full channel drops its oldest message, and the receiver skips on.
Enqueued(queue, m) ==
  IF Len(queue) < FeedCapacity THEN Append(queue, m) ELSE Append(Tail(queue), m)

Send(h) ==
  LET m == feedStep[h].response IN
  /\ feedStep[h].step = "built"
  /\ feedQueue' = Enqueued(feedQueue, m)
  /\ newestSent' = Max({newestSent, m.stamp}) /\ overtaken' = (m.stamp < newestSent)
  /\ feedStep' = [feedStep EXCEPT ![h] = Resting]
  /\ UNCHANGED <<feedLevels, client, shown, mutations, said, shownAt>>

-----------------------------------------------------------------------------
(* stream_orderbook *)

Subscribe ==
  /\ client = "away"
  /\ client' = "subscribed"
  /\ UNCHANGED <<feedLevels, feedStep, feedQueue, shown, mutations, said, shownAt, newestSent, overtaken>>

\* The current snapshot; the subscription is already there.
SendInitial ==
  /\ client = "subscribed"
  /\ client' = "streaming"
  /\ shown' = group_levels(Depth(FeedSide, feedLevels), Group) /\ shownAt' = mutations
  /\ UNCHANGED <<feedLevels, feedStep, feedQueue, mutations, said, newestSent, overtaken>>

Forward ==
  /\ client = "streaming" /\ feedQueue # <<>>
  /\ shown' = group_levels(Head(feedQueue).levels, Group) /\ shownAt' = Head(feedQueue).stamp
  /\ feedQueue' = Tail(feedQueue)
  /\ UNCHANGED <<feedLevels, feedStep, client, mutations, said, newestSent, overtaken>>

FeedNext ==
  \/ \E h \in FeedHandlers :
       \/ \E t \in FeedTicks, q \in FeedQtys : Mutate(h, t, q)
       \/ LookUp(h) \/ Build(h) \/ Send(h)
  \/ \E t \in FeedTicks, q \in FeedQtys : RejectOffer(t, q)
  \/ Subscribe
  \/ SendInitial
  \/ Forward

-----------------------------------------------------------------------------
(* Properties *)

Quiet == (\A h \in FeedHandlers : feedStep[h] = Resting) /\ client = "streaming" /\ feedQueue = <<>>

\* When everything sent has arrived the screen shows the book as it was at the
\* last change that was to be broadcast or later, and so as it is if that was the
\* last change, wherever the subscription fell between the steps of the handlers
\* and however many messages a full channel dropped.  The exceptions are a
\* snapshot sent after one that was built later, which stays until the next
\* change, and what a rejected offer removed, which nobody is told.
ShownUnlessOvertaken ==
  Quiet /\ ~overtaken =>
    /\ shownAt >= said
    /\ said = mutations => shown = group_levels(Depth(FeedSide, feedLevels), Group)

Total(levels) == SumFunctionOnSet([k \in DOMAIN levels |-> levels[k].qty], DOMAIN levels)

\* Grouping shows each bucket once and loses no depth, on a side that ascends
\* and on one that descends: the cumulative depth of a bucket is everything at
\* least as near to the touch.
GroupedDepthExact ==
  \A side \in FeedSides :
    LET levels == Depth(side, feedLevels)
        rows   == group_levels(levels, Group)
    IN /\ \A j, k \in DOMAIN rows : rows[j].tick = rows[k].tick => j = k
       /\ \A k \in DOMAIN rows : rows[k].cumulative = Total(SubSeq(rows, 1, k))
       /\ Total(rows) = Total(levels)
=============================================================================
