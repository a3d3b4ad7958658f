---------------------------- MODULE MatchingBook ----------------------------
(***************************************************************************)
(* The matcher's price-time priority limit order book of one market        *)
(* (crates/cerdic-tee-matcher/src/book.rs, struct OrderBook): a slab arena *)
(* of order nodes with a LIFO free list, one intrusive doubly linked FIFO  *)
(* per price level, the set of occupied levels, and the cached best price  *)
(* of each side.                                                           *)
(*                                                                         *)
(* A call of submit runs under the books mutex.  It is modelled one loop   *)
(* iteration per step, with the call's own state in req; no other call can *)
(* start before it returns, which is what the mutex gives.                 *)
(*                                                                         *)
(* The index arithmetic of the ladder and its bitmap is the subject of the *)
(* module Ladder; here the ladder is its map from ticks to levels and its  *)
(* set of occupied ticks.                                                  *)
(*                                                                         *)
(* Faulty variants of an operation, each a slip its code could contain,    *)
(* stand before it (advance_best_eager, alloc_oldest, ...).  No action     *)
(* uses them: they show that the properties notice the slip.               *)
(***************************************************************************)
EXTENDS Integers, Sequences

CONSTANTS
  Owners,    \* traders, as the OwnerId the book sees
  MaxTick,   \* bound: ticks are 0..MaxTick
  MaxQty,    \* bound: quantity of one order
  MaxSlots,  \* bound: arena slots ever allocated
  Times,     \* instants a caller may pass as now
  Expiries   \* expiries a GoodTilTime order may carry

ASSUME BookAssumption ==
  /\ MaxTick \in Nat /\ MaxQty \in Nat /\ MaxSlots \in Nat
  /\ Times \subseteq Nat /\ Expiries \subseteq Nat

NIL    == -1    \* u32::MAX, "no slot"
NoTick == -1    \* Option::None for a price
Never  == -1    \* Option::None for an expiry

Sides == {"Long", "Short"}
Ticks == 0..MaxTick
Slots == 0..(MaxSlots - 1)
TimeInForce == {"GTC", "GTT", "IOC", "FOK"}

opposite_side(s) == IF s = "Long" THEN "Short" ELSE "Long"

Node == [tick : Ticks, qty : Nat, side : Sides, owner : Owners,
         expiry : Expiries \cup {Never}, prev : Slots \cup {NIL}, next : Slots \cup {NIL}]

Level == [head : Slots \cup {NIL}, tail : Slots \cup {NIL}, qty : Int]
EmptyLevel == [head |-> NIL, tail |-> NIL, qty |-> 0]

VARIABLES
  node,      \* arena: the live slots (its domain) and their contents
  top,       \* arena.len()
  free,      \* the free stack; its last element is popped first
  level,     \* level[side][tick]
  occupied,  \* occupied[side]: ticks whose occupancy bit is set
  best,      \* best[side]: best_bid and best_ask
  req        \* the call of submit in progress

bookVars == <<node, top, free, level, occupied, best>>
vars == <<node, top, free, level, occupied, best, req>>

-----------------------------------------------------------------------------
(* Calls of submit.                                                        *)

\* NewOrder and now, as submit receives them.
NewOrder ==
  {o \in [side : Sides, tick : Ticks, qty : 0..MaxQty, owner : Owners, tif : TimeInForce,
          expiry : Expiries \cup {Never}, post_only : BOOLEAN, now : Times] :
     o.tif = "GTT" <=> o.expiry # Never}

Phases == {"prune", "check", "match", "done"}
Outcomes == {"accepted", "post_only_rejected", "fill_or_kill_failed"}

\* A call in progress: the order, what is left of its quantity, what the
\* SubmitResult says so far.
Call == [order : NewOrder, phase : Phases, qty : Nat, outcome : Outcomes,
         resting_id : Slots \cup {NIL}]

Idle == [phase |-> "idle"]

Filled == req.order.qty - req.qty

-----------------------------------------------------------------------------
(* Reading the book.                                                       *)

is_expired_late(n, now) == n.expiry # Never /\ now > n.expiry
is_expired(n, now) == n.expiry # Never /\ now >= n.expiry

\* An order of side s at limit t trades against a resting price p.
CrossesStrict(s, t, p) == IF s = "Long" THEN t > p ELSE t < p
Crosses(s, t, p) == IF s = "Long" THEN t >= p ELSE t <= p

\* On side s, price p is strictly better than price q.
Better(s, p, q) == IF s = "Long" THEN p > q ELSE p < q

\* Next occupied level strictly worse than t, given the occupied ticks.
next_worse_level(s, ticks, t) ==
  LET worse == {p \in ticks : Better(s, t, p)} IN
  IF worse = {} THEN NoTick
  ELSE CHOOSE p \in worse : \A q \in worse : p = q \/ Better(s, p, q)

\* The walk of available_to_match from slot i on: what an order of `owner`
\* with limit t could take at time `now`, skipping expired and own orders,
\* along the level and then over the next worse levels that still cross.
Takeable(s, t, owner, now) ==
  LET opp == opposite_side(s)
      walk[i \in {j \in DOMAIN node : node[j].side = opp}] ==
        LET n    == node[i]
            here == IF ~is_expired(n, now) /\ n.owner # owner THEN n.qty ELSE 0
            down == next_worse_level(opp, occupied[opp], n.tick)
            cont == IF n.next # NIL THEN walk[n.next]
                    ELSE IF down # NoTick /\ Crosses(s, t, down) THEN walk[level[opp][down].head]
                    ELSE 0
        IN here + cont
  IN walk

available_to_match(o) ==
  LET opp == opposite_side(o.side) IN
  IF best[opp] # NoTick /\ Crosses(o.side, o.tick, best[opp])
  THEN Takeable(o.side, o.tick, o.owner, o.now)[level[opp][best[opp]].head]
  ELSE 0

-----------------------------------------------------------------------------
(* Changing the book.                                                      *)

\* The arena once slot i is taken and its neighbours are spliced.
SplicedForward(i) ==
  [j \in DOMAIN node \ {i} |->
     [node[j] EXCEPT !.next = IF j = node[i].prev THEN node[i].next ELSE @]]

Spliced(i) ==
  [j \in DOMAIN node \ {i} |->
     [node[j] EXCEPT !.next = IF j = node[i].prev THEN node[i].next ELSE @,
                     !.prev = IF j = node[i].next THEN node[i].prev ELSE @]]

\* unlink: take the slot, push it on the free stack, splice its neighbours,
\* update the level and its occupancy bit.
unlink(i) ==
  LET n == node[i]
      l == level[n.side][n.tick]
      h == IF n.prev = NIL THEN n.next ELSE l.head
      t == IF n.next = NIL THEN n.prev ELSE l.tail
  IN /\ node' = Spliced(i)
     /\ free' = Append(free, i)
     /\ level' = [level EXCEPT ![n.side][n.tick] = [head |-> h, tail |-> t, qty |-> l.qty - n.qty]]
     /\ occupied' = IF h = NIL THEN [occupied EXCEPT ![n.side] = @ \ {n.tick}] ELSE occupied
     /\ UNCHANGED top

\* advance_best_from, run after unlink has emptied the level at the touch.
advance_best_eager(s, t) == best' = [best EXCEPT ![s] = next_worse_level(s, occupied'[s], t)]
advance_best_never(s, t) == best' = best
advance_best_if_empty(s, t) ==
  best' = IF level'[s][t].head = NIL
          THEN [best EXCEPT ![s] = next_worse_level(s, occupied'[s], t)]
          ELSE best

\* The slot alloc hands out: the last one freed, or a new one.
alloc_oldest == IF free = <<>> THEN top ELSE free[1]
alloc == IF free = <<>> THEN top ELSE free[Len(free)]

\* alloc and push_back: the new order goes to the tail of its level.
rest(n) ==
  LET i   == alloc
      l   == level[n.side][n.tick]
      new == [n EXCEPT !.prev = l.tail]
  IN /\ free' = IF free = <<>> THEN free ELSE SubSeq(free, 1, Len(free) - 1)
     /\ top' = IF free = <<>> THEN top + 1 ELSE top
     /\ node' = [j \in DOMAIN node \cup {i} |->
                   IF j = i THEN new
                   ELSE [node[j] EXCEPT !.next = IF j = l.tail THEN i ELSE @]]
     /\ level' = [level EXCEPT ![n.side][n.tick] =
                    [head |-> IF l.tail = NIL THEN i ELSE l.head, tail |-> i, qty |-> l.qty + n.qty]]
     /\ occupied' = IF l.tail = NIL THEN [occupied EXCEPT ![n.side] = @ \cup {n.tick}] ELSE occupied
     /\ best' = IF best[n.side] = NoTick \/ Better(n.side, n.tick, best[n.side])
                THEN [best EXCEPT ![n.side] = n.tick] ELSE best        \* raise_best
     /\ req' = [req EXCEPT !.phase = "done", !.resting_id = i]

-----------------------------------------------------------------------------
(* submit.                                                                 *)

Opp   == opposite_side(req.order.side)
Touch == best[Opp]                         \* opposite best price
Front == level[Opp][Touch].head            \* its first order

Submit(o) ==
  /\ req = Idle
  /\ free # <<>> \/ top < MaxSlots                     \* bound MaxSlots
  /\ req' = [order |-> o, phase |-> IF o.post_only THEN "prune" ELSE "check", qty |-> o.qty,
             outcome |-> "accepted", resting_id |-> NIL]
  /\ UNCHANGED bookVars

\* One round of prune_expired_head.
PruneExpiredHead ==
  /\ req.phase = "prune"
  /\ Touch # NoTick
  /\ is_expired(node[Front], req.order.now)
  /\ unlink(Front)
  /\ advance_best_if_empty(Opp, Touch)
  /\ UNCHANGED req

\* The post-only guard, once the touch is live or the side is empty.
PostOnlyGuard ==
  LET would_cross == Touch # NoTick /\ Crosses(req.order.side, req.order.tick, Touch) IN
  /\ req.phase = "prune"
  /\ Touch # NoTick => ~is_expired(node[Front], req.order.now)
  /\ req' = IF would_cross
            THEN [req EXCEPT !.phase = "done", !.outcome = "post_only_rejected"]
            ELSE [req EXCEPT !.phase = "check"]
  /\ UNCHANGED bookVars

\* The Fill-or-Kill guard.
FillOrKillGuard ==
  /\ req.phase = "check"
  /\ req' = IF req.order.tif = "FOK" /\ available_to_match(req.order) < req.qty
            THEN [req EXCEPT !.phase = "done", !.outcome = "fill_or_kill_failed"]
            ELSE [req EXCEPT !.phase = "match"]
  /\ UNCHANGED bookVars

\* The loop condition of the matching walk.
Matching ==
  /\ req.phase = "match"
  /\ req.qty > 0
  /\ Touch # NoTick
  /\ Crosses(req.order.side, req.order.tick, Touch)

SkippedExpiredOnly(n) == is_expired(n, req.order.now)
Skipped(n) == is_expired(n, req.order.now) \/ n.owner = req.order.owner

\* An expired head, or one of the taker's own, is unlinked without trading.
DropHeadKept == Matching /\ Skipped(node[Front]) /\ UNCHANGED vars

DropHead ==
  /\ Matching
  /\ Skipped(node[Front])
  /\ unlink(Front)
  /\ advance_best_if_empty(Opp, Touch)
  /\ UNCHANGED req

\* The head is consumed in full.
FillHeadUnbounded ==
  /\ Matching
  /\ ~Skipped(node[Front])
  /\ req' = [req EXCEPT !.qty = @ - node[Front].qty]
  /\ unlink(Front)
  /\ advance_best_if_empty(Opp, Touch)

FillHead ==
  /\ Matching
  /\ ~Skipped(node[Front])
  /\ node[Front].qty <= req.qty
  /\ req' = [req EXCEPT !.qty = @ - node[Front].qty]
  /\ unlink(Front)
  /\ advance_best_if_empty(Opp, Touch)

\* The taker is consumed in full and the head keeps resting.
PartFillHead ==
  /\ Matching
  /\ ~Skipped(node[Front])
  /\ node[Front].qty > req.qty
  /\ node' = [node EXCEPT ![Front].qty = @ - req.qty]
  /\ level' = [level EXCEPT ![Opp][Touch].qty = @ - req.qty]
  /\ req' = [req EXCEPT !.qty = 0]
  /\ UNCHANGED <<top, free, occupied, best>>

\* The remainder of a GTC or GTT order rests.
Rest ==
  /\ req.phase = "match" /\ ~Matching
  /\ req.qty > 0 /\ req.order.tif \in {"GTC", "GTT"}
  /\ rest([tick |-> req.order.tick, qty |-> req.qty, side |-> req.order.side,
           owner |-> req.order.owner, expiry |-> req.order.expiry, prev |-> NIL, next |-> NIL])

\* Nothing is left, or the order may not rest.
Finish ==
  /\ req.phase = "match" /\ ~Matching
  /\ req.qty = 0 \/ req.order.tif \in {"IOC", "FOK"}
  /\ req' = [req EXCEPT !.phase = "done"]
  /\ UNCHANGED bookVars

\* submit returns and the mutex is released.
Return ==
  /\ req.phase = "done"
  /\ req' = Idle
  /\ UNCHANGED bookVars

\* cancel of a live order; a dead or unknown id changes nothing.
Cancel(i) ==
  /\ req = Idle
  /\ i \in DOMAIN node
  /\ unlink(i)
  /\ LET s == node[i].side
         t == node[i].tick
     IN IF best[s] = t THEN advance_best_if_empty(s, t) ELSE UNCHANGED best
  /\ UNCHANGED req

Init ==
  /\ node = <<>> /\ top = 0 /\ free = <<>>
  /\ level = [s \in Sides |-> [t \in Ticks |-> EmptyLevel]]
  /\ occupied = [s \in Sides |-> {}]
  /\ best = [s \in Sides |-> NoTick]
  /\ req = Idle

\* The steps of a call in progress.
Step ==
  \/ PruneExpiredHead \/ PostOnlyGuard \/ FillOrKillGuard
  \/ DropHead \/ FillHead \/ PartFillHead \/ Rest \/ Finish \/ Return

Next ==
  \/ \E o \in NewOrder : Submit(o)
  \/ Step
  \/ \E i \in Slots : Cancel(i)

\* A call that has entered submit keeps running: nothing it waits for can
\* block it, since it already holds the mutex.
Spec == Init /\ [][Next]_vars /\ WF_vars(Step)

-----------------------------------------------------------------------------
(* Properties.                                                             *)

live == DOMAIN node

TypeOK ==
  /\ live \subseteq Slots /\ node \in [live -> Node]
  /\ top \in 0..MaxSlots /\ free \in Seq(Slots)
  /\ level \in [Sides -> [Ticks -> Level]]
  /\ occupied \in [Sides -> SUBSET Ticks]
  /\ best \in [Sides -> Ticks \cup {NoTick}]
  /\ req \in Call \cup {Idle}

\* The links of node i agree with its neighbours and with its level.
NodeLinked(i) ==
  LET n == node[i]
      l == level[n.side][n.tick]
  IN /\ IF n.prev = NIL THEN l.head = i
        ELSE /\ n.prev \in live /\ node[n.prev].next = i
             /\ node[n.prev].side = n.side /\ node[n.prev].tick = n.tick
     /\ IF n.next = NIL THEN l.tail = i
        ELSE /\ n.next \in live /\ node[n.next].prev = i
             /\ node[n.next].side = n.side /\ node[n.next].tick = n.tick

\* The ends of a level are live orders of that level, or both are missing.
LevelLinked(s, t) ==
  LET l == level[s][t] IN
  /\ l.head = NIL <=> l.tail = NIL
  /\ l.head # NIL => /\ l.head \in live /\ node[l.head].prev = NIL
                     /\ node[l.head].side = s /\ node[l.head].tick = t
  /\ l.tail # NIL => /\ l.tail \in live /\ node[l.tail].next = NIL
                     /\ node[l.tail].side = s /\ node[l.tail].tick = t

\* Every slot reached through head, tail, prev or next is live and points
\* back, so slot, slot_mut and take_slot never meet an empty slot: their
\* "book invariant violated" panics are unreachable, whatever sequence of
\* fills, expiries, self-trade cancels and cancels unlinked the neighbours.
LinkIntegrity ==
  /\ \A i \in live : NodeLinked(i)
  /\ \A s \in Sides, t \in Ticks : LevelLinked(s, t)

\* The free stack holds each freed slot once and no live one, so an order id
\* names one order at a time and no slot is lost.
FreeListExact ==
  /\ \A j, k \in 1..Len(free) : free[j] = free[k] => j = k
  /\ \A j \in 1..Len(free) : free[j] \in (0..(top - 1)) \ live
  /\ \A i \in (0..(top - 1)) \ live : \E j \in 1..Len(free) : free[j] = i
  /\ live \subseteq 0..(top - 1)

\* The occupancy set and the cached best prices never go stale: a tick is
\* marked iff its level holds an order, and the best price is the best marked
\* tick.  The matching loop indexes the ladder with it and asserts "cached
\* best price must point at a non-empty level".
TouchExact ==
  \A s \in Sides :
    /\ occupied[s] = {t \in Ticks : level[s][t].head # NIL}
    /\ IF best[s] = NoTick THEN occupied[s] = {}
       ELSE /\ best[s] \in occupied[s]
            /\ \A t \in occupied[s] : ~Better(s, t, best[s])

\* Bids stay strictly below asks, expired orders included: no order rests
\* through the opposite side.
NotCrossed ==
  best["Long"] # NoTick /\ best["Short"] # NoTick => best["Long"] < best["Short"]

\* A call of submit comes back: each round of its loops removes an order,
\* exhausts the taker or leaves the loop.
SubmitReturns == req # Idle ~> req = Idle
=============================================================================
