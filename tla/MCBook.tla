------------------------------- MODULE MCBook -------------------------------
(***************************************************************************)
(* Model checking of MatchingBook, and its refinement of PriceTimeBook.    *)
(*                                                                         *)
(* The abstract submit is one step and the code's is a loop: it takes      *)
(* effect when the loop ends, and until then the abstract queues are the   *)
(* ones found when the call started, kept in the history variable snap.    *)
(***************************************************************************)
EXTENDS MatchingBook, Functions, TLC

VARIABLE snap

\* A side read off the arena: from the touch, along each level, then on to the
\* next worse occupied level.
QueueOf(s) ==
  LET walk[i \in {j \in live : node[j].side = s}] ==
        LET n    == node[i]
            down == next_worse_level(s, occupied[s], n.tick)
            rec  == [id |-> i, tick |-> n.tick, qty |-> n.qty, owner |-> n.owner,
                     expiry |-> n.expiry]
        IN <<rec>> \o (IF n.next # NIL THEN walk[n.next]
                       ELSE IF down # NoTick THEN walk[level[s][down].head]
                       ELSE <<>>)
  IN IF best[s] = NoTick THEN <<>> ELSE walk[level[s][best[s]].head]

Queues == [s \in Sides |-> QueueOf(s)]

NoAnswer == [outcome |-> "none"]
NoCall == [side |-> "none"]
NoSnap == <<>>

MCInit == Init /\ snap = NoSnap

MCNext ==
  /\ Next
  /\ snap' = IF req'.phase \in {"idle", "done"} THEN NoSnap
             ELSE IF req = Idle THEN Queues ELSE snap

MCSpec == MCInit /\ [][MCNext]_<<vars, snap>> /\ WF_vars(Step)

Abstract == INSTANCE PriceTimeBook WITH
  Ids    <- Slots,
  queue  <- IF snap = NoSnap THEN Queues ELSE snap,
  call   <- IF req = Idle THEN NoCall ELSE req.order,
  answer <- IF req.phase = "done"
            THEN [outcome |-> req.outcome, filled |-> Filled, resting_id |-> req.resting_id]
            ELSE NoAnswer

\* book.rs implements the price-time priority book: whatever the links, the
\* free list and the cached prices went through, each submit has exactly the
\* fills, the removals and the resting order of the closed-form sweep (orders
\* at the best price first, the earliest first at one price; Fill-or-Kill all
\* or nothing; the taker's quantity neither lost nor overfilled), and each
\* cancel removes that order alone.
ImplementsPriceTimeBook == Abstract!Spec

\* Every live order is in its side's queue exactly once, none is stranded out of
\* reach of the matching walk, and the total of a level, which depth reports to
\* every client, is the sum of what rests there.
NoOrderStranded ==
  \A s \in Sides :
    LET q == QueueOf(s) IN
    /\ {q[k].id : k \in 1..Len(q)} = {i \in live : node[i].side = s}
    /\ \A j, k \in 1..Len(q) : q[j].id = q[k].id => j = k
    /\ \A t \in Ticks :
         level[s][t].qty = SumFunctionOnSet([i \in live |-> node[i].qty],
                                            {i \in live : node[i].side = s /\ node[i].tick = t})

Symmetry == Permutations(Owners)
=============================================================================
