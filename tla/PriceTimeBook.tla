---------------------------- MODULE PriceTimeBook ---------------------------
(***************************************************************************)
(* What the matcher's order book promises (crates/cerdic-tee-matcher/src/  *)
(* book.rs: the documentation of submit, cancel, TimeInForce and           *)
(* NewOrder).  Each side is one queue in price-time priority, and a submit *)
(* takes effect in a single step with the closed-form result of PriceTime. *)
(***************************************************************************)
EXTENDS PriceTime

CONSTANTS
  Ids,       \* order ids
  NewOrder,  \* the orders a caller may submit, with the time of the call
  NIL,       \* "no order id"
  NoCall,    \* nobody holds the book
  NoAnswer   \* the call in progress has not taken effect

VARIABLES
  queue,     \* queue[side]: resting orders, highest priority first
  call,      \* the order being submitted
  answer     \* the SubmitResult it is returning

vars == <<queue, call, answer>>

Init == queue = [s \in Sides |-> <<>>] /\ call = NoCall /\ answer = NoAnswer

\* A caller holds the book and hands it an order.
Submit(o) ==
  /\ call = NoCall
  /\ call' = o
  /\ UNCHANGED <<queue, answer>>

\* The order takes effect, all at once; what is left of it rests under an id
\* that no resting order has.
Execute(o) ==
  LET opp  == Opposite(o.side)
      r    == Submitted(queue[opp], o)
      dead == Ids \ (IdsOf(r.left) \cup IdsOf(queue[o.side]))
  IN /\ answer = NoAnswer
     /\ \E id \in IF r.rests THEN dead ELSE {NIL} :
          /\ queue' = [queue EXCEPT
                         ![opp] = r.left,
                         ![o.side] = IF r.rests
                                     THEN Queued(@, o.side,
                                            [id |-> id, tick |-> o.tick, qty |-> o.qty - r.filled,
                                             owner |-> o.owner, expiry |-> o.expiry])
                                     ELSE @]
          /\ answer' = [outcome |-> r.outcome, filled |-> r.filled, resting_id |-> id]
     /\ UNCHANGED call

Return ==
  /\ answer # NoAnswer
  /\ call' = NoCall /\ answer' = NoAnswer
  /\ UNCHANGED queue

Cancel(id) ==
  /\ call = NoCall
  /\ queue' = [s \in Sides |-> Kept(queue[s], {i \in 1..Len(queue[s]) : queue[s][i].id # id})]
  /\ UNCHANGED <<call, answer>>

Next ==
  \/ \E o \in NewOrder : Submit(o)
  \/ call # NoCall /\ Execute(call)
  \/ Return
  \/ \E id \in Ids : Cancel(id)

Spec == Init /\ [][Next]_vars
=============================================================================
