------------------------------ MODULE PriceTime -----------------------------
(***************************************************************************)
(* The price-time sweep in closed form: what one order does to the         *)
(* opposite queue of the matcher's order book, with no loop, no arena and  *)
(* no cached price (crates/cerdic-tee-matcher/src/book.rs).                *)
(*                                                                         *)
(* A queue is a sequence of resting orders, highest priority first; an     *)
(* order o carries its side, limit tick, quantity, owner, time in force,   *)
(* post-only flag and the time `now` of the call.                          *)
(***************************************************************************)
EXTENDS Integers, Sequences, FiniteSets, FiniteSetsExt, SequencesExt

CONSTANTS
  Never      \* "no expiry"

Sides == {"Long", "Short"}
Opposite(s) == IF s = "Long" THEN "Short" ELSE "Long"

Crosses(s, t, p) == IF s = "Long" THEN t >= p ELSE t <= p
Better(s, p, q)  == IF s = "Long" THEN p > q ELSE p < q
Expired(r, now)  == r.expiry # Never /\ now >= r.expiry

-----------------------------------------------------------------------------
(* An order o against the opposite queue q.                                *)

Eligible(q, o, i) == ~Expired(q[i], o.now) /\ q[i].owner # o.owner
Crossed(q, o)     == {i \in 1..Len(q) : Crosses(o.side, o.tick, q[i].tick)}
Quantity(q, S)    == SumFunctionOnSet([i \in S |-> q[i].qty], S)

\* What the orders ahead of position i can give o.
Ahead(q, o, i) == Quantity(q, {j \in Crossed(q, o) : j < i /\ Eligible(q, o, j)})

\* The sweep gets to position i: it crosses and o is not exhausted before it.
Reached(q, o, i) == i \in Crossed(q, o) /\ Ahead(q, o, i) < o.qty

Taken(q, o, i) ==
  IF Reached(q, o, i) /\ Eligible(q, o, i)
  THEN Min({q[i].qty, o.qty - Ahead(q, o, i)}) ELSE 0

\* All that o could take; Fill-or-Kill compares it with the order's quantity.
Available(q, o) == Quantity(q, {i \in Crossed(q, o) : Eligible(q, o, i)})

\* The elements of q at the positions in S, in their order.
Kept(q, S) ==
  LET kept[n \in 0..Len(q)] ==
        IF n = 0 THEN <<>> ELSE IF n \in S THEN Append(kept[n - 1], q[n]) ELSE kept[n - 1]
  IN kept[Len(q)]

\* Faulty variant: what is filled is not taken off the maker.
LeftAtUnreduced(q, o, i) == IF Reached(q, o, i) /\ ~Eligible(q, o, i) THEN 0 ELSE q[i].qty

\* What the sweep leaves at position i: nothing of an expired or own order.
LeftAt(q, o, i) ==
  IF Reached(q, o, i) /\ ~Eligible(q, o, i) THEN 0 ELSE q[i].qty - Taken(q, o, i)

\* The queue after the sweep: filled, expired and own orders are gone.
Swept(q, o) ==
  Kept([i \in 1..Len(q) |-> [q[i] EXCEPT !.qty = LeftAt(q, o, i)]],
       {i \in 1..Len(q) : LeftAt(q, o, i) > 0})

\* A post-only order first clears the expired orders at the very touch.
Pruned(q, now) ==
  SubSeq(q, Min({i \in 1..Len(q) : ~Expired(q[i], now)} \cup {Len(q) + 1}), Len(q))

\* A new order goes behind every order at its price or better.
Queued(q, s, r) ==
  InsertAt(q, Cardinality({i \in 1..Len(q) : ~Better(s, r.tick, q[i].tick)}) + 1, r)

IdsOf(q) == {q[i].id : i \in 1..Len(q)}

\* The SubmitResult of o against the opposite queue q0: the outcome, what each
\* position of the (pruned) queue gives, the queue left behind, and whether the
\* rest of o goes to its own side.
Submitted(q0, o) ==
  LET q        == IF o.post_only THEN Pruned(q0, o.now) ELSE q0
      rejected == o.post_only /\ q # <<>> /\ Crosses(o.side, o.tick, q[1].tick)
      killed   == ~rejected /\ o.tif = "FOK" /\ Available(q, o) < o.qty
      refused  == rejected \/ killed
      filled   == IF refused THEN 0 ELSE Min({o.qty, Available(q, o)})
  IN [outcome |-> IF rejected THEN "post_only_rejected"
                  ELSE IF killed THEN "fill_or_kill_failed" ELSE "accepted",
      makers  |-> q,
      taken   |-> [i \in 1..Len(q) |-> IF refused THEN 0 ELSE Taken(q, o, i)],
      filled  |-> filled,
      left    |-> IF refused THEN q ELSE Swept(q, o),
      rests   |-> ~refused /\ filled < o.qty /\ o.tif \in {"GTC", "GTT"}]
=============================================================================
