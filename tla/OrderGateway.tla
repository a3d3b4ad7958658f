---------------------------- MODULE OrderGateway ----------------------------
(***************************************************************************)
(* The matcher's HTTP handlers post_order, post_offer and post_cancel      *)
(* (crates/cerdic-tee-matcher/src/api.rs) running concurrently over one    *)
(* market: its order book, its backstop maker and the nonce table, each    *)
(* behind a mutex of its own.  A step is what a handler does under one     *)
(* mutex, or up to one await; other handlers run in between.               *)
(*                                                                         *)
(* The book is the price-time book MatchingBook implements: a submit is    *)
(* one step, because it runs under the books mutex.  An order's id is the  *)
(* slot it rests in, so it may be any slot that is dead at that moment,    *)
(* one that another order has just left included.                          *)
(*                                                                         *)
(* GoodTilTime takes the branches of GoodTilCancel here; expiry is the     *)
(* book's own business and is checked there.  The folds of the fills into  *)
(* sealed positions, which wait on the chain, are the one await Fold.      *)
(***************************************************************************)
EXTENDS PriceTime, Backstop

CONSTANTS
  MaxRequests,  \* bound: HTTP requests
  Signers,      \* who signs them
  Nonces,       \* nonces they carry
  Ticks,        \* limit ticks
  MaxSaneTick,  \* MAX_SANE_TICK
  Qtys,         \* quantities
  Tifs,         \* times in force
  PostOnly,     \* values of the post_only flag
  Kinds,        \* among "order", "offer" and "cancel"
  Warm,         \* prices the oracle may have brought before the first request
  Prices,       \* oracle prices
  MaxPolls      \* bound: oracle polls

ASSUME GatewayAssumption ==
  /\ MaxRequests \in Nat /\ MaxPolls \in Nat /\ MaxSaneTick \in Nat
  /\ Nonces \subseteq Nat \ {0} /\ Ticks \subseteq Nat /\ Qtys \subseteq Nat /\ Prices \subseteq Nat
  /\ Warm \subseteq Nat
  /\ Kinds \subseteq {"order", "offer", "cancel"} /\ PostOnly \subseteq BOOLEAN
  /\ Tifs \subseteq {"GTC", "IOC", "FOK"}

Requests == 1..MaxRequests   \* in the order they come in
Ids == 1..MaxRequests        \* arena slots: one for every order is enough
NIL == 0                     \* Option::None for an order id
BACKSTOP == 0                \* maker of a backstop fill (BACKSTOP_OWNER_ID)

\* The authenticated payloads.  An offer is post-only and never IOC or FOK.
OrderPayload ==
  [kind : {"order"}, signer : Signers, nonce : Nonces, side : Sides, tick : Ticks, qty : Qtys,
   tif : Tifs, post_only : PostOnly]
OfferPayload ==
  [kind : {"offer"}, signer : Signers, nonce : Nonces, side : Sides, tick : Ticks, qty : Qtys,
   tif : {"GTC"}, post_only : {TRUE}]
CancelPayload == [kind : {"cancel"}, signer : Signers, nonce : Nonces, order_id : Ids]

Payloads == {p \in OrderPayload \cup OfferPayload \cup CancelPayload : p.kind \in Kinds}
NoPayload == [kind |-> "none"]

\* A handler's locals: the SubmitResult, and the price of a backstop quote it
\* has committed for a remainder that still rests.
NoResult ==
  [outcome |-> "accepted", fills |-> <<>>, resting_id |-> NIL, resting_qty |-> 0, price |-> NoPrice]

VARIABLES
  queue,       \* books: the market's order book
  backstop,    \* backstop: the market's maker
  last_nonce,  \* last_nonce: per signer, 0 for none
  pc, payload, result, response,   \* one handler per request
  got,         \* history: quantity each request's order has traded
  cancels,     \* history: pairs of a request and the request whose order it cancelled
  polls

vars == <<queue, backstop, last_nonce, pc, payload, result, response, got, cancels, polls>>

Init ==
  /\ queue = [s \in Sides |-> <<>>]
  /\ backstop \in IF Warm = {} THEN {NewMaker} ELSE {record_price(NewMaker, w) : w \in Warm}
  /\ last_nonce = [s \in Signers |-> 0]
  /\ pc = [r \in Requests |-> "new"]
  /\ payload = [r \in Requests |-> NoPayload]
  /\ result = [r \in Requests |-> NoResult]
  /\ response = [r \in Requests |-> "none"]
  /\ got = [r \in Requests |-> 0] /\ cancels = {}
  /\ polls = 0

-----------------------------------------------------------------------------
(* Fills.                                                                  *)

\* The fills of a sweep, best position first.
FillsOf(s) ==
  Kept([i \in 1..Len(s.makers) |->
          [price |-> s.makers[i].tick, qty |-> s.taken[i], maker |-> s.makers[i].req]],
       {i \in 1..Len(s.makers) : s.taken[i] > 0})

\* The handler's result with a fill of the backstop pushed at its end.
WithBackstopFill(res, price, qty) ==
  [res EXCEPT !.fills = Append(@, [price |-> price, qty |-> qty, maker |-> BACKSTOP])]

FilledQty(fills) == SumFunction([k \in 1..Len(fills) |-> fills[k].qty])

\* Faulty variant: the makers' side of the fills is forgotten.
TradedTakerOnly(s, r) == [got EXCEPT ![r] = @ + s.filled]

\* What a sweep of request r's order adds to every order's traded quantity.
Traded(s, r) ==
  [x \in Requests |->
     got[x] + (IF x = r THEN s.filled ELSE 0)
            + SumFunctionOnSet(s.taken, {i \in 1..Len(s.makers) : s.makers[i].req = x})]

\* The orders resting in slot id: one or none.
InSlot(id) ==
  UNION {{queue[s][i] : i \in {j \in 1..Len(queue[s]) : queue[s][j].id = id}} : s \in Sides}

Without(id) == [s \in Sides |-> Kept(queue[s], {i \in 1..Len(queue[s]) : queue[s][i].id # id})]

-----------------------------------------------------------------------------
(* The way a handler ends.                                                 *)

Answer(res) ==
  IF res.outcome # "accepted" THEN "rejected"
  ELSE IF res.resting_id # NIL THEN "resting" ELSE "filled"

\* Past the book and the backstop a handler that has fills goes on to record
\* them; one that has none answers at once.
PastMatching(r, res) ==
  /\ result' = [result EXCEPT ![r] = res]
  /\ pc' = [pc EXCEPT ![r] = IF res.fills # <<>> THEN "record" ELSE "done"]
  /\ response' = IF res.fills # <<>> THEN response ELSE [response EXCEPT ![r] = Answer(res)]

Respond(r, answer) ==
  /\ pc' = [pc EXCEPT ![r] = "done"]
  /\ response' = [response EXCEPT ![r] = answer]

-----------------------------------------------------------------------------
(* A request comes in: the nonce table's mutex, then the tick's bound.     *)

Replayed(p) == p.nonce <= last_nonce[p.signer]

Receive(r, p) ==
  /\ pc[r] = "new" /\ \A x \in Requests : x < r => pc[x] # "new"
  /\ payload' = [payload EXCEPT ![r] = p]
  /\ IF Replayed(p)
     THEN Respond(r, "nonce_replay") /\ UNCHANGED last_nonce
     ELSE /\ last_nonce' = [last_nonce EXCEPT ![p.signer] = p.nonce]
          /\ IF p.kind # "cancel" /\ p.tick > MaxSaneTick
             THEN Respond(r, "invalid_tick")
             ELSE /\ pc' = [pc EXCEPT ![r] = IF p.kind = "order" THEN "collateral" ELSE "books"]
                  /\ UNCHANGED response
  /\ UNCHANGED <<queue, backstop, result, got, cancels, polls>>

\* check_deposited_collateral, which waits on the chain: the answer is the
\* chain's, and no answer lets the order through.
CheckCollateral(r) ==
  /\ pc[r] = "collateral"
  /\ \/ pc' = [pc EXCEPT ![r] = "books"] /\ UNCHANGED response
     \/ Respond(r, "insufficient_collateral")
  /\ UNCHANGED <<queue, backstop, last_nonce, payload, result, got, cancels, polls>>

-----------------------------------------------------------------------------
(* Under the books mutex.                                                  *)

AsNewOrder(p) ==
  [side |-> p.side, tick |-> p.tick, qty |-> p.qty, owner |-> p.signer, tif |-> p.tif,
   post_only |-> p.post_only, now |-> 0]

\* book.submit: the sweep's result s, with what is left of the order in slot id.
SubmitBook(r, s, id) ==
  LET p == payload[r] IN
  /\ queue' = [queue EXCEPT
                 ![Opposite(p.side)] = s.left,
                 ![p.side] = IF ~s.rests THEN queue[p.side]
                             ELSE Queued(queue[p.side], p.side,
                                    [id |-> id, tick |-> p.tick, qty |-> p.qty - s.filled,
                                     owner |-> p.signer, expiry |-> Never, req |-> r])]
  /\ got' = Traded(s, r)

Sweep(r) == Submitted(queue[Opposite(payload[r].side)], AsNewOrder(payload[r]))

\* The slots alloc may hand out after the sweep s of request r.
FreeSlots(r, s) ==
  IF s.rests THEN Ids \ (IdsOf(s.left) \cup IdsOf(queue[payload[r].side])) ELSE {NIL}

\* post_order: IOC leftovers and killed FOK orders are put to the backstop, and
\* so is a remainder that has begun to rest.
SubmitOrder(r) ==
  LET p == payload[r]
      s == Sweep(r)
  IN
  /\ pc[r] = "books" /\ p.kind = "order"
  /\ \E id \in FreeSlots(r, s) :
       LET res == [NoResult EXCEPT !.outcome = s.outcome, !.fills = FillsOf(s),
                     !.resting_id = id, !.resting_qty = IF s.rests THEN p.qty - s.filled ELSE 0]
       IN
       /\ SubmitBook(r, s, id)
       /\ IF (p.tif = "IOC" /\ s.filled < p.qty) \/ s.outcome = "fill_or_kill_failed"
          THEN /\ result' = [result EXCEPT ![r] = res]
               /\ pc' = [pc EXCEPT ![r] = "backstop"] /\ UNCHANGED response
          ELSE IF s.rests
          THEN /\ result' = [result EXCEPT ![r] = res]
               /\ pc' = [pc EXCEPT ![r] = "rescue"] /\ UNCHANGED response
          ELSE PastMatching(r, res)
  /\ UNCHANGED <<backstop, last_nonce, payload, cancels, polls>>

\* post_offer.  Its expect panics when an offer that is not rejected does not
\* rest.
SubmitOffer(r) ==
  LET s == Sweep(r) IN
  /\ pc[r] = "books" /\ payload[r].kind = "offer"
  /\ \E id \in FreeSlots(r, s) :
       /\ SubmitBook(r, s, id)
       /\ result' = [result EXCEPT ![r].outcome = s.outcome, ![r].resting_id = id]
       /\ IF s.outcome = "post_only_rejected" THEN Respond(r, "rejected")
          ELSE IF s.rests THEN Respond(r, "resting")
          ELSE Respond(r, "panicked")
  /\ UNCHANGED <<backstop, last_nonce, payload, cancels, polls>>

Owned(e, signer) == e.owner = signer

\* post_cancel.
CancelOrder(r) ==
  LET p    == payload[r]
      here == InSlot(p.order_id)
      mine == {e \in here : Owned(e, p.signer)}
  IN
  /\ pc[r] = "books" /\ p.kind = "cancel"
  /\ Respond(r, IF here = {} THEN "not_found" ELSE IF mine = {} THEN "not_order_owner"
                ELSE "cancelled")
  /\ queue' = IF mine = {} THEN queue ELSE Without(p.order_id)
  /\ cancels' = cancels \cup {<<r, e.req>> : e \in mine}
  /\ UNCHANGED <<backstop, last_nonce, payload, result, got, polls>>

-----------------------------------------------------------------------------
(* Under the backstop mutex.                                               *)

\* Faulty variant: a Fill-or-Kill order takes what it can get.
AcceptsPart(killed, requested, offered) == offered > 0

\* An IOC leftover takes any part; a killed Fill-or-Kill order, all or nothing.
Accepts(killed, requested, offered) ==
  offered > 0 /\ (killed => offered = requested)

\* A killed order that the backstop filled has not failed any more; a post-only
\* order that the book rejected stays rejected.
Revived(outcome) == IF outcome = "fill_or_kill_failed" THEN "accepted" ELSE outcome

BackstopTake(r) ==
  LET p         == payload[r]
      res       == result[r]
      killed    == res.outcome = "fill_or_kill_failed"
      requested == IF killed THEN p.qty ELSE p.qty - FilledQty(res.fills)
      offered   == Offered(backstop, p.side, requested)
  IN
  /\ pc[r] = "backstop"
  /\ IF Accepts(killed, requested, offered)
     THEN /\ backstop' = commit_fill(backstop, p.side, offered)
          /\ got' = [got EXCEPT ![r] = @ + offered]
          /\ PastMatching(r, [WithBackstopFill(res, quote(backstop, p.side), offered)
                                EXCEPT !.outcome = Revived(@)])
     ELSE PastMatching(r, res) /\ UNCHANGED <<backstop, got>>
  /\ UNCHANGED <<queue, last_nonce, payload, cancels, polls>>

\* The remainder rests already; only a quote for the whole of it is committed.
RescueQuote(r) ==
  LET p   == payload[r]
      res == result[r]
  IN
  /\ pc[r] = "rescue"
  /\ IF Offered(backstop, p.side, res.resting_qty) = res.resting_qty
     THEN /\ backstop' = commit_fill(backstop, p.side, res.resting_qty)
          /\ result' = [result EXCEPT ![r].price = quote(backstop, p.side)]
          /\ pc' = [pc EXCEPT ![r] = "cancel"] /\ UNCHANGED response
     ELSE PastMatching(r, res) /\ UNCHANGED backstop
  /\ UNCHANGED <<queue, last_nonce, payload, got, cancels, polls>>

\* Faulty variant: the rescued order is left in the book.
RescueCancelKept(r) ==
  LET res == result[r] IN
  /\ pc[r] = "cancel"
  /\ got' = [got EXCEPT ![r] = @ + res.resting_qty]
  /\ PastMatching(r, [WithBackstopFill(res, res.price, res.resting_qty)
                        EXCEPT !.resting_id = NIL, !.resting_qty = 0])
  /\ UNCHANGED <<queue, backstop, last_nonce, payload, cancels, polls>>

\* Back under the books mutex: whatever rests in the slot by now is cancelled,
\* and the backstop's fill takes the place of the remainder.
RescueCancel(r) ==
  LET res == result[r] IN
  /\ pc[r] = "cancel"
  /\ queue' = Without(res.resting_id)
  /\ cancels' = cancels \cup {<<r, e.req>> : e \in InSlot(res.resting_id)}
  /\ got' = [got EXCEPT ![r] = @ + res.resting_qty]
  /\ PastMatching(r, [WithBackstopFill(res, res.price, res.resting_qty)
                        EXCEPT !.resting_id = NIL, !.resting_qty = 0])
  /\ UNCHANGED <<backstop, last_nonce, payload, polls>>

\* Every fill is fed to the backstop's history as a print.
RecordFills(r) ==
  LET fills == result[r].fills IN
  /\ pc[r] = "record"
  /\ backstop' = record_prices(backstop, [k \in 1..Len(fills) |-> fills[k].price])
  /\ pc' = [pc EXCEPT ![r] = "fold"]
  /\ UNCHANGED <<queue, last_nonce, payload, result, response, got, cancels, polls>>

\* The fills are folded into positions, which waits on the chain; then the
\* settlement is spawned and the answer goes out.
Fold(r) ==
  /\ pc[r] = "fold"
  /\ Respond(r, Answer(result[r]))
  /\ UNCHANGED <<queue, backstop, last_nonce, payload, result, got, cancels, polls>>

\* Faulty variant: no time limit once the order is in the book.
TimeoutEarlyOnly(r) ==
  /\ pc[r] = "collateral"
  /\ Respond(r, "timed_out")
  /\ UNCHANGED <<queue, backstop, last_nonce, payload, result, got, cancels, polls>>

\* TimeoutLayer drops a handler that waits on the chain for too long.
Timeout(r) ==
  /\ pc[r] \in {"collateral", "fold"}
  /\ Respond(r, "timed_out")
  /\ UNCHANGED <<queue, backstop, last_nonce, payload, result, got, cancels, polls>>

\* poll_oracle_prices.
OraclePoll(price) ==
  /\ polls < MaxPolls /\ polls' = polls + 1
  /\ backstop' = record_price(backstop, price)
  /\ UNCHANGED <<queue, last_nonce, pc, payload, result, response, got, cancels>>

\* What a handler does without waiting for anything outside the process.
Local(r) ==
  \/ SubmitOrder(r)
  \/ SubmitOffer(r)
  \/ CancelOrder(r)
  \/ BackstopTake(r)
  \/ RescueQuote(r)
  \/ RescueCancel(r)
  \/ RecordFills(r)

Next ==
  \/ \E r \in Requests, p \in Payloads : Receive(r, p)
  \/ \E r \in Requests : CheckCollateral(r)
  \/ \E r \in Requests : Local(r)
  \/ \E r \in Requests : Fold(r)
  \/ \E r \in Requests : Timeout(r)
  \/ \E price \in Prices : OraclePoll(price)

Spec == Init /\ [][Next]_vars

\* A handler that is not waiting runs on, and the time limit fires.  The chain
\* may never answer, so CheckCollateral and Fold get no fairness.
Fairness == \A r \in Requests : WF_vars(Local(r)) /\ WF_vars(Timeout(r))

FairSpec == Spec /\ Fairness

-----------------------------------------------------------------------------
(* Properties.                                                             *)

SignedQty(r, qty) == IF payload[r].side = "Long" THEN qty ELSE -qty
Traders == {r \in Requests : payload[r].kind \in {"order", "offer"}}
Resting == UNION {{queue[s][i] : i \in 1..Len(queue[s])} : s \in Sides}

TypeOK ==
  /\ last_nonce \in [Signers -> Nonces \cup {0}]
  /\ pc \in [Requests -> {"new", "collateral", "books", "backstop", "rescue", "cancel", "record",
                          "fold", "done"}]
  /\ got \in [Requests -> Nat] /\ polls \in 0..MaxPolls
  /\ \A r \in Requests :
       /\ payload[r] \in Payloads \cup {NoPayload}
       /\ result[r].resting_id \in Ids \cup {NIL} /\ result[r].resting_qty \in Nat
       /\ \A k \in 1..Len(result[r].fills) :
            result[r].fills[k].qty > 0 /\ result[r].fills[k].maker \in Requests \cup {BACKSTOP}
  /\ \A e \in Resting : e.qty > 0
  /\ \A e, f \in Resting : e.id = f.id => e = f

\* Whoever trades first, and wherever a handler is dropped: what the longs have
\* bought less what the shorts have sold is what the backstop is short of.  A
\* quote that was committed for a remainder still resting counts.
ZeroSum ==
  backstop.inventory =
    -(SumFunction([r \in Traders |-> SignedQty(r, got[r])])
      + SumFunction([r \in {x \in Traders : pc[x] = "cancel"} |->
                       SignedQty(r, result[r].resting_qty)]))

\* Fill-or-Kill: when the handler has ended, the order traded in full or not at
\* all, the book and the backstop taken together.
FillOrKillWhole ==
  \A r \in Traders :
    (payload[r].kind = "order" /\ payload[r].tif = "FOK" /\ pc[r] = "done")
      => got[r] \in {0, payload[r].qty}

\* A trader who was answered knows of the order that rests for him and of its
\* id.  (A handler dropped at the time limit answers nothing about its order.)
NoGhostOrders ==
  \A e \in Resting :
    (pc[e.req] = "done" /\ response[e.req] # "timed_out")
      => response[e.req] = "resting" /\ result[e.req].resting_id = e.id

\* A signed payload is carried out at most once: two requests of one signer and
\* one nonce never both pass the nonce table.
NoReplay ==
  \A r, x \in Requests :
    ( /\ r # x
      /\ "none" \notin {payload[r].kind, payload[x].kind}
      /\ payload[r].signer = payload[x].signer /\ payload[r].nonce = payload[x].nonce)
    => "nonce_replay" \in {response[r], response[x]}

\* No order trades more than its quantity.  post_order rescues only whole
\* remainders, because otherwise there would be "two sources of truth for the
\* same order's remaining size".
NeverOverfilled == \A r \in Traders : got[r] <= payload[r].qty

\* Only a rescue can overfill: an order that traded more than its quantity was
\* filled by the backstop after it had begun to rest.  The matches of the book,
\* and the fills of IOC and Fill-or-Kill leftovers, never add up to more.
OverfilledOnlyByRescue ==
  \A r \in Traders :
    got[r] > payload[r].qty =>
      /\ payload[r].kind = "order" /\ payload[r].tif = "GTC"
      /\ \E k \in 1..Len(result[r].fills) : result[r].fills[k].maker = BACKSTOP

\* Every request that came in is answered, even when the chain never answers.
Answered == \A r \in Requests : [](pc[r] # "new" => <>(pc[r] = "done"))

\* A rejected order has not traded: a post-only order that would cross is
\* "rejected in full", a killed Fill-or-Kill order too.
RejectedMeansUnfilled ==
  \A r \in Traders : response[r] = "rejected" => got[r] = 0

\* It holds but for a post-only order that is IOC as well: the book rejects it,
\* and then the backstop may fill it.
RejectedUnlessPostOnlyIoc ==
  \A r \in Traders :
    (response[r] = "rejected" /\ got[r] # 0)
      => /\ payload[r].kind = "order" /\ payload[r].tif = "IOC" /\ payload[r].post_only
         /\ \A k \in 1..Len(result[r].fills) : result[r].fills[k].maker = BACKSTOP

\* Whatever was in the book when the handler reached it, a fill against another
\* trader is at the taker's limit or better.
BookFillsWithinLimit ==
  \A r \in Traders : \A k \in 1..Len(result[r].fills) :
    result[r].fills[k].maker # BACKSTOP
      => Crosses(payload[r].side, payload[r].tick, result[r].fills[k].price)

\* A signer gets what the payload asked for and the answer says, with another
\* handler anywhere in between: Fill-or-Kill whole or not at all over book and
\* backstop together, within the limit in the book, untraded when rejected, and
\* carried out once.
OutcomeAsPromised ==
  TypeOK /\ FillOrKillWhole /\ RejectedUnlessPostOnlyIoc /\ BookFillsWithinLimit /\ NoReplay

\* post_cancel, whatever happens to the slot between the client's answer and its
\* cancel: it removes an order of the signer who asks, or nothing.
PostCancelsOwnOrder ==
  \A c \in cancels :
    payload[c[1]].kind = "cancel" => payload[c[1]].signer = payload[c[2]].signer

\* An order is its owner's: it is known to the owner it rests for, and only that
\* owner's post_cancel reaches it, although slots change hands.
OrdersStayWithOwners == NoGhostOrders /\ PostCancelsOwnOrder
=============================================================================
