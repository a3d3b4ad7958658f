------------------------------ MODULE ClobBook ------------------------------
(***************************************************************************)
(* The standalone public order book (crates/clob/src/lib.rs): a queue of   *)
(* resting orders for each side and price that has any, and an index from  *)
(* a live order's id to its side and price.                                *)
(***************************************************************************)
EXTENDS Integers, Sequences, SequencesExt, FiniteSetsExt, Functions

CONSTANTS
  OrderIds,      \* ids the driver assigns, reused once free
  ClobPrices,    \* limit prices, 0 among them: an invalid one
  ClobSizes,     \* signed sizes, 0 and wrong signs among them
  ClobExpiries   \* expiry_block of an order, and the blocks of a cleanup

VARIABLES
  clobLevels,   \* bids ("Long") and asks ("Short"): price -> queue of orders
  index,        \* HashMap<OrderId, BookLocation>
  results,      \* the fills the last call returned
  arrival,      \* history: live ids, by the time they took their queue slot
  moved         \* history: live ids whose price modify_order changed

clobVars == <<clobLevels, index, results, arrival, moved>>

ClobSides == {"Long", "Short"}
sign_multiplier(side) == IF side = "Long" THEN 1 ELSE -1
OtherSide(side) == IF side = "Long" THEN "Short" ELSE "Long"
quantity(order) == order.size * sign_multiplier(order.side)
side_agrees_with_size(side, size) == size * sign_multiplier(side) > 0
validate(order) == order.price # 0 /\ side_agrees_with_size(order.side, order.size)

\* The two parts of the book, which one call takes through several steps.
TheBook == [levels |-> clobLevels, index |-> index]
NoLevel == [price \in {} |-> <<>>]

Resting(levels) ==
  UNION {UNION {ToSet(levels[side][price]) : price \in DOMAIN levels[side]} : side \in ClobSides}
OrderOf(levels, id) == CHOOSE order \in Resting(levels) : order.id = id

\* entry(price).or_default().push_back(order)
PushBack(level, order) ==
  [price \in DOMAIN level \cup {order.price} |->
     IF price # order.price THEN level[price]
     ELSE IF price \in DOMAIN level THEN Append(level[price], order) ELSE <<order>>]

\* The order with new's id, in its slot, becomes new.
Edited(queue, new) == [k \in DOMAIN queue |-> IF queue[k].id = new.id THEN new ELSE queue[k]]

\* A level is dropped when its queue empties.
WithQueue(level, price, queue) ==
  IF queue = <<>> THEN Restrict(level, DOMAIN level \ {price})
  ELSE [level EXCEPT ![price] = queue]

insert_resting(book, order) ==
  [levels |-> [book.levels EXCEPT ![order.side] = PushBack(@, order)],
   index  |-> [id \in DOMAIN book.index \cup {order.id} |->
                 IF id = order.id THEN [side |-> order.side, price |-> order.price]
                 ELSE book.index[id]]]

remove_from_level(book, id) ==
  LET at == book.index[id] IN
  [book.levels EXCEPT ![at.side] =
     WithQueue(@, at.price, SelectSeq(@[at.price], LAMBDA order : order.id # id))]

Unindexed(book, id) == Restrict(book.index, DOMAIN book.index \ {id})

Dropped(book, id) == [levels |-> remove_from_level(book, id), index |-> Unindexed(book, id)]

best_bid(levels) == Max(DOMAIN levels["Long"])
best_ask(levels) == Min(DOMAIN levels["Short"])

\* The best opposite level is there, and within the taker's limit.
Reachable(levels, taker) ==
  IF taker.side = "Long"
    THEN levels["Short"] # NoLevel /\ best_ask(levels) <= taker.price
    ELSE levels["Long"] # NoLevel /\ best_bid(levels) >= taker.price

NextMaker(queue) == queue[1]

\* One fill of the sweep: the front of the best opposite level, at its price.
FillFront(s, taker) ==
  LET makers == s.book.levels[OtherSide(taker.side)]
      price  == IF taker.side = "Long" THEN best_ask(s.book.levels) ELSE best_bid(s.book.levels)
      maker  == NextMaker(makers[price])
      fill   == Min({quantity(maker), s.remaining})
      left   == quantity(maker) - fill
      kept   == [maker EXCEPT !.size = left * sign_multiplier(maker.side)]
  IN [book |-> IF left = 0 THEN Dropped(s.book, maker.id)
               ELSE [s.book EXCEPT !.levels[maker.side][price] = Edited(@, kept)],
      remaining |-> s.remaining - fill,
      fills |-> Append(s.fills, [maker |-> maker.id, price |-> price, size |-> fill])]

\* match_against_asks, match_against_bids: at most one turn for each live order.
Match(book, taker) ==
  FoldLeft(LAMBDA s, turn : IF s.remaining > 0 /\ Reachable(s.book.levels, taker)
                              THEN FillFront(s, taker) ELSE s,
           [book |-> book, remaining |-> quantity(taker), fills |-> <<>>],
           [turn \in 1..Cardinality(DOMAIN book.index) |-> turn])

Store(book) == clobLevels' = book.levels /\ index' = book.index

process_order(order) ==
  LET swept == Match(TheBook, order) IN
  /\ validate(order) /\ order.id \notin DOMAIN index
  /\ IF swept.remaining = 0 THEN Store(swept.book)
     ELSE Store(insert_resting(swept.book,
                  [order EXCEPT !.size = swept.remaining * sign_multiplier(order.side)]))
  /\ results' = swept.fills
  /\ arrival' = SelectSeq(Append(arrival, order.id), LAMBDA id : id \in DOMAIN index')
  /\ moved' = moved \cap DOMAIN index'

\* An invalid order, or one whose id is live.
RejectOrder(orders) ==
  /\ ~ \A order \in orders : validate(order) /\ order.id \notin DOMAIN index
  /\ results' = <<>>
  /\ UNCHANGED <<clobLevels, index, arrival, moved>>

cancel_order(id) ==
  /\ id \in DOMAIN index
  /\ Store(Dropped(TheBook, id))
  /\ results' = <<>>
  /\ arrival' = SelectSeq(arrival, LAMBDA other : other # id)
  /\ moved' = moved \ {id}

\* The order leaves its level and joins the back of the one at its new price.
Moved(order, new) ==
  insert_resting([levels |-> remove_from_level(TheBook, order.id), index |-> index], new)

\* Mutant: a new size at the same price also goes to the back of the queue.
ModifiedAtBack(order, new) == Moved(order, new)

\* A new size at the same price keeps the queue slot.  Neither kind of change
\* matches the order against the other side.
Modified(order, new) ==
  IF new.price = order.price
    THEN [TheBook EXCEPT !.levels[order.side][order.price] = Edited(@, new)]
    ELSE Moved(order, new)

modify_order(id, new_price, new_size) ==
  LET order == OrderOf(clobLevels, id) IN
  /\ id \in DOMAIN index
  /\ new_price # 0 /\ side_agrees_with_size(index[id].side, new_size)
  /\ Store(Modified(order, [order EXCEPT !.price = new_price, !.size = new_size]))
  /\ results' = <<>>
  /\ IF new_price = order.price THEN UNCHANGED <<arrival, moved>>
     ELSE /\ arrival' = Append(SelectSeq(arrival, LAMBDA other : other # id), id)
          /\ moved' = moved \cup {id}

cleanup_expired(block) ==
  LET expired == {order.id : order \in {o \in Resting(clobLevels) : o.expiry_block <= block}} IN
  /\ Store(FoldSet(LAMBDA id, book : Dropped(book, id), TheBook, expired))
  /\ results' = <<>>
  /\ arrival' = SelectSeq(arrival, LAMBDA id : id \notin expired)
  /\ moved' = moved \ expired

ClobInit ==
  /\ clobLevels = [side \in ClobSides |-> NoLevel]
  /\ index = [id \in {} |-> 0]
  /\ results = <<>> /\ arrival = <<>> /\ moved = {}

ClobOrders ==
  [id : OrderIds, side : ClobSides, price : ClobPrices, size : ClobSizes, expiry_block : ClobExpiries]

ClobNext ==
  \/ \E order \in ClobOrders : process_order(order)
  \/ RejectOrder(ClobOrders)
  \/ \E id \in OrderIds : cancel_order(id)
  \/ \E id \in OrderIds, price \in ClobPrices, size \in ClobSizes : modify_order(id, price, size)
  \/ \E block \in ClobExpiries : cleanup_expired(block)
-----------------------------------------------------------------------------
(* Properties *)

(* The index and the levels never part: every live order is in one queue,  *)
(* the one its index entry names, and no level is empty.  cancel_order and *)
(* modify_order panic on the first order for which this fails, and a sweep *)
(* would stop at an empty level.                                           *)
ClobIndexExact ==
  /\ \A side \in ClobSides : \A price \in DOMAIN clobLevels[side] :
       /\ clobLevels[side][price] # <<>>
       /\ \A order \in ToSet(clobLevels[side][price]) :
            validate(order) /\ order.side = side /\ order.price = price
  /\ index = [id \in {order.id : order \in Resting(clobLevels)} |->
                LET order == OrderOf(clobLevels, id)
                IN [side |-> order.side, price |-> order.price]]
  /\ Cardinality(DOMAIN index) = Cardinality(Resting(clobLevels))
  /\ Cardinality(DOMAIN index) =
       MapThenSumSet(LAMBDA side :
         MapThenSumSet(LAMBDA price : Len(clobLevels[side][price]), DOMAIN clobLevels[side]), ClobSides)

(* Time priority survives every mixture of calls: each queue holds its     *)
(* orders in the order they came to that price, where a change of size     *)
(* keeps the slot and a change of price takes a new one.                   *)
ClobQueueByArrival ==
  \A side \in ClobSides : \A price \in DOMAIN clobLevels[side] :
    LET ids == [k \in DOMAIN clobLevels[side][price] |-> clobLevels[side][price][k].id]
    IN ids = SelectSeq(arrival, LAMBDA id : id \in ToSet(ids))

Precedes(p, o) ==
  \/ IF o.side = "Short" THEN p.price < o.price ELSE p.price > o.price
  \/ p.price = o.price /\ IndexFirstSubSeq(<<p.id>>, arrival) < IndexFirstSubSeq(<<o.id>>, arrival)

(* A sweep serves better prices first and earlier arrivals first within a  *)
(* price, each fill at the maker's own price, and takes from every maker   *)
(* exactly what it reports: a maker is reached only when all that precede  *)
(* it on its side are used up.                                             *)
ClobSweepByPriority ==
  results' # <<>> =>
    LET Hit(o) == MapThenSumSet(LAMBDA k : IF results'[k].maker = o.id THEN results'[k].size ELSE 0,
                                DOMAIN results')
        hit == {o \in Resting(clobLevels) : Hit(o) > 0}
    IN /\ \A k \in DOMAIN results' : \E o \in hit :
            o.id = results'[k].maker /\ o.price = results'[k].price
       /\ \A o \in hit :
            /\ Hit(o) <= quantity(o)
            /\ IF Hit(o) = quantity(o) THEN o \notin Resting(clobLevels')
               ELSE quantity(OrderOf(clobLevels', o.id)) = quantity(o) - Hit(o)
            /\ \A p \in Resting(clobLevels) :
                 p.side = o.side /\ Precedes(p, o) => Hit(p) = quantity(p)

(* An incoming order never rests across the other side.  modify_order      *)
(* matches nothing, so a bid can stand at or above an ask, but only when   *)
(* one of the two was moved there.                                         *)
ClobCrossedOnlyByModify ==
  \A bid, ask \in Resting(clobLevels) :
    bid.side = "Long" /\ ask.side = "Short" /\ bid.price >= ask.price => {bid.id, ask.id} \cap moved # {}
=============================================================================
