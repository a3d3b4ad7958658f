---------------------------- MODULE MarketProofs ----------------------------
(***************************************************************************)
(* The markets on chain for every set of users, positions, prices and      *)
(* amounts: bonds and signatures of the order book are used once, funding  *)
(* is charged for the time a position was open, and the prices both go by  *)
(* stay within the feeds, the window's trades and the granted walk.        *)
(***************************************************************************)
EXTENDS MCContracts, FiniteSums

-----------------------------------------------------------------------------
(* The order book's escrow *)

OrderRecord == [owner : Users, nonce : Nat, expiry : Nat, size : Nat, fee : Nat]
EndRecord == [how : {"cancelled", "recycled"}, to : Users, order : OrderRecord, at : Nat]

EscrowType ==
  /\ block \in Nat /\ nextOrderId \in Nat /\ nonces \in [Users -> Nat]
  /\ ether \in Int /\ stranded \in Nat
  /\ orders \in [DOMAIN orders -> OrderRecord]
  /\ ended \in [DOMAIN ended -> EndRecord]

Fees(os) == [id \in DOMAIN os |-> os[id].fee]
PlacedIn(os, es, id) == IF id \in DOMAIN os THEN os[id] ELSE es[id].order
Placed(id) == PlacedIn(orders, ended, id)

\* A nonce that was used lies below the signer's counter.
NoncesPassed == \A id \in 1..nextOrderId : Placed(id).nonce < nonces[Placed(id).owner]

EscrowInv == EscrowType /\ BondsAccounted /\ NoSignatureReuse /\ NoncesPassed

LEMMA ReuseIs ==
  NoSignatureReuse <=>
    \A i, j \in 1..nextOrderId :
      (i # j /\ Placed(i).owner = Placed(j).owner) => Placed(i).nonce # Placed(j).nonce
BY DEF NoSignatureReuse, Placed, PlacedIn

LEMMA OrdersFinite ==
  ASSUME EscrowType, BondsAccounted
  PROVE  IsFiniteSet(DOMAIN orders) /\ \A id \in DOMAIN orders : Fees(orders)[id] \in Int
<1>1. IsFiniteSet(1..nextOrderId)
  <2>1. 1 \in Int /\ nextOrderId \in Int
    BY DEF EscrowType
  <2> QED BY <2>1, FS_Interval
<1>2. DOMAIN orders \subseteq 1..nextOrderId
  BY DEF BondsAccounted
<1>3. \A id \in DOMAIN orders : Fees(orders)[id] \in Int
  BY DEF EscrowType, OrderRecord, Fees
<1> QED BY <1>1, <1>2, <1>3, FS_Subset

\* Every order keeps its signer and nonce through modify, cancel and recycle.
LEMMA SameSignatures ==
  ASSUME NoSignatureReuse, NoncesPassed, nextOrderId' = nextOrderId, nonces' = nonces,
         \A id \in 1..nextOrderId : /\ PlacedIn(orders', ended', id).owner = Placed(id).owner
                                    /\ PlacedIn(orders', ended', id).nonce = Placed(id).nonce
  PROVE  NoSignatureReuse' /\ NoncesPassed'
<1>1. NoncesPassed'
  BY DEF NoncesPassed, Placed
<1>2. \A i, j \in 1..nextOrderId' :
        (i # j /\ PlacedIn(orders', ended', i).owner = PlacedIn(orders', ended', j).owner) =>
          PlacedIn(orders', ended', i).nonce # PlacedIn(orders', ended', j).nonce
  BY ReuseIs
<1>3. NoSignatureReuse'
  BY <1>2 DEF NoSignatureReuse, Placed, PlacedIn
<1> QED BY <1>1, <1>3

LEMMA PlaceKeeps ==
  ASSUME EscrowInv, UNCHANGED twapVars, NEW u \in Users, NEW n, NEW e \in Expiries, NEW s \in OrderSizes,
         NEW bond \in Bonds, placeOrder(u, n, e, s, bond)
  PROVE  EscrowInv'
<1> DEFINE new == nextOrderId + 1
           o == [owner |-> u, nonce |-> n, expiry |-> e % (2^ExpiryWidth), size |-> s, fee |-> bond]
<1>1. EscrowType /\ BondsAccounted /\ nextOrderId \in Nat /\ new \in Nat
  BY DEF EscrowInv, EscrowType
<1>2. /\ nextOrderId' = new /\ ended' = ended /\ stranded' = stranded /\ ether' = ether + bond
      /\ n = nonces[u] /\ nonces' = [nonces EXCEPT ![u] = @ + 1] /\ block' = block
      /\ orders' = [i \in DOMAIN orders \cup {new} |-> IF i \in DOMAIN orders THEN orders[i] ELSE o]
  BY DEF placeOrder, twapVars
<1>3. e \in Nat /\ s \in Nat /\ bond \in Nat /\ n \in Nat /\ 2^ExpiryWidth \in Nat \ {0}
  BY <1>1, <1>2, OrderEscrowAssumption DEF EscrowType
<1>4. e % (2^ExpiryWidth) \in Nat
  <2> DEFINE w == 2^ExpiryWidth
  <2>1. w \in Nat \ {0}
    BY <1>3
  <2> HIDE DEF w
  <2>2. e % w \in Nat
    BY <1>3, <2>1
  <2> QED BY <2>2 DEF w
<1>5. o \in OrderRecord /\ o.fee = bond /\ o.owner = u /\ o.nonce = n
  BY <1>3, <1>4 DEF OrderRecord
<1>6. new \notin DOMAIN orders /\ new \notin DOMAIN ended /\ 1..new = 1..nextOrderId \cup {new}
  <2>1. DOMAIN orders \cup DOMAIN ended = 1..nextOrderId
    BY <1>1 DEF BondsAccounted
  <2>2. new \notin 1..nextOrderId /\ 1..new = 1..nextOrderId \cup {new}
    BY <1>1
  <2> QED BY <2>1, <2>2
<1> HIDE DEF o, new
<1>7. /\ DOMAIN orders' = DOMAIN orders \cup {new} /\ orders'[new] = o
      /\ \A i \in DOMAIN orders : orders'[i] = orders[i]
  BY <1>2, <1>6
<1>8. EscrowType'
  <2>1. orders' \in [DOMAIN orders' -> OrderRecord]
    BY <1>1, <1>2, <1>5, <1>7 DEF EscrowType
  <2>2. ether' \in Int /\ nonces' \in [Users -> Nat]
    BY <1>1, <1>2, <1>3 DEF EscrowType
  <2> QED BY <1>1, <1>2, <2>1, <2>2 DEF EscrowType
<1>9. BondsAccounted'
  <2> DEFINE f == Fees(orders)
             h == Fees(orders')
             D == DOMAIN orders
  <2>1. IsFiniteSet(D) /\ \A i \in D : f[i] \in Int
    BY <1>1, OrdersFinite
  <2>2. h[new] = bond /\ \A i \in D : h[i] = f[i]
    BY <1>5, <1>7 DEF Fees
  <2> HIDE DEF f, h, D
  <2>3. new \notin D /\ h[new] \in Int
    BY <1>3, <1>6, <2>2 DEF D
  <2>4. SumFunctionOnSet(h, D \cup {new}) = SumFunctionOnSet(f, D) + h[new]
    BY <2>1, <2>2, <2>3, SumAdd
  <2>5. SumFunctionOnSet(f, D) \in Int
    BY <2>1, SumInt
  <2>6. ether = stranded + SumFunctionOnSet(f, D)
    BY <1>1 DEF BondsAccounted, f, D, Fees
  <2>7. ether' = stranded' + SumFunctionOnSet(h, D \cup {new})
    BY <1>1, <1>2, <1>3, <2>2, <2>4, <2>5, <2>6 DEF EscrowType
  <2>8. ether' = stranded' + SumFunctionOnSet([id \in DOMAIN orders' |-> orders'[id].fee], DOMAIN orders')
    BY <1>7, <2>7 DEF h, D, Fees
  <2>9. DOMAIN orders' \cap DOMAIN ended' = {} /\ DOMAIN orders' \cup DOMAIN ended' = 1..nextOrderId'
    BY <1>1, <1>2, <1>6, <1>7 DEF BondsAccounted
  <2> QED BY <1>1, <1>2, <2>8, <2>9 DEF BondsAccounted
<1>10. /\ PlacedIn(orders', ended', new) = o
       /\ \A i \in 1..nextOrderId : PlacedIn(orders', ended', i) = Placed(i)
  <2>1. new \in DOMAIN orders' /\ \A i \in 1..nextOrderId : i \in DOMAIN orders' <=> i \in DOMAIN orders
    BY <1>1, <1>6, <1>7 DEF new
  <2> QED BY <1>2, <1>7, <2>1 DEF Placed, PlacedIn
<1>11. /\ \A i \in 1..nextOrderId : Placed(i).nonce < nonces[Placed(i).owner] /\ Placed(i) \in OrderRecord
       /\ \A i, j \in 1..nextOrderId :
            (i # j /\ Placed(i).owner = Placed(j).owner) => Placed(i).nonce # Placed(j).nonce
  <2>1. \A i \in 1..nextOrderId : Placed(i) \in OrderRecord
    BY <1>1 DEF Placed, PlacedIn, EscrowType, BondsAccounted, EndRecord
  <2> QED BY <2>1, ReuseIs DEF EscrowInv, NoncesPassed
<1>12. \A i \in 1..nextOrderId : Placed(i).owner = u => Placed(i).nonce # n
  BY <1>1, <1>2, <1>11 DEF OrderRecord, EscrowType
<1>13. NoncesPassed'
  <2>1. o.nonce < nonces'[o.owner]
    BY <1>1, <1>2, <1>3, <1>5 DEF EscrowType
  <2>2. \A i \in 1..nextOrderId : Placed(i).nonce < nonces'[Placed(i).owner]
    <3> TAKE i \in 1..nextOrderId
    <3>1. Placed(i).owner \in Users /\ Placed(i).nonce \in Nat /\ Placed(i).nonce < nonces[Placed(i).owner]
      BY <1>11 DEF OrderRecord
    <3> QED BY <1>1, <1>2, <3>1 DEF EscrowType
  <2> QED BY <1>2, <1>6, <1>10, <2>1, <2>2 DEF NoncesPassed, Placed
<1>14. NoSignatureReuse'
  <2>1. \A i, j \in 1..nextOrderId' :
          (i # j /\ PlacedIn(orders', ended', i).owner = PlacedIn(orders', ended', j).owner) =>
          PlacedIn(orders', ended', i).nonce # PlacedIn(orders', ended', j).nonce
    <3> TAKE i, j \in 1..nextOrderId'
    <3>1. CASE i = new
      BY <1>2, <1>5, <1>6, <1>10, <1>12, <3>1
    <3>2. CASE j = new
      BY <1>2, <1>5, <1>6, <1>10, <1>12, <3>2
    <3>3. CASE i # new /\ j # new
      <4>1. i \in 1..nextOrderId /\ j \in 1..nextOrderId
        BY <1>2, <1>6, <3>3
      <4> QED BY <1>10, <1>11, <4>1
    <3> QED BY <3>1, <3>2, <3>3
  <2> QED BY <2>1 DEF NoSignatureReuse, Placed, PlacedIn
<1> QED BY <1>8, <1>9, <1>13, <1>14 DEF EscrowInv

LEMMA ModifyKeeps ==
  ASSUME EscrowInv, UNCHANGED twapVars, NEW u \in Users, NEW id, NEW s \in OrderSizes, modifyOrder(u, id, s)
  PROVE  EscrowInv'
<1>1. EscrowType /\ BondsAccounted /\ s \in Nat /\ id \in DOMAIN orders
  BY OrderEscrowAssumption DEF EscrowInv, modifyOrder
<1>2. /\ UNCHANGED <<nextOrderId, nonces, ether, stranded, ended, block>>
      /\ orders' = [orders EXCEPT ![id].size = s]
  BY DEF modifyOrder, twapVars
<1>3. /\ DOMAIN orders' = DOMAIN orders
      /\ \A i \in DOMAIN orders : /\ orders'[i] \in OrderRecord
                                  /\ orders'[i].fee = orders[i].fee
                                  /\ orders'[i].owner = orders[i].owner
                                  /\ orders'[i].nonce = orders[i].nonce
  <2>1. \A i \in DOMAIN orders : orders[i] \in OrderRecord
    BY <1>1 DEF EscrowType
  <2>2. [orders[id] EXCEPT !.size = s] \in OrderRecord
    BY <1>1, <2>1 DEF OrderRecord
  <2> QED BY <1>1, <1>2, <2>1, <2>2 DEF OrderRecord
<1>4. EscrowType'
  <2>1. orders' \in [DOMAIN orders' -> OrderRecord]
    BY <1>2, <1>3
  <2> QED BY <1>1, <1>2, <2>1 DEF EscrowType
<1>5. Fees(orders') = Fees(orders)
  BY <1>3 DEF Fees
<1>6. BondsAccounted'
  <2>1. ether' = stranded' + SumFunctionOnSet(Fees(orders'), DOMAIN orders')
    BY <1>1, <1>2, <1>3, <1>5 DEF BondsAccounted, Fees
  <2> QED BY <1>1, <1>2, <1>3, <2>1 DEF BondsAccounted, Fees
<1>7. \A i \in 1..nextOrderId : /\ PlacedIn(orders', ended', i).owner = Placed(i).owner
                                /\ PlacedIn(orders', ended', i).nonce = Placed(i).nonce
  BY <1>2, <1>3 DEF Placed, PlacedIn
<1> QED BY <1>2, <1>4, <1>6, <1>7, SameSignatures DEF EscrowInv

\* A bond leaves with its order, for the recipient or as what it refused.
LEMMA PaidKeeps ==
  ASSUME EscrowInv, UNCHANGED twapVars, NEW id \in DOMAIN orders, NEW to \in Users, NEW accepts \in BOOLEAN,
         NEW how \in {"cancelled", "recycled"}, Paid(id, to, accepts, how),
         to # orders[id].owner => how = "recycled" /\ orders[id].expiry \in 1..block
  PROVE  EscrowInv'
<1> DEFINE D == DOMAIN orders
           e == [how |-> how, to |-> to, order |-> orders[id], at |-> block]
           f == Fees(orders)
           h == Fees(orders')
<1>1. EscrowType /\ BondsAccounted /\ orders[id] \in OrderRecord
  BY DEF EscrowInv, EscrowType
<1>2. /\ orders' = [i \in D \ {id} |-> orders[i]] /\ block' = block
      /\ ether' = IF accepts THEN ether - orders[id].fee ELSE ether
      /\ stranded' = IF accepts THEN stranded ELSE stranded + orders[id].fee
      /\ ended' = [i \in DOMAIN ended \cup {id} |-> IF i = id THEN e ELSE ended[i]]
      /\ UNCHANGED <<nextOrderId, nonces>>
  BY DEF Paid, Without, twapVars
<1>3. e \in EndRecord /\ e.order = orders[id] /\ e.to = to /\ e.how = how /\ e.at = block
  BY <1>1 DEF EndRecord, EscrowType
<1> HIDE DEF e
<1>4. /\ DOMAIN orders' = D \ {id} /\ \A i \in D \ {id} : orders'[i] = orders[i]
      /\ DOMAIN ended' = DOMAIN ended \cup {id} /\ ended'[id] = e
      /\ \A i \in DOMAIN ended \ {id} : ended'[i] = ended[i]
  BY <1>2
<1>5. EscrowType'
  <2>1. orders' \in [DOMAIN orders' -> OrderRecord]
    BY <1>1, <1>2, <1>4 DEF EscrowType
  <2>2. ended' \in [DOMAIN ended' -> EndRecord]
    BY <1>1, <1>2, <1>3, <1>4 DEF EscrowType
  <2>3. ether' \in Int /\ stranded' \in Nat
    BY <1>1, <1>2 DEF EscrowType, OrderRecord
  <2> QED BY <1>1, <1>2, <2>1, <2>2, <2>3 DEF EscrowType
<1>6. IsFiniteSet(D) /\ \A i \in D : f[i] \in Int
  BY <1>1, OrdersFinite
<1>7. f[id] = orders[id].fee /\ orders[id].fee \in Nat /\ \A i \in D \ {id} : h[i] = f[i]
  BY <1>1, <1>4 DEF Fees, OrderRecord
<1>8. ether = stranded + SumFunctionOnSet(f, D)
  BY <1>1 DEF BondsAccounted, Fees
<1>9. D \cap DOMAIN ended = {} /\ D \cup DOMAIN ended = 1..nextOrderId /\ id \in D
  BY <1>1 DEF BondsAccounted
<1>14. h = [i \in DOMAIN orders' |-> orders'[i].fee]
  BY DEF Fees
<1> HIDE DEF f, h, D
<1>10. /\ SumFunctionOnSet(f, D) = f[id] + SumFunctionOnSet(f, D \ {id})
       /\ SumFunctionOnSet(h, D \ {id}) = SumFunctionOnSet(f, D \ {id})
       /\ SumFunctionOnSet(f, D \ {id}) \in Int
  <2>1. IsFiniteSet(D \ {id}) /\ \A i \in D \ {id} : f[i] \in Int
    BY <1>6, FS_RemoveElement
  <2>2. SumFunctionOnSet(f, D) = f[id] + SumFunctionOnSet(f, D \ {id})
    BY <1>6, <1>9, SumRemove
  <2>3. SumFunctionOnSet(h, D \ {id}) = SumFunctionOnSet(f, D \ {id})
    BY <1>7, <2>1, SumSame
  <2>4. SumFunctionOnSet(f, D \ {id}) \in Int
    BY <2>1, SumInt
  <2> QED BY <2>2, <2>3, <2>4
<1>11. BondsAccounted'
  <2>1. ether' = stranded' + SumFunctionOnSet(h, D \ {id})
    BY <1>1, <1>2, <1>7, <1>8, <1>10 DEF EscrowType
  <2>2. ether' = stranded' + SumFunctionOnSet([i \in DOMAIN orders' |-> orders'[i].fee], DOMAIN orders')
    BY <1>4, <1>14, <2>1
  <2>3. DOMAIN orders' \cap DOMAIN ended' = {} /\ DOMAIN orders' \cup DOMAIN ended' = 1..nextOrderId'
    BY <1>2, <1>4, <1>9
  <2>4. \A i \in DOMAIN ended' : ended'[i].to # ended'[i].order.owner =>
          (ended'[i].how = "recycled" /\ ended'[i].order.expiry \in 1..ended'[i].at)
    BY <1>1, <1>3, <1>4 DEF BondsAccounted
  <2> QED BY <2>2, <2>3, <2>4 DEF BondsAccounted
<1>12. \A i \in 1..nextOrderId : PlacedIn(orders', ended', i) = Placed(i)
  BY <1>3, <1>4, <1>9 DEF Placed, PlacedIn, D
<1>13. NoSignatureReuse' /\ NoncesPassed'
  BY <1>2, <1>12, SameSignatures DEF EscrowInv
<1> QED BY <1>5, <1>11, <1>13 DEF EscrowInv

\* For every set of users, bonds and expiries: in any order of placing,
\* modifying, cancelling and clearing away (OrderBook.sol), every bond is paid
\* once, to the owner or after expiry to whoever cleared, the contract holds
\* exactly the rest, and no signature places a second order.
THEOREM EscrowAlwaysSound == EscrowSpec => []EscrowSound
<1> DEFINE Step == \/ EscrowNext /\ UNCHANGED twapVars
                   \/ block' = block + 1 /\ UNCHANGED <<latest, ring, traded, escrowVars>>
<1>1. TwapInit /\ EscrowInit => EscrowInv
  <2> SUFFICES ASSUME TwapInit, EscrowInit PROVE EscrowInv
    OBVIOUS
  <2>1. EscrowType
    BY DEF TwapInit, EscrowInit, EscrowType
  <2>2. DOMAIN orders = {} /\ DOMAIN ended = {} /\ 1..nextOrderId = {}
    BY DEF EscrowInit
  <2>3. BondsAccounted
    <3>1. SumFunctionOnSet([id \in DOMAIN orders |-> orders[id].fee], {}) = 0
      BY SumEmpty
    <3> QED BY <2>2, <3>1 DEF EscrowInit, BondsAccounted
  <2>4. NoSignatureReuse /\ NoncesPassed
    BY <2>2, ReuseIs DEF NoncesPassed
  <2> QED BY <2>1, <2>3, <2>4 DEF EscrowInv
<1>2. EscrowInv /\ [Step]_<<twapVars, escrowVars>> => EscrowInv'
  <2> SUFFICES ASSUME EscrowInv, [Step]_<<twapVars, escrowVars>> PROVE EscrowInv'
    OBVIOUS
  <2>1. CASE EscrowNext /\ UNCHANGED twapVars
    <3>1. ASSUME NEW u \in Users, NEW id, NEW ok \in BOOLEAN, cancelOrder(u, id, ok) PROVE EscrowInv'
      BY <2>1, <3>1, PaidKeeps DEF cancelOrder
    <3>2. ASSUME NEW u \in Users, NEW id, NEW ok \in BOOLEAN, claimRecycleFee(u, id, ok) PROVE EscrowInv'
      <4>1. id \in DOMAIN orders /\ Expired(orders[id]) /\ Paid(id, u, ok, "recycled")
        BY <3>2 DEF claimRecycleFee
      <4>2. orders[id].expiry \in 1..block
        BY <4>1 DEF Expired, EscrowInv, EscrowType, OrderRecord
      <4> QED BY <2>1, <4>1, <4>2, PaidKeeps
    <3> QED BY <2>1, <3>1, <3>2, PlaceKeeps, ModifyKeeps DEF EscrowNext
  <2>2. CASE block' \in {block, block + 1} /\ UNCHANGED escrowVars
    <3>1. EscrowType' /\ BondsAccounted'
      BY <2>2 DEF EscrowInv, EscrowType, BondsAccounted, escrowVars
    <3>2. NoSignatureReuse' /\ NoncesPassed'
      <4>1. \A i \in 1..nextOrderId : PlacedIn(orders', ended', i) = Placed(i)
        BY <2>2 DEF escrowVars, Placed
      <4> QED BY <2>2, <4>1, SameSignatures DEF escrowVars, EscrowInv
    <3> QED BY <3>1, <3>2 DEF EscrowInv
  <2> QED BY <2>1, <2>2 DEF Step, twapVars, escrowVars
<1>3. EscrowInv => EscrowSound
  BY DEF EscrowInv, EscrowSound
<1> QED BY <1>1, <1>2, <1>3, PTL DEF EscrowSpec

-----------------------------------------------------------------------------
(* The range of the prices funding goes by *)

Observation == [block : Nat, volume : Nat, size : Nat]
BoundRecord == [enabled : BOOLEAN, referencePrice : Nat, boundBps : Nat, resetsRemaining : Nat]

TwapType ==
  /\ block \in Nat /\ latest \in Observation
  /\ ring \in [0..WINDOW_BLOCKS - 1 -> Observation]

HubType ==
  /\ pyth \in [price : Nat, at : Nat]
  /\ chainlink \in [price : Nat, at : Nat, complete : BOOLEAN]
  /\ discoveryBounds \in BoundRecord

LEMMA RecordKeeps ==
  ASSUME TwapType, NEW x \in Trades, recordTrade(x)
  PROVE  TwapType'
<1>1. x.price \in Nat /\ x.size \in Nat /\ x.price * x.size \in Nat
  BY ImpactTwapAssumption
<1>2. \A v \in Nat : Cast(v) \in Nat
  <2> DEFINE w == 2^Width
  <2>1. w \in Nat \ {0}
    BY ImpactTwapAssumption
  <2> HIDE DEF w
  <2>2. \A v \in Nat : v % w \in Nat
    BY <2>1
  <2> QED BY <2>2 DEF w, Cast
<1> DEFINE volume == Cast(x.price * x.size)
           size == Cast(x.size)
<1>3. volume \in Nat /\ size \in Nat
  BY <1>1, <1>2
<1> HIDE DEF volume, size
<1>4. record(volume, size) /\ block' = block
  BY DEF recordTrade, volume, size
<1>5. CASE latest.block = block
  <2>1. /\ latest' = [latest EXCEPT !.volume = @ + volume, !.size = @ + size]
        /\ ring' = ring
    BY <1>4, <1>5 DEF record
  <2>2. latest' \in Observation
    <3>1. latest.volume + volume \in Nat /\ latest.size + size \in Nat
      BY <1>3 DEF TwapType, Observation
    <3> DEFINE v == latest.volume + volume
               z == latest.size + size
    <3>2. latest' = [latest EXCEPT !.volume = v, !.size = z]
      BY <2>1
    <3> HIDE DEF v, z
    <3> QED BY <3>1, <3>2 DEF TwapType, Observation, v, z
  <2> QED BY <1>4, <2>1, <2>2 DEF TwapType
<1>6. CASE latest.block # block
  <2>1. latest' \in Observation
    BY <1>3, <1>4, <1>6 DEF record, TwapType, Observation
  <2>2. latest.block % WINDOW_BLOCKS \in 0..WINDOW_BLOCKS - 1
    BY ImpactTwapAssumption DEF TwapType, Observation
  <2>3. ring' \in [0..WINDOW_BLOCKS - 1 -> Observation]
    BY <1>4, <1>6, <2>2 DEF record, TwapType
  <2> QED BY <1>4, <2>1, <2>3 DEF TwapType
<1> QED BY <1>5, <1>6

LEMMA MeanNat ==
  ASSUME TwapType
  PROVE  meanBlockVwap.mean \in Nat
<1> DEFINE slots == {i \in DOMAIN ring : InWindow(ring[i])}
           f == [i \in slots |-> ring[i].volume \div ring[i].size]
           own == IF InWindow(latest) THEN latest.volume \div latest.size ELSE 0
           sum == SumFunctionOnSet(f, slots) + own
           count == Cardinality(slots) + (IF InWindow(latest) THEN 1 ELSE 0)
<1>1. \A o \in Observation : InWindow(o) => o.volume \div o.size \in Nat
  BY DEF Observation, InWindow
<1>2. \A i \in slots : f[i] \in Nat
  <2> SUFFICES ASSUME NEW i \in slots PROVE f[i] \in Nat
    OBVIOUS
  <2>1. ring[i] \in Observation /\ InWindow(ring[i])
    BY DEF TwapType
  <2> QED BY <1>1, <2>1
<1>3. IsFiniteSet(slots)
  <2> DEFINE last == WINDOW_BLOCKS - 1
  <2>1. 0 \in Int /\ last \in Int /\ slots \subseteq 0..last
    BY ImpactTwapAssumption DEF TwapType
  <2> HIDE DEF last, slots
  <2>2. IsFiniteSet(0..last)
    BY <2>1, FS_Interval
  <2> QED BY <2>1, <2>2, FS_Subset
<1>4. own \in Nat
  BY <1>1 DEF TwapType
<1>5. meanBlockVwap.mean = IF count = 0 THEN 0 ELSE sum \div count
  BY DEF meanBlockVwap
<1> HIDE DEF slots, f, own
<1>6. sum \in Nat /\ count \in Nat
  <2>1. SumFunctionOnSet(f, slots) \in Nat
    BY <1>2, <1>3, SumNat
  <2>2. Cardinality(slots) \in Nat
    BY <1>3, FS_CardinalityType
  <2> QED BY <1>4, <2>1, <2>2
<1> HIDE DEF sum, count
<1> QED BY <1>5, <1>6

\* The middle of three numbers is one of them.
LEMMA MedianOfThree ==
  ASSUME NEW x \in Int, NEW y \in Int, NEW z \in Int
  PROVE  _medianOf3(x, y, z) \in {x, y, z}
<1> DEFINE p == <<x, y, z>>
           q == IF x > y THEN <<y, x, z>> ELSE p
<1>1. Swapped(p, 1, 2) = q
  BY DEF Swapped
<1> HIDE DEF q
<1>2. q \in [1..3 -> {x, y, z}]
  BY DEF q
<1>3. Swapped(q, 2, 3) \in [1..3 -> {x, y, z}]
  BY <1>2 DEF Swapped
<1> DEFINE r == Swapped(q, 2, 3)
<1> HIDE DEF r
<1>4. Swapped(r, 1, 2) \in [1..3 -> {x, y, z}]
  BY <1>3 DEF Swapped, r
<1> QED BY <1>1, <1>4 DEF _medianOf3, r

LEMMA MarkInt ==
  ASSUME TwapType, HubType
  PROVE  markPrice \in Int
<1>1. meanBlockVwap.mean \in Nat
  BY MeanNat
<1>2. _tertiaryPrice \in Int /\ pyth.price \in Int /\ chainlink.price \in Int
  BY <1>1 DEF _tertiaryPrice, HubType
<1>3. LivePrice \in Int
  BY <1>2, MedianOfThree DEF LivePrice
<1> QED BY <1>3 DEF markPrice, HubType, BoundRecord, Unavailable

\* Whatever the prices, the rate is clamped.
LEMMA RatioClamped ==
  ASSUME TwapType, HubType, pythPrimary # Unavailable
  PROVE  /\ MaxRate \in Nat /\ Ratio \in Int
         /\ -MaxRate <= Ratio /\ Ratio <= MaxRate
<1>1. pythPrimary \in Nat \ {0}
  BY DEF pythPrimary, HubType, isPriceLive
<1>2. markPrice \in Int
  BY MarkInt
<1>3. MaxRate \in Nat
  BY PerpMarketAssumption DEF MaxRate, FUNDING_MAX_RATE_BPS_PER_SEC, BPS
<1> DEFINE apart == IF markPrice >= pythPrimary
                    THEN ((markPrice - pythPrimary) * INDEX_SCALE) \div pythPrimary
                    ELSE -(((pythPrimary - markPrice) * INDEX_SCALE) \div pythPrimary)
           m == -MaxRate
           lower == Min({MaxRate, apart})
<1>4. apart \in Int
  <2> DEFINE x == (markPrice - pythPrimary) * INDEX_SCALE
             y == (pythPrimary - markPrice) * INDEX_SCALE
  <2>1. x \in Int /\ y \in Int
    BY <1>1, <1>2, PerpMarketAssumption
  <2> HIDE DEF x, y
  <2>2. x \div pythPrimary \in Int /\ y \div pythPrimary \in Int
    BY <1>1, <2>1
  <2> QED BY <2>2 DEF x, y
<1>5. Ratio = Max({m, lower})
  BY DEF Ratio
<1> HIDE DEF apart
<1>6. lower \in Int /\ lower <= MaxRate
  <2>1. lower \in {MaxRate, apart} /\ lower <= MaxRate
    BY <1>3, <1>4, MinTwo
  <2> QED BY <1>3, <1>4, <2>1
<1> HIDE DEF lower
<1>7. m \in Int /\ m <= MaxRate
  BY <1>3
<1> HIDE DEF m
<1>8. Max({m, lower}) \in {m, lower} /\ m <= Max({m, lower})
  BY <1>6, <1>7, MaxTwo
<1> QED BY <1>3, <1>5, <1>6, <1>7, <1>8 DEF m

-----------------------------------------------------------------------------
(* Funding over the oracle hub *)

\* What a position owed at the last update is within the cap of the blocks
\* from its stamp to that update.
FundingInv ==
  /\ fundingIndex \in Int /\ lastIndexUpdateBlock \in Nat /\ lastIndexUpdateBlock <= block
  /\ DOMAIN openedAt = DOMAIN entryFundingIndex
  /\ \A p \in DOMAIN entryFundingIndex :
       /\ entryFundingIndex[p] \in Int /\ openedAt[p] \in Nat /\ openedAt[p] <= lastIndexUpdateBlock
       /\ fundingIndex - entryFundingIndex[p] <= MaxRate * (lastIndexUpdateBlock - openedAt[p])
       /\ entryFundingIndex[p] - fundingIndex <= MaxRate * (lastIndexUpdateBlock - openedAt[p])

LEMMA MaxRateNat == MaxRate \in Nat
BY PerpMarketAssumption DEF MaxRate, FUNDING_MAX_RATE_BPS_PER_SEC, BPS

\* The index an update would store is within the caps up to now.
LEMMA CurrentCapped ==
  ASSUME TwapType, HubType, FundingInv, CanUpdate
  PROVE  /\ _computeCurrentFundingIndex \in Int
         /\ \A p \in DOMAIN entryFundingIndex :
              /\ _computeCurrentFundingIndex - entryFundingIndex[p] <= MaxRate * (block - openedAt[p])
              /\ entryFundingIndex[p] - _computeCurrentFundingIndex <= MaxRate * (block - openedAt[p])
<1>1. CASE block = lastIndexUpdateBlock
  BY <1>1 DEF _computeCurrentFundingIndex, FundingInv
<1>2. CASE block # lastIndexUpdateBlock
  <2> DEFINE n == block - lastIndexUpdateBlock
  <2>1. /\ MaxRate \in Nat /\ Ratio \in Int
        /\ -MaxRate <= Ratio /\ Ratio <= MaxRate
    BY <1>2, RatioClamped DEF CanUpdate
  <2>2. n \in Nat /\ _computeCurrentFundingIndex = fundingIndex + Ratio * n
    BY <1>2 DEF _computeCurrentFundingIndex, FundingInv, TwapType
  <2>3. Ratio * n \in Int
    BY <2>1, <2>2
  <2> HIDE DEF n
  <2>4. ASSUME NEW p \in DOMAIN entryFundingIndex
        PROVE  /\ _computeCurrentFundingIndex - entryFundingIndex[p] <= MaxRate * (block - openedAt[p])
               /\ entryFundingIndex[p] - _computeCurrentFundingIndex <= MaxRate * (block - openedAt[p])
    <3> DEFINE d == fundingIndex - entryFundingIndex[p]
               k == lastIndexUpdateBlock - openedAt[p]
    <3>1. /\ fundingIndex \in Int /\ entryFundingIndex[p] \in Int /\ d \in Int /\ k \in Nat
          /\ d <= MaxRate * k /\ -d <= MaxRate * k
          /\ -d = entryFundingIndex[p] - fundingIndex
      BY <2>1, <2>4 DEF FundingInv
    <3>2. n + k = block - openedAt[p]
      BY <2>4 DEF FundingInv, TwapType, n
    <3>3. _computeCurrentFundingIndex - entryFundingIndex[p] = d + Ratio * n
      BY <2>2, <2>3, <3>1
    <3>4. entryFundingIndex[p] - _computeCurrentFundingIndex = -(d + Ratio * n)
      BY <2>2, <2>3, <3>1
    <3> HIDE DEF d, k
    <3>5. d + Ratio * n <= MaxRate * (n + k) /\ -(d + Ratio * n) <= MaxRate * (n + k)
      BY <2>1, <2>2, <3>1, CapsAdd
    <3> QED BY <3>2, <3>3, <3>4, <3>5
  <2>5. fundingIndex \in Int
    BY DEF FundingInv
  <2> QED BY <2>2, <2>3, <2>4, <2>5
<1> QED BY <1>1, <1>2

LEMMA FundingInvEnough ==
  ASSUME TwapType, HubType, FundingInv
  PROVE  FundingCapped
<1> SUFFICES ASSUME CanUpdate, NEW p \in DOMAIN entryFundingIndex
             PROVE  /\ -(MaxRate * (block - openedAt[p])) <= _computeCurrentFundingIndex - entryFundingIndex[p]
                    /\ _computeCurrentFundingIndex - entryFundingIndex[p] <= MaxRate * (block - openedAt[p])
  BY DEF FundingCapped
<1> DEFINE cap == MaxRate * (block - openedAt[p])
           now1 == _computeCurrentFundingIndex
<1>1. /\ now1 \in Int /\ now1 - entryFundingIndex[p] <= cap /\ entryFundingIndex[p] - now1 <= cap
  BY CurrentCapped
<1>2. entryFundingIndex[p] \in Int /\ cap \in Int
  BY MaxRateNat DEF FundingInv, TwapType
<1> HIDE DEF cap, now1
<1> QED BY <1>1, <1>2 DEF cap, now1

\* An update, with or without a stamp on some positions.
LEMMA UpdateKeeps ==
  ASSUME TwapType, HubType, FundingInv, _updateFundingIndexInternal, block' = block,
         \/ UNCHANGED <<entryFundingIndex, openedAt>>
         \/ \E ps : Stamped(ps)
  PROVE  FundingInv'
<1>1. /\ fundingIndex' = _computeCurrentFundingIndex /\ lastIndexUpdateBlock' = block
      /\ fundingIndex' \in Int
      /\ \A p \in DOMAIN entryFundingIndex :
           /\ fundingIndex' - entryFundingIndex[p] <= MaxRate * (block - openedAt[p])
           /\ entryFundingIndex[p] - fundingIndex' <= MaxRate * (block - openedAt[p])
  <2>1. CanUpdate /\ fundingIndex' = _computeCurrentFundingIndex /\ lastIndexUpdateBlock' = block
    BY DEF _updateFundingIndexInternal
  <2> QED BY <2>1, CurrentCapped
<1>2. /\ block \in Nat /\ DOMAIN openedAt = DOMAIN entryFundingIndex
      /\ \A p \in DOMAIN entryFundingIndex :
           entryFundingIndex[p] \in Int /\ openedAt[p] \in Nat /\ openedAt[p] <= block
  BY DEF FundingInv, TwapType
<1>3. CASE UNCHANGED <<entryFundingIndex, openedAt>>
  BY <1>1, <1>2, <1>3 DEF FundingInv
<1>4. ASSUME NEW ps, Stamped(ps) PROVE FundingInv'
  <2>1. /\ DOMAIN entryFundingIndex' = DOMAIN entryFundingIndex \cup ps
        /\ DOMAIN openedAt' = DOMAIN entryFundingIndex \cup ps
        /\ \A p \in DOMAIN entryFundingIndex \cup ps :
             IF p \in ps THEN entryFundingIndex'[p] = fundingIndex' /\ openedAt'[p] = block
             ELSE entryFundingIndex'[p] = entryFundingIndex[p] /\ openedAt'[p] = openedAt[p]
    BY <1>1, <1>2, <1>4 DEF Stamped
  <2>2. MaxRate * (block - block) = 0 /\ fundingIndex' - fundingIndex' = 0
    BY <1>1, <1>2, MaxRateNat
  <2>3. \A p \in DOMAIN entryFundingIndex' :
          /\ entryFundingIndex'[p] \in Int /\ openedAt'[p] \in Nat /\ openedAt'[p] <= block
          /\ fundingIndex' - entryFundingIndex'[p] <= MaxRate * (block - openedAt'[p])
          /\ entryFundingIndex'[p] - fundingIndex' <= MaxRate * (block - openedAt'[p])
    <3> TAKE p \in DOMAIN entryFundingIndex'
    <3>1. CASE p \in ps
      BY <1>1, <1>2, <2>1, <2>2, <3>1
    <3>2. CASE p \notin ps
      <4>1. /\ p \in DOMAIN entryFundingIndex
            /\ entryFundingIndex'[p] = entryFundingIndex[p] /\ openedAt'[p] = openedAt[p]
        BY <2>1, <3>2
      <4> QED BY <1>1, <1>2, <4>1
    <3> QED BY <3>1, <3>2
  <2> QED BY <1>1, <1>2, <2>1, <2>3 DEF FundingInv
<1> QED BY <1>3, <1>4

\* Blocks passed over only leave a position further below its cap.
LEMMA OtherKeeps ==
  ASSUME TwapType, FundingInv, updateOtherIndex
  PROVE  FundingInv' /\ UNCHANGED <<hubVars, twapVars>>
<1>1. /\ lastIndexUpdateBlock' = block /\ block' = block
      /\ UNCHANGED <<fundingIndex, entryFundingIndex, openedAt, hubVars, twapVars>>
  BY DEF updateOtherIndex, twapVars
<1>2. ASSUME NEW p \in DOMAIN entryFundingIndex
      PROVE  MaxRate * (lastIndexUpdateBlock - openedAt[p]) <= MaxRate * (block - openedAt[p])
  <2> DEFINE k == lastIndexUpdateBlock - openedAt[p]
             n == block - lastIndexUpdateBlock
             r == MaxRate
  <2>1. k \in Nat /\ n \in Nat /\ r \in Nat /\ block - openedAt[p] = k + n
    BY <1>2, MaxRateNat DEF FundingInv, TwapType
  <2> HIDE DEF k, n, r
  <2>2. r * k <= r * (k + n)
    <3> DEFINE a1 == r * k
               b1 == r * n
    <3>1. a1 \in Nat /\ b1 \in Nat /\ r * (k + n) = a1 + b1
      BY <2>1
    <3> HIDE DEF a1, b1
    <3> QED BY <3>1 DEF a1
  <2> QED BY <2>1, <2>2 DEF k, r
<1>3. ASSUME NEW p \in DOMAIN entryFundingIndex
      PROVE  /\ entryFundingIndex[p] \in Int /\ openedAt[p] \in Nat /\ openedAt[p] <= block
             /\ fundingIndex - entryFundingIndex[p] <= MaxRate * (block - openedAt[p])
             /\ entryFundingIndex[p] - fundingIndex <= MaxRate * (block - openedAt[p])
  <2> DEFINE c1 == MaxRate * (lastIndexUpdateBlock - openedAt[p])
             c2 == MaxRate * (block - openedAt[p])
  <2>1. /\ entryFundingIndex[p] \in Int /\ openedAt[p] \in Nat /\ fundingIndex \in Int
        /\ openedAt[p] <= lastIndexUpdateBlock /\ lastIndexUpdateBlock <= block
        /\ lastIndexUpdateBlock \in Nat /\ block \in Nat
        /\ fundingIndex - entryFundingIndex[p] <= c1 /\ entryFundingIndex[p] - fundingIndex <= c1
    BY <1>3 DEF FundingInv, TwapType
  <2>2. c1 <= c2 /\ c1 \in Int /\ c2 \in Int
    BY <1>2, <1>3, <2>1, MaxRateNat
  <2> HIDE DEF c1, c2
  <2>3. fundingIndex - entryFundingIndex[p] <= c2 /\ entryFundingIndex[p] - fundingIndex <= c2
    BY <2>1, <2>2
  <2> QED BY <2>1, <2>3 DEF c2
<1>4. FundingInv'
  BY <1>1, <1>3 DEF FundingInv, TwapType, MaxRate
<1> QED BY <1>1, <1>4

\* A stamp with the stored index, or none.
LEMMA HookKeeps ==
  ASSUME TwapType, FundingInv, NEW p, StampedByAnyone(p) \/ afterClosePosition(p)
  PROVE  FundingInv' /\ UNCHANGED <<hubVars, twapVars>>
<1>1. /\ UNCHANGED <<fundingIndex, lastIndexUpdateBlock, hubVars, twapVars>> /\ block' = block
  BY DEF StampedByAnyone, afterClosePosition, twapVars
<1>2. /\ DOMAIN openedAt' = DOMAIN entryFundingIndex'
      /\ \A q \in DOMAIN entryFundingIndex' :
           \/ entryFundingIndex'[q] = fundingIndex /\ openedAt'[q] = lastIndexUpdateBlock
           \/ /\ q \in DOMAIN entryFundingIndex
              /\ entryFundingIndex'[q] = entryFundingIndex[q] /\ openedAt'[q] = openedAt[q]
  <2>1. DOMAIN openedAt = DOMAIN entryFundingIndex
    BY DEF FundingInv
  <2>2. CASE StampedByAnyone(p)
    BY <1>1, <2>1, <2>2 DEF StampedByAnyone, Stamped
  <2>3. CASE afterClosePosition(p)
    BY <2>1, <2>3 DEF afterClosePosition
  <2> QED BY <2>2, <2>3
<1>3. MaxRate * (lastIndexUpdateBlock - lastIndexUpdateBlock) = 0 /\ fundingIndex - fundingIndex = 0
  BY MaxRateNat DEF FundingInv
<1>4. FundingInv'
  BY <1>1, <1>2, <1>3 DEF FundingInv, MaxRate
<1> QED BY <1>1, <1>4

-----------------------------------------------------------------------------
(* Funding at a pushed rate *)

FxInv ==
  /\ block \in Nat
  /\ rateDifferentialBps \in Int /\ fxIndex \in Int /\ lastIndexUpdateTimestamp \in Int
  /\ accrued \in Int /\ swallowed \in Int
  /\ DOMAIN accruedAt = DOMAIN fxEntry
  /\ \A p \in DOMAIN fxEntry : fxEntry[p] \in Int /\ accruedAt[p] \in Int
  /\ FxFundingExact

LEMMA QuotInt ==
  ASSUME NEW x \in Int, NEW y \in Nat \ {0}
  PROVE  Quot(x, y) \in Int
BY DEF Quot

LEMMA RateInt ==
  ASSUME FxInv
  PROVE  perSecondRate \in Int /\ fxPending \in Int /\ fxCurrentFundingIndex \in Int
<1> DEFINE x == rateDifferentialBps * FX_SCALE
           n == block - lastIndexUpdateTimestamp
<1>1. x \in Int /\ BPS \in Nat \ {0} /\ SECONDS_PER_YEAR \in Nat \ {0} /\ n \in Int /\ fxIndex \in Int
  BY FxPerpMarketAssumption DEF FxInv, BPS
<1> HIDE DEF x, n
<1>2. perSecondRate \in Int
  BY <1>1, QuotInt DEF perSecondRate, x
<1>3. perSecondRate * n \in Int
  BY <1>1, <1>2
<1> QED BY <1>1, <1>2, <1>3 DEF fxPending, fxCurrentFundingIndex, n

\* Nothing is pending where the timestamp is the block's.
LEMMA FxNonePending ==
  ASSUME FxInv, lastIndexUpdateTimestamp' = block, block' = block, rateDifferentialBps' \in Int,
         fxIndex' \in Int
  PROVE  fxCurrentFundingIndex' = fxIndex' /\ lastIndexUpdateTimestamp' \in Int
<1> DEFINE x == rateDifferentialBps' * FX_SCALE
<1>1. lastIndexUpdateTimestamp' = block /\ block \in Nat
  BY DEF FxInv
<1>2. x \in Int /\ BPS \in Nat \ {0} /\ SECONDS_PER_YEAR \in Nat \ {0}
  BY FxPerpMarketAssumption DEF BPS
<1> HIDE DEF x
<1>3. perSecondRate' \in Int
  BY <1>2, QuotInt DEF perSecondRate, x
<1>4. perSecondRate' * (block' - lastIndexUpdateTimestamp') = 0
  <2> DEFINE r == perSecondRate'
             n == block' - lastIndexUpdateTimestamp'
  <2>1. r \in Int /\ n = 0
    BY <1>1, <1>3
  <2> HIDE DEF r, n
  <2>2. r * n = 0
    BY <2>1
  <2> QED BY <2>2 DEF r, n
<1> QED BY <1>1, <1>4 DEF fxCurrentFundingIndex, fxPending

\* An update leaves what everyone owes as it was.
LEMMA FxUpdated ==
  ASSUME FxInv, fxUpdateFundingIndexInternal, block' = block, rateDifferentialBps' \in Int
  PROVE  /\ fxIndex' = fxCurrentFundingIndex /\ fxCurrentFundingIndex' = fxIndex'
         /\ fxIndex' \in Int /\ lastIndexUpdateTimestamp' \in Int
<1>1. fxIndex' = fxCurrentFundingIndex /\ fxIndex' \in Int /\ lastIndexUpdateTimestamp' = block
  BY RateInt DEF fxUpdateFundingIndexInternal
<1> QED BY <1>1, FxNonePending

LEMMA FxStep ==
  ASSUME FxInv, FxNext, block' = block
  PROVE  FxInv'
<1>1. ASSUME fxUpdateFundingIndexInternal, rateDifferentialBps' \in Int,
             UNCHANGED <<fxEntry, accrued, swallowed, accruedAt>>
      PROVE  FxInv'
  <2>1. /\ fxIndex' = fxCurrentFundingIndex /\ fxCurrentFundingIndex' = fxIndex'
        /\ fxIndex' \in Int /\ lastIndexUpdateTimestamp' \in Int
    BY <1>1, FxUpdated
  <2>2. FxFundingExact'
    BY <1>1, <2>1 DEF FxFundingExact, FxInv
  <2> QED BY <1>1, <2>1, <2>2 DEF FxInv
<1>2. ASSUME NEW bps \in Rates, setRateDifferential(bps) PROVE FxInv'
  BY <1>1, <1>2 DEF setRateDifferential
<1>3. CASE fxUpdateFundingIndex
  BY <1>1, <1>3 DEF fxUpdateFundingIndex, FxInv
<1>4. ASSUME NEW ps, fxOpen(ps) PROVE FxInv'
  <2>1. /\ fxIndex' = fxCurrentFundingIndex /\ fxCurrentFundingIndex' = fxIndex'
        /\ fxIndex' \in Int /\ lastIndexUpdateTimestamp' \in Int
    BY <1>4, FxUpdated DEF fxOpen, FxInv
  <2>2. /\ DOMAIN fxEntry' = DOMAIN fxEntry \cup ps /\ DOMAIN accruedAt' = DOMAIN fxEntry \cup ps
        /\ UNCHANGED <<rateDifferentialBps, accrued, swallowed>>
        /\ \A p \in DOMAIN fxEntry \cup ps :
             IF p \in ps THEN fxEntry'[p] = fxIndex' /\ accruedAt'[p] = accrued - swallowed
             ELSE fxEntry'[p] = fxEntry[p] /\ accruedAt'[p] = accruedAt[p]
    BY <1>4 DEF fxOpen, FxStamped, FxInv
  <2>3. \A p \in DOMAIN fxEntry' : fxEntry'[p] \in Int /\ accruedAt'[p] \in Int
    BY <2>1, <2>2 DEF FxInv
  <2>4. \A p \in DOMAIN fxEntry' : fxIndex' - fxEntry'[p] = accrued - swallowed - accruedAt'[p]
    <3> TAKE p \in DOMAIN fxEntry'
    <3>1. CASE p \in ps
      BY <2>1, <2>2, <3>1 DEF FxInv
    <3>2. CASE p \notin ps
      BY <2>1, <2>2, <3>2 DEF FxInv, FxFundingExact
    <3> QED BY <3>1, <3>2
  <2>5. FxFundingExact'
    BY <2>1, <2>2, <2>4 DEF FxFundingExact
  <2> QED BY <2>1, <2>2, <2>3, <2>5 DEF FxInv
<1>5. CASE fxUpdateOtherIndex
  <2>1. /\ fxIndex' = fxIndex /\ rateDifferentialBps' = rateDifferentialBps
        /\ lastIndexUpdateTimestamp' = block /\ swallowed' = swallowed + fxPending
        /\ UNCHANGED <<fxEntry, accrued, accruedAt>>
    BY <1>5 DEF fxUpdateOtherIndex
  <2>2. fxCurrentFundingIndex' = fxIndex' /\ lastIndexUpdateTimestamp' \in Int
    BY <2>1, FxNonePending DEF FxInv
  <2>3. fxPending \in Int /\ fxCurrentFundingIndex = fxIndex + fxPending
    BY RateInt DEF fxCurrentFundingIndex
  <2>4. FxFundingExact'
    BY <2>1, <2>2, <2>3 DEF FxFundingExact, FxInv
  <2> QED BY <2>1, <2>2, <2>3, <2>4 DEF FxInv
<1>6. ASSUME NEW p \in FxPositions, fxStampedByAnyone(p) PROVE FxInv'
  <2> DEFINE sum == accrued - swallowed - fxPending
  <2>1. /\ UNCHANGED <<rateDifferentialBps, fxIndex, lastIndexUpdateTimestamp, accrued, swallowed>>
        /\ DOMAIN fxEntry' = DOMAIN fxEntry \cup {p} /\ DOMAIN accruedAt' = DOMAIN fxEntry \cup {p}
        /\ \A q \in DOMAIN fxEntry \cup {p} :
             IF q = p THEN fxEntry'[q] = fxIndex /\ accruedAt'[q] = sum
             ELSE fxEntry'[q] = fxEntry[q] /\ accruedAt'[q] = accruedAt[q]
    BY <1>6 DEF fxStampedByAnyone, FxStamped, FxInv
  <2>2. fxPending \in Int /\ fxCurrentFundingIndex = fxIndex + fxPending /\ fxCurrentFundingIndex \in Int
    BY RateInt DEF fxCurrentFundingIndex
  <2>3. fxCurrentFundingIndex' = fxCurrentFundingIndex
    BY <2>1 DEF fxCurrentFundingIndex, fxPending, perSecondRate
  <2>4. /\ accrued \in Int /\ swallowed \in Int /\ fxIndex \in Int
        /\ \A q \in DOMAIN fxEntry :
             /\ fxEntry[q] \in Int /\ accruedAt[q] \in Int
             /\ fxCurrentFundingIndex - fxEntry[q] = accrued - swallowed - accruedAt[q]
    BY DEF FxInv, FxFundingExact
  <2>5. \A q \in DOMAIN fxEntry' :
          /\ fxEntry'[q] \in Int /\ accruedAt'[q] \in Int
          /\ fxCurrentFundingIndex - fxEntry'[q] = accrued - swallowed - accruedAt'[q]
    <3> TAKE q \in DOMAIN fxEntry'
    <3>1. CASE q = p
      BY <2>1, <2>2, <2>4, <3>1
    <3>2. CASE q # p
      <4>1. q \in DOMAIN fxEntry /\ fxEntry'[q] = fxEntry[q] /\ accruedAt'[q] = accruedAt[q]
        BY <2>1, <3>2
      <4> QED BY <2>4, <4>1
    <3> QED BY <3>1, <3>2
  <2>6. FxFundingExact'
    BY <2>1, <2>3, <2>5 DEF FxFundingExact
  <2> QED BY <2>1, <2>5, <2>6 DEF FxInv
<1>7. ASSUME NEW p \in FxPositions, fxAfterClosePosition(p) PROVE FxInv'
  <2>1. /\ UNCHANGED <<rateDifferentialBps, fxIndex, lastIndexUpdateTimestamp, accrued, swallowed>>
        /\ DOMAIN fxEntry' = DOMAIN fxEntry \ {p} /\ DOMAIN accruedAt' = DOMAIN fxEntry \ {p}
        /\ \A q \in DOMAIN fxEntry \ {p} : fxEntry'[q] = fxEntry[q] /\ accruedAt'[q] = accruedAt[q]
    BY <1>7 DEF fxAfterClosePosition, FxInv
  <2>2. fxCurrentFundingIndex' = fxCurrentFundingIndex
    BY <2>1 DEF fxCurrentFundingIndex, fxPending, perSecondRate
  <2>3. FxFundingExact'
    BY <2>1, <2>2 DEF FxFundingExact, FxInv
  <2> QED BY <2>1, <2>3 DEF FxInv
<1> QED BY <1>2, <1>3, <1>4, <1>5, <1>6, <1>7 DEF FxNext

LEMMA FxSecond ==
  ASSUME FxInv, FxElapse, block' = block + 1
  PROVE  FxInv'
<1> DEFINE n == block - lastIndexUpdateTimestamp
           r == perSecondRate
<1>1. r \in Int /\ n \in Int /\ fxIndex \in Int /\ fxCurrentFundingIndex = fxIndex + r * n
      /\ block' - lastIndexUpdateTimestamp' = n + 1
  BY RateInt DEF FxElapse, FxInv, fxCurrentFundingIndex, fxPending
<1>2. perSecondRate' = r /\ fxIndex' = fxIndex /\ accrued' = accrued + r
      /\ UNCHANGED <<fxEntry, swallowed, accruedAt, rateDifferentialBps, lastIndexUpdateTimestamp>>
  BY DEF FxElapse, perSecondRate
<1>3. fxCurrentFundingIndex' = fxIndex + r * (n + 1)
  <2> HIDE DEF n, r
  <2> QED BY <1>1, <1>2 DEF fxCurrentFundingIndex, fxPending
<1> HIDE DEF n, r
<1>4. fxCurrentFundingIndex' = fxCurrentFundingIndex + r /\ fxCurrentFundingIndex \in Int
  <2> DEFINE z == r * n
  <2>1. r * (n + 1) = z + r /\ z \in Int
    BY <1>1
  <2> HIDE DEF z
  <2> QED BY <1>1, <1>3, <2>1 DEF z
<1>5. FxFundingExact'
  <2>1. \A p \in DOMAIN fxEntry : fxCurrentFundingIndex - fxEntry[p] = accrued - swallowed - accruedAt[p]
    BY DEF FxInv, FxFundingExact
  <2>2. /\ accrued \in Int /\ swallowed \in Int
        /\ \A p \in DOMAIN fxEntry : fxEntry[p] \in Int /\ accruedAt[p] \in Int
    BY DEF FxInv
  <2>3. \A p \in DOMAIN fxEntry :
          fxCurrentFundingIndex + r - fxEntry[p] = accrued + r - swallowed - accruedAt[p]
    BY <1>1, <1>4, <2>1, <2>2
  <2>4. /\ fxEntry' = fxEntry /\ accruedAt' = accruedAt /\ swallowed' = swallowed
        /\ accrued' = accrued + r /\ fxCurrentFundingIndex' = fxCurrentFundingIndex + r
    BY <1>2, <1>4
  <2>5. \A p \in DOMAIN fxEntry' :
          fxCurrentFundingIndex' - fxEntry'[p] = accrued' - swallowed' - accruedAt'[p]
    BY <1>1, <1>4, <2>2, <2>3, <2>4
  <2> QED BY <2>5 DEF FxFundingExact
<1> QED BY <1>1, <1>2, <1>5 DEF FxInv

-----------------------------------------------------------------------------
(* Both markets in the composed specification *)

MarketInv ==
  /\ TwapType /\ HubType /\ FundingInv
  /\ IF scenario = "fx" THEN FxInv ELSE DOMAIN fxEntry = {}

LEMMA MarketStart == MCInit => MarketInv
<1> SUFFICES ASSUME MCInit PROVE MarketInv
  OBVIOUS
<1>1. TwapInit /\ HubInit /\ FundingInit /\ FxInit
  BY DEF MCInit, HubInit
<1>2. TwapType
  BY <1>1 DEF TwapInit, TwapType, None, Observation
<1>3. HubType
  BY <1>1 DEF HubInit, HubType, BoundRecord
<1>4. FundingInv
  BY <1>1 DEF TwapInit, FundingInit, FundingInv
<1>5. DOMAIN fxEntry = {} /\ FxInv
  BY <1>1 DEF TwapInit, FxInit, FxInv, FxFundingExact
<1> QED BY <1>2, <1>3, <1>4, <1>5 DEF MarketInv

\* A step that leaves the funding of the hub's market alone while blocks go by.
LEMMA FundingAlone ==
  ASSUME FundingInv, TwapType, UNCHANGED fundingVars, block' \in {block, block + 1}
  PROVE  FundingInv'
BY DEF FundingInv, TwapType, fundingVars, MaxRate

LEMMA TwapAlone ==
  ASSUME TwapType, UNCHANGED <<latest, ring>>, block' \in {block, block + 1}
  PROVE  TwapType'
BY DEF TwapType

LEMMA HubKeeps ==
  ASSUME HubType, TwapType, HubNext
  PROVE  HubType' /\ UNCHANGED twapVars
<1> USE DEF HubType, feeds
<1>1. ASSUME NEW d \in Bounds, setDiscoveryBounds(d) PROVE HubType' /\ UNCHANGED twapVars
  <2>1. d \in BoundRecord
    BY OracleHubAssumption DEF BoundRecord
  <2> QED BY <1>1, <2>1 DEF setDiscoveryBounds
<1>2. CASE refreshDiscoveryReference
  <2> DEFINE d == discoveryBounds
             ref == d.referencePrice
  <2>1. d \in BoundRecord /\ ref \in Nat /\ d.boundBps \in Nat /\ d.resetsRemaining \in Nat
    BY DEF BoundRecord
  <2>2. BoundAmount(ref, d.boundBps) \in Nat
    <3> HIDE DEF d, ref
    <3>1. ref * d.boundBps \in Nat /\ BPS \in Nat \ {0}
      BY <2>1 DEF BPS
    <3> QED BY <3>1 DEF BoundAmount
  <2>3. Lo(ref, d.boundBps) \in Nat /\ Hi(ref, d.boundBps) \in Nat
    <3> HIDE DEF d, ref
    <3> QED BY <2>1, <2>2 DEF Lo, Hi
  <2>4. \A x \in Nat : d.resetsRemaining # 0 =>
          [d EXCEPT !.referencePrice = x, !.resetsRemaining = d.resetsRemaining - 1] \in BoundRecord
    <3> SUFFICES ASSUME NEW x \in Nat, d.resetsRemaining # 0
                 PROVE  [d EXCEPT !.referencePrice = x, !.resetsRemaining = d.resetsRemaining - 1] \in BoundRecord
      OBVIOUS
    <3> DEFINE left == d.resetsRemaining - 1
    <3>1. left \in Nat
      BY <2>1
    <3> HIDE DEF left, d
    <3>2. [d EXCEPT !.referencePrice = x, !.resetsRemaining = left] \in BoundRecord
      BY <2>1, <3>1 DEF BoundRecord
    <3> QED BY <3>2 DEF left
  <2>5. Reanchored(d) \in BoundRecord
    <3> HIDE DEF d
    <3> QED BY <2>1, <2>3, <2>4, Zenon DEF Reanchored, ref
  <2> QED BY <1>2, <2>5 DEF refreshDiscoveryReference
<1>3. CASE tripIfDiverged \/ unpause
  BY <1>3 DEF tripIfDiverged, unpause
<1>4. ASSUME NEW bps, setMaxDivergenceBps(bps) PROVE HubType' /\ UNCHANGED twapVars
  BY <1>4 DEF setMaxDivergenceBps
<1>5. ASSUME NEW x \in FeedPrices, NEW at, PublishPyth(x, at) PROVE HubType' /\ UNCHANGED twapVars
  BY <1>5, OracleHubAssumption DEF PublishPyth, TwapType
<1>6. ASSUME NEW x \in FeedPrices, NEW complete \in BOOLEAN, PublishChainlink(x, complete)
      PROVE  HubType' /\ UNCHANGED twapVars
  BY <1>6, OracleHubAssumption DEF PublishChainlink, TwapType
<1> QED BY <1>1, <1>2, <1>3, <1>4, <1>5, <1>6 DEF HubNext

LEMMA HubAlone == HubType /\ UNCHANGED hubVars => HubType'
BY DEF HubType, hubVars

LEMMA MarketStepKeeps == MarketInv /\ MarketStep /\ UNCHANGED scenario => MarketInv'
<1> SUFFICES ASSUME MarketInv, MarketStep, UNCHANGED scenario PROVE MarketInv'
  OBVIOUS
<1>0. TwapType /\ HubType /\ FundingInv /\ block \in Nat
  BY DEF MarketInv, TwapType
<1>1. ASSUME NEW last, MineUntil(last)
      PROVE  /\ TwapType' /\ HubType' /\ FundingInv' /\ block' = block + 1
  <2>1. block' = block + 1 /\ UNCHANGED <<latest, ring, hubVars, fundingVars>>
    BY <1>1 DEF MineUntil
  <2> QED BY <1>0, <2>1, TwapAlone, HubAlone, FundingAlone
<1>2. ASSUME NEW x \in Trades, recordTrade(x), UNCHANGED <<hubVars, fundingVars>>
      PROVE  TwapType' /\ HubType' /\ FundingInv'
  <2>1. block' = block
    BY <1>2 DEF recordTrade
  <2> QED BY <1>0, <1>2, <2>1, RecordKeeps, HubAlone, FundingAlone
<1>3. CASE scenario = "twap" /\ Twap
  <2>1. DOMAIN fxEntry' = {} /\ UNCHANGED <<hubVars, fundingVars>>
    BY <1>3 DEF Twap, fxVars, MarketInv
  <2>2. (\E last : MineUntil(last)) \/ (\E x \in Trades : recordTrade(x))
    BY <1>3 DEF Twap
  <2> QED BY <1>1, <1>2, <1>3, <2>1, <2>2 DEF MarketInv
<1>4. CASE scenario = "oracle" /\ Oracle
  <2>1. DOMAIN fxEntry' = {} /\ UNCHANGED fundingVars
    BY <1>4 DEF Oracle, fxVars, MarketInv
  <2>2. CASE HubNext
    <3>1. HubType' /\ UNCHANGED twapVars
      BY <1>0, <2>2, HubKeeps
    <3>2. TwapType' /\ FundingInv'
      BY <1>0, <2>1, <3>1, TwapAlone, FundingAlone DEF twapVars
    <3> QED BY <1>4, <2>1, <3>1, <3>2 DEF MarketInv
  <2>3. CASE (\E last : MineUntil(last)) \/ (\E x \in Trades : recordTrade(x) /\ UNCHANGED hubVars)
    BY <1>1, <1>2, <1>4, <2>1, <2>3 DEF MarketInv
  <2> QED BY <1>4, <2>2, <2>3 DEF Oracle
<1>5. CASE scenario = "funding" /\ Funding
  <2>1. DOMAIN fxEntry' = {}
    BY <1>5 DEF Funding, fxVars, MarketInv
  <2>2. CASE FundingNext
    <3>1. CASE updateFundingIndex
      <4>1. /\ _updateFundingIndexInternal /\ block' = block /\ UNCHANGED <<hubVars, latest, ring>>
            /\ UNCHANGED <<entryFundingIndex, openedAt>>
        BY <3>1 DEF updateFundingIndex, twapVars
      <4> QED BY <1>0, <1>5, <2>1, <4>1, UpdateKeeps, HubAlone, TwapAlone DEF MarketInv
    <3>2. ASSUME NEW p, NEW q, NEW x \in Trades, afterOpenPosition(p, q, x) PROVE MarketInv'
      <4>1. /\ _updateFundingIndexInternal /\ UNCHANGED hubVars /\ recordTrade(x) /\ block' = block
            /\ \E ps : Stamped(ps)
        BY <3>2 DEF afterOpenPosition, recordTrade
      <4>2. TwapType' /\ HubType' /\ FundingInv'
        BY <1>0, <4>1, UpdateKeeps, HubAlone, RecordKeeps
      <4> QED BY <1>5, <2>1, <4>2 DEF MarketInv
    <3>3. ASSUME NEW p, onSealedOpen(p) PROVE MarketInv'
      <4>1. /\ _updateFundingIndexInternal /\ block' = block /\ UNCHANGED <<hubVars, latest, ring>>
            /\ \E ps : Stamped(ps)
        BY <3>3 DEF onSealedOpen, twapVars
      <4>2. TwapType' /\ HubType' /\ FundingInv'
        BY <1>0, <4>1, UpdateKeeps, HubAlone, TwapAlone
      <4> QED BY <1>5, <2>1, <4>2 DEF MarketInv
    <3>4. CASE updateOtherIndex
      <4>1. FundingInv' /\ block' = block /\ UNCHANGED <<hubVars, latest, ring>>
        BY <1>0, <3>4, OtherKeeps DEF twapVars
      <4> QED BY <1>0, <1>5, <2>1, <4>1, HubAlone, TwapAlone DEF MarketInv
    <3>5. ASSUME NEW p, StampedByAnyone(p) \/ afterClosePosition(p) PROVE MarketInv'
      <4>1. FundingInv' /\ block' = block /\ UNCHANGED <<hubVars, latest, ring>>
        BY <1>0, <3>5, HookKeeps DEF twapVars
      <4> QED BY <1>0, <1>5, <2>1, <4>1, HubAlone, TwapAlone DEF MarketInv
    <3> QED BY <2>2, <3>1, <3>2, <3>3, <3>4, <3>5 DEF FundingNext
  <2>3. ASSUME NEW p \in FeedPrices \ {0}, NEW q \in FeedPrices \ {0}, Quoted(p, q) PROVE MarketInv'
    <3>1. block' = block /\ UNCHANGED <<latest, ring, fundingVars>>
      BY <2>3 DEF Quoted, twapVars
    <3>2. HubType'
      BY <1>0, <2>3, OracleHubAssumption DEF Quoted, HubType
    <3> QED BY <1>0, <1>5, <2>1, <3>1, <3>2, TwapAlone, FundingAlone DEF MarketInv
  <2>4. CASE \E last : MineUntil(last)
    BY <1>1, <1>5, <2>1, <2>4 DEF MarketInv
  <2> QED BY <1>5, <2>2, <2>3, <2>4 DEF Funding
<1>6. CASE scenario = "fx" /\ Fx
  <2>1. FxInv /\ UNCHANGED <<latest, ring, hubVars, fundingVars>>
    BY <1>6 DEF MarketInv, Fx
  <2>2. CASE FxNext /\ UNCHANGED block
    BY <1>0, <1>6, <2>1, <2>2, FxStep, TwapAlone, HubAlone, FundingAlone DEF MarketInv
  <2>3. CASE MineUntil(MaxBlock) /\ FxElapse
    <3>1. FxInv'
      BY <1>1, <2>1, <2>3, FxSecond
    <3> QED BY <1>1, <1>6, <2>3, <3>1 DEF MarketInv
  <2> QED BY <1>6, <2>2, <2>3 DEF Fx
<1>7. CASE scenario = "escrow" /\ Escrow
  <2>1. DOMAIN fxEntry' = {} /\ UNCHANGED <<hubVars, fundingVars>>
    BY <1>7 DEF Escrow, fxVars, MarketInv
  <2>2. CASE UNCHANGED twapVars
    BY <1>0, <1>7, <2>1, <2>2, TwapAlone, HubAlone, FundingAlone DEF MarketInv, twapVars
  <2>3. CASE \E last : MineUntil(last)
    BY <1>1, <1>7, <2>1, <2>3 DEF MarketInv
  <2> QED BY <1>7, <2>2, <2>3 DEF Escrow
<1> QED BY <1>3, <1>4, <1>5, <1>6, <1>7 DEF MarketStep

LEMMA MarketAlways == MCSpec => []MarketInv
<1>1. MarketInv /\ [MCNext]_allVars => MarketInv'
  <2> SUFFICES ASSUME MarketInv, [MCNext]_allVars PROVE MarketInv'
    OBVIOUS
  <2>1. CASE UNCHANGED <<marketVars, scenario>>
    <3>1. block' = block /\ UNCHANGED <<latest, ring, hubVars, fundingVars, fxVars, scenario>>
      BY <2>1 DEF marketVars, twapVars
    <3>2. TwapType' /\ HubType' /\ FundingInv'
      BY <3>1, TwapAlone, HubAlone, FundingAlone DEF MarketInv
    <3>3. IF scenario = "fx" THEN FxInv' ELSE DOMAIN fxEntry' = {}
      BY <3>1 DEF MarketInv, FxInv, FxFundingExact, fxCurrentFundingIndex, fxPending, perSecondRate, fxVars
    <3> QED BY <3>1, <3>2, <3>3 DEF MarketInv
  <2>2. CASE MarketStep /\ UNCHANGED scenario
    BY <2>2, MarketStepKeeps
  <2> QED BY <2>1, <2>2 DEF MCNext, allVars
<1> QED BY <1>1, MarketStart, PTL DEF MCSpec

\* For every set of positions, prices and rates: whoever brings the lazy
\* indexes up to date and stamps positions (PerpMarket.sol, FxPerpMarket.sol),
\* however late and at whatever price, a position owes at most the cap for each
\* block since the index it was stamped with in the one; and in the other the
\* pushed rate of every second since then, save the seconds that a call for
\* another market's id swallowed.
THEOREM FundingAlwaysForTimeOpen == MCSpec => []FundingForTimeOpen
<1>1. MarketInv => FundingForTimeOpen
  <2> SUFFICES ASSUME MarketInv PROVE FundingForTimeOpen
    OBVIOUS
  <2>1. FundingCapped
    BY FundingInvEnough DEF MarketInv
  <2>2. FxFundingExact
    BY DEF MarketInv, FxInv, FxFundingExact
  <2> QED BY <2>1, <2>2 DEF FundingForTimeOpen
<1> QED BY <1>1, MarketAlways, PTL

-----------------------------------------------------------------------------
(* The ring of observations *)

\* The product of a trade fits the width it is stored in (MarketImpactTwap.sol
\* cuts one that does not).
TradesFit == \A x \in Trades : x.price * x.size < 2^Width

\* An observation is the sum of the trades of its block.
TrueIn(obs, ts) ==
  /\ ts # <<>> /\ obs.size # 0
  /\ obs.volume = VolumeOf(ts) /\ obs.size = SizeOf(ts)

\* The latest block with trades is in the accumulator, each one before it that
\* is less than a window older in its slot, and a slot that is neither is older.
RingInv ==
  /\ block \in 1..MaxBlock
  /\ traded \in [1..MaxBlock -> Seq(Trades)]
  /\ latest.block <= block
  /\ IF latest.size = 0 THEN latest.block = 0
     ELSE latest.block \in 1..MaxBlock /\ TrueIn(latest, traded[latest.block])
  /\ \A n \in 1..MaxBlock : traded[n] # <<>> => n <= latest.block
  /\ \A i \in DOMAIN ring : ring[i].size # 0 =>
       /\ ring[i].block \in 1..MaxBlock /\ ring[i].block < latest.block
       /\ ring[i].block % WINDOW_BLOCKS = i
       /\ TrueIn(ring[i], traded[ring[i].block])
  /\ \A n \in 1..MaxBlock :
       (traded[n] # <<>> /\ n < latest.block /\ latest.block - n < WINDOW_BLOCKS) =>
         ring[n % WINDOW_BLOCKS].block = n /\ ring[n % WINDOW_BLOCKS].size # 0

LEMMA SumsOfNone == VolumeOf(<<>>) = 0 /\ SizeOf(<<>>) = 0
<1>1. 1..Len(<<>>) = {}
  OBVIOUS
<1> QED BY <1>1, SumEmpty DEF VolumeOf, SizeOf

LEMMA SumsOfOneMore ==
  ASSUME NEW ts \in Seq(Trades), NEW x \in Trades
  PROVE  /\ VolumeOf(ts) \in Nat /\ SizeOf(ts) \in Nat
         /\ VolumeOf(Append(ts, x)) = VolumeOf(ts) + x.price * x.size
         /\ SizeOf(Append(ts, x)) = SizeOf(ts) + x.size
<1> DEFINE us == Append(ts, x)
           n == Len(ts)
           v == [k \in 1..Len(ts) |-> ts[k].price * ts[k].size]
           w == [k \in 1..Len(us) |-> us[k].price * us[k].size]
           z == [k \in 1..Len(ts) |-> ts[k].size]
           y == [k \in 1..Len(us) |-> us[k].size]
<1>1. \A q \in Trades : q.price \in Nat /\ q.size \in Nat /\ q.price * q.size \in Nat
  BY ImpactTwapAssumption
<1>2. n \in Nat /\ Len(us) = n + 1 /\ us[n + 1] = x /\ \A k \in 1..n : us[k] = ts[k] /\ ts[k] \in Trades
  OBVIOUS
<1>3. (\A k \in 1..n : v[k] \in Nat /\ v[k] \in Int /\ w[k] = v[k]) /\ w[n + 1] = x.price * x.size /\ w[n + 1] \in Int
  BY <1>1, <1>2
<1>4. (\A k \in 1..n : z[k] \in Nat /\ z[k] \in Int /\ y[k] = z[k]) /\ y[n + 1] = x.size /\ y[n + 1] \in Int
  BY <1>1, <1>2
<1>5. /\ VolumeOf(ts) = SumFunctionOnSet(v, 1..n) /\ VolumeOf(us) = SumFunctionOnSet(w, 1..n + 1)
      /\ SizeOf(ts) = SumFunctionOnSet(z, 1..n) /\ SizeOf(us) = SumFunctionOnSet(y, 1..n + 1)
  BY <1>2 DEF VolumeOf, SizeOf
<1> HIDE DEF us, n, v, w, z, y
<1>6. IsFiniteSet(1..n)
  BY <1>2, OneMore
<1>7. SumFunctionOnSet(v, 1..n) \in Nat /\ SumFunctionOnSet(z, 1..n) \in Nat
  BY <1>3, <1>4, <1>6, SumNat
<1>8. SumFunctionOnSet(w, 1..n + 1) = SumFunctionOnSet(v, 1..n) + w[n + 1]
  BY <1>2, <1>3, SumNext
<1>9. SumFunctionOnSet(y, 1..n + 1) = SumFunctionOnSet(z, 1..n) + y[n + 1]
  BY <1>2, <1>4, SumNext
<1> QED BY <1>3, <1>4, <1>5, <1>7, <1>8, <1>9 DEF us

\* Two numbers in one slot are a window apart.
LEMMA SameSlot ==
  ASSUME NEW m \in Nat, NEW n \in Nat, n < m, m % WINDOW_BLOCKS = n % WINDOW_BLOCKS
  PROVE  m - n >= WINDOW_BLOCKS
<1> DEFINE w == WINDOW_BLOCKS
<1>1. w \in Nat \ {0}
  BY ImpactTwapAssumption
<1>2. m = w * (m \div w) + (m % w) /\ n = w * (n \div w) + (n % w)
      /\ m \div w \in Int /\ n \div w \in Int
  BY <1>1
<1> DEFINE d == (m \div w) - (n \div w)
<1>3. d \in Int /\ m - n = w * d
  BY <1>1, <1>2
<1> HIDE DEF d
<1>4. d >= 1
  <2>1. CASE d <= 0
    <3>1. w * d <= 0
      BY <1>1, <1>3, <2>1
    <3> QED BY <1>3, <3>1
  <2> QED BY <1>3, <2>1
<1>5. w * d >= w
  BY <1>1, <1>3, <1>4
<1> QED BY <1>3, <1>5

LEMMA CastFits ==
  ASSUME TradesFit, NEW x \in Trades
  PROVE  Cast(x.price * x.size) = x.price * x.size /\ Cast(x.size) = x.size
         /\ x.size \in Nat \ {0} /\ x.price * x.size \in Nat
<1> DEFINE w == 2^Width
           v == x.price * x.size
<1>1. x.price \in Nat \ {0} /\ x.size \in Nat \ {0} /\ w \in Nat \ {0}
  BY ImpactTwapAssumption
<1>2. v \in Nat /\ x.size <= v
  BY <1>1
<1>3. v < w
  BY DEF TradesFit
<1> HIDE DEF v, w
<1>4. x.size < w
  BY <1>1, <1>2, <1>3
<1>5. \A u \in Nat : u < w => u % w = u
  BY <1>1
<1> QED BY <1>1, <1>2, <1>3, <1>4, <1>5 DEF Cast, v, w

\* A trade is added to the sums of its block.
LEMMA TradeIsTrue ==
  ASSUME NEW ts \in Seq(Trades), NEW x \in Trades, NEW obs \in Observation, NEW old \in Observation,
         ts = <<>> \/ TrueIn(old, ts),
         obs.volume = (IF ts = <<>> THEN 0 ELSE old.volume) + x.price * x.size,
         obs.size = (IF ts = <<>> THEN 0 ELSE old.size) + x.size
  PROVE  TrueIn(obs, Append(ts, x)) /\ Append(ts, x) \in Seq(Trades)
<1>1. /\ VolumeOf(Append(ts, x)) = VolumeOf(ts) + x.price * x.size
      /\ SizeOf(Append(ts, x)) = SizeOf(ts) + x.size
      /\ VolumeOf(ts) \in Nat /\ SizeOf(ts) \in Nat
  BY SumsOfOneMore
<1>2. VolumeOf(ts) = IF ts = <<>> THEN 0 ELSE old.volume
  BY SumsOfNone DEF TrueIn
<1>3. SizeOf(ts) = IF ts = <<>> THEN 0 ELSE old.size
  BY SumsOfNone DEF TrueIn
<1>4. x.size \in Nat \ {0}
  BY ImpactTwapAssumption
<1>5. Append(ts, x) # <<>> /\ Append(ts, x) \in Seq(Trades)
  OBVIOUS
<1>6. obs.size # 0
  BY <1>1, <1>3, <1>4
<1> QED BY <1>1, <1>2, <1>3, <1>5, <1>6 DEF TrueIn

LEMMA TradeKeepsRing ==
  ASSUME TradesFit, TwapType, TwapType', RingInv, NEW x \in Trades, recordTrade(x)
  PROVE  RingInv'
<1> DEFINE W == WINDOW_BLOCKS
           ts == traded[block]
<1>1. /\ record(x.price * x.size, x.size) /\ block' = block
      /\ traded' = [traded EXCEPT ![block] = Append(@, x)]
  BY CastFits DEF recordTrade
<1>2. W \in Nat \ {0} /\ block \in 1..MaxBlock /\ block \in Nat /\ ts \in Seq(Trades) /\ MaxBlock \in Nat
  BY ImpactTwapAssumption DEF RingInv, TwapType
<1>3. /\ traded' \in [1..MaxBlock -> Seq(Trades)]
      /\ traded'[block] = Append(ts, x)
      /\ \A n \in 1..MaxBlock : n # block => traded'[n] = traded[n]
  <2>1. Append(ts, x) \in Seq(Trades)
    BY <1>2
  <2> QED BY <1>1, <1>2, <2>1 DEF RingInv
<1>4. latest.block \in Nat /\ latest \in Observation /\ latest' \in Observation
  BY DEF TwapType, Observation
<1> HIDE DEF ts, W
<1>5. /\ TrueIn(latest', Append(ts, x)) /\ latest'.block = block /\ latest'.size # 0
      /\ latest.block # block => ts = <<>>
  <2>1. CASE latest.block = block
    <3>1. /\ latest'.block = latest.block
          /\ latest'.volume = latest.volume + x.price * x.size /\ latest'.size = latest.size + x.size
      BY <1>1, <1>4, <2>1 DEF record, Observation
    <3>2. TrueIn(latest, ts)
      BY <1>2, <2>1 DEF RingInv, ts
    <3>3. ts # <<>>
      BY <3>2 DEF TrueIn
    <3>4. TrueIn(latest', Append(ts, x))
      BY <1>2, <1>4, <3>1, <3>2, <3>3, TradeIsTrue
    <3> QED BY <2>1, <3>1, <3>4 DEF TrueIn
  <2>2. CASE latest.block # block
    <3>1. latest' = [block |-> block, volume |-> x.price * x.size, size |-> x.size]
      BY <1>1, <2>2 DEF record
    <3>2. ts = <<>>
      BY <1>2, <1>4, <2>2 DEF RingInv, ts
    <3>3. x.price * x.size \in Nat /\ x.size \in Nat
      BY CastFits
    <3>4. /\ latest'.volume = (IF ts = <<>> THEN 0 ELSE latest.volume) + x.price * x.size
          /\ latest'.size = (IF ts = <<>> THEN 0 ELSE latest.size) + x.size
      <4> DEFINE v == x.price * x.size
      <4>1. latest'.volume = v /\ latest'.size = x.size /\ v \in Nat
        BY <3>1, <3>3
      <4> HIDE DEF v
      <4>2. latest'.volume = (IF ts = <<>> THEN 0 ELSE latest.volume) + v
        BY <3>2, <4>1
      <4> QED BY <3>2, <3>3, <4>1, <4>2 DEF v
    <3>5. TrueIn(latest', Append(ts, x))
      BY <1>2, <1>4, <3>2, <3>4, TradeIsTrue, Zenon
    <3> QED BY <3>1, <3>2, <3>5 DEF TrueIn
  <2> QED BY <2>1, <2>2
<1>6. \A n \in 1..MaxBlock : traded'[n] # <<>> => n <= latest'.block
  BY <1>2, <1>3, <1>4, <1>5 DEF RingInv
<1>7. latest.block <= block /\ \A n \in 1..MaxBlock : n < latest'.block => traded'[n] = traded[n]
  BY <1>2, <1>3, <1>5 DEF RingInv
<1>8. CASE latest.block = block
  <2>1. ring' = ring
    BY <1>1, <1>8 DEF record
  <2>2. \A i \in DOMAIN ring' : ring'[i].size # 0 =>
          /\ ring'[i].block \in 1..MaxBlock /\ ring'[i].block < latest'.block
          /\ ring'[i].block % WINDOW_BLOCKS = i
          /\ TrueIn(ring'[i], traded'[ring'[i].block])
    BY <1>5, <1>7, <1>8, <2>1 DEF RingInv
  <2>3. \A n \in 1..MaxBlock :
          (traded'[n] # <<>> /\ n < latest'.block /\ latest'.block - n < WINDOW_BLOCKS) =>
            ring'[n % WINDOW_BLOCKS].block = n /\ ring'[n % WINDOW_BLOCKS].size # 0
    BY <1>5, <1>7, <1>8, <2>1 DEF RingInv
  <2> QED BY <1>1, <1>2, <1>3, <1>5, <1>6, <2>2, <2>3 DEF RingInv, ts
<1>9. CASE latest.block # block
  <2>1. latest.block < block
    BY <1>2, <1>4, <1>7, <1>9
  <2> DEFINE slot == latest.block % WINDOW_BLOCKS
  <2>2. slot \in 0..WINDOW_BLOCKS - 1 /\ DOMAIN ring = 0..WINDOW_BLOCKS - 1
    BY <1>4, ImpactTwapAssumption DEF TwapType
  <2>3. ring' = IF latest.size = 0 THEN ring ELSE [ring EXCEPT ![slot] = latest]
    BY <1>1, <1>9 DEF record
  <2> HIDE DEF slot
  <2>4. DOMAIN ring' = DOMAIN ring /\ \A i \in DOMAIN ring :
          ring'[i] = IF latest.size # 0 /\ i = slot THEN latest ELSE ring[i]
    BY <2>2, <2>3
  <2>5. ASSUME NEW i \in DOMAIN ring', ring'[i].size # 0
        PROVE  /\ ring'[i].block \in 1..MaxBlock /\ ring'[i].block < latest'.block
               /\ ring'[i].block % WINDOW_BLOCKS = i
               /\ TrueIn(ring'[i], traded'[ring'[i].block])
    <3>1. CASE latest.size # 0 /\ i = slot
      BY <1>5, <1>7, <2>1, <2>4, <3>1 DEF RingInv, slot
    <3>2. CASE ~(latest.size # 0 /\ i = slot)
      <4>1. ring'[i] = ring[i] /\ i \in DOMAIN ring
        BY <2>4, <2>5, <3>2
      <4>2. /\ ring[i].block \in 1..MaxBlock /\ ring[i].block < latest.block
            /\ ring[i].block % WINDOW_BLOCKS = i
            /\ TrueIn(ring[i], traded[ring[i].block])
        BY <2>5, <4>1 DEF RingInv
      <4> QED BY <1>2, <1>4, <1>5, <1>7, <2>1, <4>1, <4>2
    <3> QED BY <3>1, <3>2
  <2>6. ASSUME NEW n \in 1..MaxBlock, traded'[n] # <<>>, n < latest'.block, latest'.block - n < WINDOW_BLOCKS
        PROVE  ring'[n % WINDOW_BLOCKS].block = n /\ ring'[n % WINDOW_BLOCKS].size # 0
    <3>1. n \in Nat /\ traded[n] # <<>> /\ n <= latest.block /\ latest.size # 0 /\ WINDOW_BLOCKS \in Nat \ {0}
      BY <1>2, <1>7, <2>6, ImpactTwapAssumption DEF RingInv
    <3>2. n % WINDOW_BLOCKS \in DOMAIN ring
      BY <2>2, <3>1
    <3>3. CASE n = latest.block
      <4>1. n % WINDOW_BLOCKS = slot
        BY <3>3 DEF slot
      <4>2. ring'[n % WINDOW_BLOCKS] = latest
        BY <2>4, <3>1, <3>2, <4>1
      <4> QED BY <3>1, <3>3, <4>2
    <3>4. CASE n # latest.block
      <4>1. n < latest.block /\ latest.block - n < WINDOW_BLOCKS
        BY <1>2, <1>4, <1>5, <2>1, <2>6, <3>1, <3>4
      <4>2. n % WINDOW_BLOCKS # slot
        <5>1. latest.block % WINDOW_BLOCKS = n % WINDOW_BLOCKS => latest.block - n >= WINDOW_BLOCKS
          BY <1>4, <3>1, <4>1, SameSlot
        <5> QED BY <1>4, <3>1, <4>1, <5>1 DEF slot
      <4>3. ring'[n % WINDOW_BLOCKS] = ring[n % WINDOW_BLOCKS]
        BY <2>4, <3>2, <4>2
      <4> QED BY <3>1, <4>1, <4>3 DEF RingInv
    <3> QED BY <3>3, <3>4
  <2> QED BY <1>1, <1>2, <1>3, <1>5, <1>6, <2>5, <2>6 DEF RingInv, ts
<1> QED BY <1>8, <1>9

LEMMA RingStands ==
  ASSUME RingInv, UNCHANGED <<latest, ring, traded>>, block' \in {block, block + 1}, block' \in 1..MaxBlock
  PROVE  RingInv'
<1>1. block \in Nat /\ latest'.block <= block'
  BY DEF RingInv, TwapType, Observation
<1> QED BY <1>1 DEF RingInv

\* What the ring and the accumulator count is each recent block once.
LEMMA RingIsExact ==
  ASSUME TwapType, RingInv
  PROVE  TwapExact
<1> DEFINE slots == {i \in DOMAIN ring : InWindow(ring[i])}
           old == Recent \ {latest.block}
           g == [i \in slots |-> ring[i].block]
           h == [i \in slots |-> ring[i].volume \div ring[i].size]
           f == [n \in Recent |-> BlockVwap(n)]
           own == InWindow(latest)
<1>1. /\ block \in Nat /\ block \in 1..MaxBlock /\ latest.block \in Nat /\ latest.block <= block
      /\ WINDOW_BLOCKS \in Nat \ {0} /\ MaxBlock \in Nat /\ DOMAIN ring = 0..WINDOW_BLOCKS - 1
  BY ImpactTwapAssumption DEF TwapType, Observation, RingInv
<1>2. own <=> latest.block \in Recent
  <2>1. CASE latest.size = 0
    BY <1>1, <2>1 DEF RingInv, InWindow, Recent
  <2>2. CASE latest.size # 0
    <3>1. latest.block \in 1..MaxBlock /\ traded[latest.block] # <<>>
      BY <2>2 DEF RingInv, TrueIn
    <3> QED BY <1>1, <2>2, <3>1 DEF InWindow, Recent
  <2> QED BY <2>1, <2>2
<1>3. ASSUME own
      PROVE  latest.volume \div latest.size = f[latest.block]
  <2>1. latest.size # 0
    BY <1>3 DEF InWindow
  <2>2. TrueIn(latest, traded[latest.block])
    BY <2>1 DEF RingInv
  <2> QED BY <1>2, <1>3, <2>2 DEF TrueIn, BlockVwap
<1>4. ASSUME NEW i \in slots
      PROVE  g[i] \in old /\ g[i] % WINDOW_BLOCKS = i /\ h[i] = f[g[i]]
  <2>1. ring[i].size # 0 /\ block - ring[i].block < WINDOW_BLOCKS /\ i \in DOMAIN ring
    BY DEF InWindow
  <2>2. /\ ring[i].block \in 1..MaxBlock /\ ring[i].block < latest.block
        /\ ring[i].block % WINDOW_BLOCKS = i
        /\ TrueIn(ring[i], traded[ring[i].block])
    BY <2>1 DEF RingInv
  <2>3. ring[i].block \in old
    BY <1>1, <2>1, <2>2 DEF Recent, TrueIn
  <2> QED BY <2>2, <2>3 DEF TrueIn, BlockVwap
<1>5. \A z \in old : \E i \in slots : g[i] = z
  <2> TAKE z \in old
  <2>1. z \in 1..MaxBlock /\ traded[z] # <<>> /\ block - z < WINDOW_BLOCKS /\ z # latest.block
    BY <1>1 DEF Recent
  <2>2. z < latest.block /\ latest.block - z < WINDOW_BLOCKS
    BY <1>1, <2>1 DEF RingInv
  <2> DEFINE i == z % WINDOW_BLOCKS
  <2>3. ring[i].block = z /\ ring[i].size # 0
    BY <2>1, <2>2 DEF RingInv
  <2>4. i \in DOMAIN ring
    BY <1>1, <2>1
  <2> HIDE DEF i
  <2>5. i \in slots
    BY <2>1, <2>3, <2>4 DEF InWindow
  <2> QED BY <2>3, <2>5
<1>6. ASSUME NEW n \in Recent
      PROVE  f[n] \in Int
  <2>1. \A o \in Observation : o.size # 0 => o.volume \div o.size \in Int
    BY DEF Observation
  <2>2. CASE n = latest.block
    BY <1>2, <1>3, <2>1, <2>2 DEF TwapType, InWindow
  <2>3. CASE n # latest.block
    <3>1. PICK i \in slots : g[i] = n
      <4> HIDE DEF slots, g
      <4> QED BY <1>5, <2>3
    <3>2. ring[i] \in Observation /\ ring[i].size # 0 /\ f[n] = ring[i].volume \div ring[i].size
      <4>1. h[i] = f[g[i]]
        BY <1>4
      <4>2. h[i] = ring[i].volume \div ring[i].size
        OBVIOUS
      <4> HIDE DEF f, h, g
      <4> QED BY <3>1, <4>1, <4>2 DEF TwapType, InWindow
    <3> QED BY <2>1, <3>2
  <2> QED BY <2>2, <2>3
<1>7. IsFiniteSet(slots) /\ IsFiniteSet(Recent)
  <2> DEFINE last == WINDOW_BLOCKS - 1
  <2>1. last \in Int /\ slots \subseteq 0..last /\ Recent \subseteq 1..block
    BY <1>1 DEF Recent
  <2> HIDE DEF last, slots
  <2>2. IsFiniteSet(0..last) /\ IsFiniteSet(1..block)
    BY <1>1, <2>1, FS_Interval
  <2> QED BY <2>1, <2>2, FS_Subset
<1> DEFINE sum == SumFunctionOnSet(h, slots)
           total == SumFunctionOnSet(f, Recent)
<1>8. meanBlockVwap =
        LET all == sum + (IF own THEN latest.volume \div latest.size ELSE 0)
            count == Cardinality(slots) + (IF own THEN 1 ELSE 0)
        IN [count |-> count, mean |-> IF count = 0 THEN 0 ELSE all \div count]
  BY DEF meanBlockVwap
<1>9. TwapExact <=> meanBlockVwap =
        [count |-> Cardinality(Recent), mean |-> IF Recent = {} THEN 0 ELSE total \div Cardinality(Recent)]
  BY DEF TwapExact
<1> HIDE DEF slots, g, h, f, own
<1>10. sum = SumFunctionOnSet(f, old) /\ Cardinality(old) = Cardinality(slots) /\ IsFiniteSet(old)
  <2>1. \A x \in slots : g[x] \in old
    BY <1>4
  <2>2. \A x, y \in slots : g[x] = g[y] => x = y
    BY <1>4
  <2>3. \A z \in old : f[z] \in Int
    BY <1>6
  <2>4. \A x \in slots : h[x] = f[g[x]]
    BY <1>4
  <2> HIDE DEF old
  <2> QED BY <1>5, <1>7, <2>1, <2>2, <2>3, <2>4, SumRenamed
<1>11. Cardinality(slots) \in Nat /\ Cardinality(Recent) \in Nat /\ (Recent = {} <=> Cardinality(Recent) = 0)
  BY <1>7, FS_CardinalityType, FS_EmptySet
<1>12. sum \in Int
  <2>1. \A z \in old : f[z] \in Int
    BY <1>6
  <2> QED BY <1>10, <2>1, SumInt
<1>13. CASE own
  <2>1. latest.block \in Recent
    BY <1>2, <1>13
  <2>2. total = f[latest.block] + sum
    BY <1>6, <1>7, <1>10, <2>1, SumRemove
  <2>3. Cardinality(old) = Cardinality(Recent) - 1
    BY <1>7, <2>1, FS_RemoveElement
  <2>4. Cardinality(slots) + 1 = Cardinality(Recent) /\ Recent # {}
    BY <1>10, <1>11, <2>1, <2>3
  <2>5. sum + (latest.volume \div latest.size) = total
    BY <1>3, <1>6, <1>12, <1>13, <2>1, <2>2
  <2> HIDE DEF sum, total
  <2> QED BY <1>8, <1>9, <1>11, <1>13, <2>4, <2>5
<1>14. CASE ~own
  <2>1. old = Recent
    BY <1>2, <1>14
  <2>2. sum = total /\ Cardinality(slots) = Cardinality(Recent)
    BY <1>10, <2>1
  <2>3. sum + 0 = total /\ Cardinality(slots) + 0 = Cardinality(Recent)
    BY <1>11, <1>12, <2>2
  <2> HIDE DEF sum, total
  <2> QED BY <1>8, <1>9, <1>11, <1>14, <2>3
<1> QED BY <1>13, <1>14

\* What a step of the markets does to the average and to the hub: one trade, or
\* the next block, and one call of the hub, or neither.
LEMMA MarketMoves ==
  ASSUME MarketInv, block \in 1..MaxBlock, [MCNext]_allVars
  PROVE  /\ \/ \E x \in Trades : recordTrade(x)
            \/ UNCHANGED <<latest, ring, traded>> /\ block' \in {block, block + 1} /\ block' \in 1..MaxBlock
         /\ HubNext \/ UNCHANGED <<discoveryBounds, granted>>
<1> DEFINE Still == UNCHANGED <<latest, ring, traded>> /\ block' \in {block, block + 1} /\ block' \in 1..MaxBlock
           Hub == HubNext \/ UNCHANGED <<discoveryBounds, granted>>
<1>1. UNCHANGED hubVars => Hub
  BY DEF hubVars
<1>2. UNCHANGED twapVars => Still
  BY DEF twapVars
<1>3. ASSUME NEW last \in 1..MaxBlock, MineUntil(last) PROVE Still /\ Hub
  BY <1>1, <1>3, ImpactTwapAssumption DEF MineUntil
<1>4. MaxBlock \in 1..MaxBlock /\ OracleBlocks \in 1..MaxBlock /\ FundingBlocks \in 1..MaxBlock
      /\ EscrowBlocks \in 1..MaxBlock
  BY ImpactTwapAssumption, BlocksAssumption
<1>5. CASE UNCHANGED <<marketVars, scenario>>
  BY <1>1, <1>2, <1>5 DEF marketVars
<1>6. CASE Twap
  <2>1. UNCHANGED hubVars
    BY <1>6 DEF Twap
  <2> QED BY <1>1, <1>3, <1>4, <1>6, <2>1 DEF Twap
<1>7. CASE Oracle
  <2>1. HubNext => UNCHANGED twapVars
    BY HubKeeps DEF MarketInv
  <2> QED BY <1>1, <1>2, <1>3, <1>4, <1>7, <2>1 DEF Oracle
<1>8. CASE Funding
  <2>1. CASE FundingNext
    <3>1. CASE updateFundingIndex
      BY <1>1, <1>2, <3>1 DEF updateFundingIndex
    <3>2. ASSUME NEW p, NEW q, NEW x \in Trades, afterOpenPosition(p, q, x)
          PROVE  Hub /\ \E y \in Trades : recordTrade(y)
      BY <1>1, <3>2 DEF afterOpenPosition
    <3>3. ASSUME NEW p, onSealedOpen(p) PROVE Still /\ Hub
      BY <1>1, <1>2, <3>3 DEF onSealedOpen
    <3>4. CASE updateOtherIndex
      BY <1>1, <1>2, <3>4 DEF updateOtherIndex
    <3>5. ASSUME NEW p, StampedByAnyone(p) \/ afterClosePosition(p) PROVE Still /\ Hub
      BY <1>1, <1>2, <3>5 DEF StampedByAnyone, afterClosePosition
    <3> QED BY <2>1, <3>1, <3>2, <3>3, <3>4, <3>5 DEF FundingNext
  <2>2. ASSUME NEW p, NEW q, Quoted(p, q) PROVE Still /\ Hub
    BY <1>2, <2>2 DEF Quoted
  <2> QED BY <1>3, <1>4, <1>8, <2>1, <2>2 DEF Funding
<1>9. CASE Fx
  <2>1. UNCHANGED <<latest, ring, traded, hubVars>>
    BY <1>9 DEF Fx
  <2> QED BY <1>1, <1>3, <1>4, <1>9, <2>1 DEF Fx
<1>10. CASE Escrow
  BY <1>1, <1>2, <1>3, <1>4, <1>10 DEF Escrow
<1> QED BY <1>5, <1>6, <1>7, <1>8, <1>9, <1>10 DEF MCNext, MarketStep, allVars

-----------------------------------------------------------------------------
(* The mark *)

\* The median is the third price held between the other two.
LEMMA MedianIs ==
  ASSUME NEW x \in Int, NEW y \in Int, NEW z \in Int
  PROVE  LET low  == IF x > y THEN y ELSE x
             high == IF x > y THEN x ELSE y
         IN _medianOf3(x, y, z) = IF z < low THEN low ELSE IF z > high THEN high ELSE z
<1> DEFINE low == IF x > y THEN y ELSE x
           high == IF x > y THEN x ELSE y
           mid == IF high > z THEN z ELSE high
           top == IF high > z THEN high ELSE z
<1>1. Swapped(<<x, y, z>>, 1, 2) = <<low, high, z>>
  BY DEF Swapped
<1>2. low \in Int /\ high \in Int /\ low <= high
  OBVIOUS
<1> HIDE DEF low, high
<1>3. Swapped(<<low, high, z>>, 2, 3) = <<low, mid, top>>
  BY <1>2 DEF Swapped
<1>4. mid \in Int /\ top \in Int
  BY <1>2
<1>5. Swapped(<<low, mid, top>>, 1, 2)[2] = IF low > mid THEN low ELSE mid
  <2> HIDE DEF mid, top
  <2> QED BY <1>2, <1>4 DEF Swapped
<1>6. _medianOf3(x, y, z) = IF low > mid THEN low ELSE mid
  BY <1>1, <1>3, <1>5 DEF _medianOf3
<1>7. _medianOf3(x, y, z) = IF z < low THEN low ELSE IF z > high THEN high ELSE z
  BY <1>2, <1>6
<1> QED BY <1>7 DEF low, high

LEMMA MarkIsBetween ==
  ASSUME TwapType, HubType
  PROVE  MarkBetweenFeeds
<1> DEFINE x == pyth.price
           y == chainlink.price
           z == _tertiaryPrice
           low  == IF x > y THEN y ELSE x
           high == IF x > y THEN x ELSE y
<1>1. x \in Int /\ y \in Int /\ z \in Int
  BY MeanNat DEF _tertiaryPrice, HubType
<1>2. LivePrice = IF z < low THEN low ELSE IF z > high THEN high ELSE z
  BY <1>1, MedianIs DEF LivePrice
<1>3. Min({x, y}) = low /\ Max({x, y}) = high
  <2> HIDE DEF x, y
  <2>1. /\ Min({x, y}) \in {x, y} /\ Min({x, y}) <= x /\ Min({x, y}) <= y
        /\ Max({x, y}) \in {x, y} /\ x <= Max({x, y}) /\ y <= Max({x, y})
    BY <1>1, MinTwo, MaxTwo
  <2> QED BY <1>1, <2>1
<1>4. isPriceLive /\ markPrice # Unavailable => markPrice = LivePrice
  BY DEF markPrice
<1>5. low \in Int /\ high \in Int /\ low <= high
  BY <1>1
<1>6. MarkBetweenFeeds <=>
        (isPriceLive /\ markPrice # Unavailable =>
           /\ markPrice \in Min({x, y})..Max({x, y})
           /\ z \in Min({x, y})..Max({x, y}) => markPrice = z)
  BY DEF MarkBetweenFeeds
<1> HIDE DEF x, y, z, low, high
<1>7. LivePrice \in low..high /\ (z \in low..high => LivePrice = z)
  BY <1>1, <1>2, <1>5
<1> QED BY <1>3, <1>4, <1>6, <1>7

-----------------------------------------------------------------------------
(* The walk of the discovery reference *)

MovesRun(run, ref, bps, n) ==
  /\ run \in [0..n -> SUBSET Nat] /\ run[0] = {ref}
  /\ \A k \in 1..n : run[k] = Moved(run[k - 1], bps)

LEMMA EdgesNat ==
  ASSUME NEW ref \in Nat, NEW bps \in Nat
  PROVE  Lo(ref, bps) \in Nat /\ Hi(ref, bps) \in Nat
<1>1. ref * bps \in Nat /\ BPS \in Nat \ {0}
  BY DEF BPS
<1>2. BoundAmount(ref, bps) \in Nat
  BY <1>1 DEF BoundAmount
<1> QED BY <1>2 DEF Lo, Hi

LEMMA MovesRunExists ==
  ASSUME NEW ref \in Nat, NEW bps \in Nat, NEW n \in Nat
  PROVE  \E run : MovesRun(run, ref, bps, n) /\ WithinMoves(ref, bps, n) = run[n]
<1> DEFINE V == SUBSET Nat
           Body(g, k) == IF k = 0 THEN {ref} ELSE Moved(g[k - 1], bps)
           Runs(g) == g = [k \in 0..n |-> Body(g, k)]
           step == [x \in V \X (1..n) |-> Moved(x[1], bps)]
           it == CHOOSE g : Runs(g)
<1>1. \A s \in V : Moved(s, bps) \in V
  BY EdgesNat DEF Moved
<1>2. step \in [V \X (1..n) -> V] /\ {ref} \in V
  BY <1>1
<1>3. \A v \in V, k \in 1..n : step[<<v, k>>] = Moved(v, bps)
  OBVIOUS
<1>4. PICK run \in [0..n -> V] : run[0] = {ref} /\ \A k \in 1..n : run[k] = step[<<run[k - 1], k>>]
  <2>1. step \in StepsOf(V, n)
    BY <1>2 DEF StepsOf
  <2> HIDE DEF step, V
  <2>2. PICK run : RunOf(run, V, n, {ref}, step)
    BY <1>2, <2>1, RunExists, Zenon
  <2> QED BY <2>2 DEF RunOf
<1>5. \A k \in 0..n : run[k] = Body(run, k)
  <2> TAKE k \in 0..n
  <2>1. CASE k = 0
    BY <1>4, <2>1
  <2>2. CASE k # 0
    <3>1. k \in 1..n /\ k - 1 \in 0..n
      BY <2>2
    <3>2. run[k - 1] \in V
      BY <3>1
    <3> HIDE DEF step, V
    <3> QED BY <1>3, <1>4, <2>2, <3>1, <3>2
  <2> QED BY <2>1, <2>2
<1>6. Runs(run)
  <2>1. run = [k \in 0..n |-> run[k]]
    OBVIOUS
  <2> HIDE DEF Body
  <2> QED BY <1>5, <2>1
<1>7. Runs(it)
  <2> HIDE DEF Runs
  <2> QED BY <1>6
<1>8. WithinMoves(ref, bps, n) = it[n]
  BY Zenon DEF WithinMoves
<1> HIDE DEF it
<1>9. \A k \in 0..n : it[k] = Body(it, k)
  BY <1>7
<1>10. it[0] = {ref} /\ \A k \in 1..n : it[k] = Moved(it[k - 1], bps)
  <2>1. \A k \in 1..n : k \in 0..n /\ k # 0
    OBVIOUS
  <2>2. 0 \in 0..n
    OBVIOUS
  <2> QED BY <1>9, <2>1, <2>2
<1> DEFINE G == {k \in Nat : k <= n => it[k] = run[k]}
<1>11. 0 \in G
  BY <1>4, <1>10
<1>12. \A k \in Nat : k \in G => k + 1 \in G
  <2> SUFFICES ASSUME NEW k \in Nat, k + 1 <= n, it[k] = run[k] PROVE it[k + 1] = run[k + 1]
    <3> HIDE DEF step, V
    <3> QED OBVIOUS
  <2> DEFINE m == k + 1
  <2>1. m \in 1..n /\ m - 1 = k /\ run[k] \in V
    OBVIOUS
  <2> HIDE DEF m, step, V
  <2> QED BY <1>3, <1>4, <1>10, <2>1 DEF m
<1>13. it[n] = run[n]
  <2> HIDE DEF G
  <2>1. Nat \subseteq G
    BY <1>11, <1>12, Induction
  <2> QED BY <2>1 DEF G
<1>14. \A k \in 1..n : run[k] = Moved(run[k - 1], bps)
  <2> TAKE k \in 1..n
  <2>1. run[k - 1] \in V
    OBVIOUS
  <2> HIDE DEF step, V
  <2> QED BY <1>3, <1>4, <2>1
<1> QED BY <1>4, <1>8, <1>13, <1>14 DEF MovesRun

\* Before any move there is the reference; one move more goes from each edge to
\* its edges.
LEMMA NoMoves ==
  ASSUME NEW ref \in Nat, NEW bps \in Nat
  PROVE  WithinMoves(ref, bps, 0) = {ref}
<1> DEFINE n == 0
<1>1. n \in Nat
  OBVIOUS
<1> HIDE DEF n
<1>2. PICK run : MovesRun(run, ref, bps, n) /\ WithinMoves(ref, bps, n) = run[n]
  BY <1>1, MovesRunExists
<1> QED BY <1>2 DEF MovesRun, n

LEMMA OneMoveMore ==
  ASSUME NEW ref \in Nat, NEW bps \in Nat, NEW n \in Nat
  PROVE  WithinMoves(ref, bps, n + 1) = Moved(WithinMoves(ref, bps, n), bps)
<1>1. PICK run : MovesRun(run, ref, bps, n) /\ WithinMoves(ref, bps, n) = run[n]
  BY MovesRunExists
<1>2. PICK far : MovesRun(far, ref, bps, n + 1) /\ WithinMoves(ref, bps, n + 1) = far[n + 1]
  BY MovesRunExists
<1> DEFINE G == {k \in Nat : k <= n => run[k] = far[k]}
<1>3. 0 \in G
  BY <1>1, <1>2 DEF MovesRun
<1>4. \A k \in Nat : k \in G => k + 1 \in G
  <2> SUFFICES ASSUME NEW k \in Nat, k + 1 <= n, run[k] = far[k] PROVE run[k + 1] = far[k + 1]
    OBVIOUS
  <2> DEFINE m == k + 1
  <2>1. m \in 1..n /\ m \in 1..n + 1 /\ m - 1 = k
    OBVIOUS
  <2> HIDE DEF m
  <2> QED BY <1>1, <1>2, <2>1 DEF MovesRun, m
<1>5. run[n] = far[n]
  <2> HIDE DEF G
  <2>1. Nat \subseteq G
    BY <1>3, <1>4, Induction
  <2> QED BY <2>1 DEF G
<1>6. far[n + 1] = Moved(far[n], bps)
  <2> DEFINE m == n + 1
  <2>1. m \in 1..n + 1 /\ m - 1 = n
    OBVIOUS
  <2> HIDE DEF m
  <2> QED BY <1>2, <2>1 DEF MovesRun, m
<1> QED BY <1>1, <1>2, <1>5, <1>6

\* The bounds are the granted ones but for the reference, and for each reset
\* used up the reference made one move.
WalkInv ==
  /\ granted \in BoundRecord
  /\ discoveryBounds.boundBps = granted.boundBps
  /\ DiscoveryWalkCapped

LEMMA RefreshKeepsWalk ==
  ASSUME HubType, WalkInv, discoveryBounds' = Reanchored(discoveryBounds), granted' = granted
  PROVE  WalkInv'
<1> DEFINE d == discoveryBounds
           bps == granted.boundBps
           used == granted.resetsRemaining - d.resetsRemaining
           To(r) == [d EXCEPT !.referencePrice = r, !.resetsRemaining = @ - 1]
<1>1. /\ d \in BoundRecord /\ d.referencePrice \in Nat /\ d.resetsRemaining \in Nat /\ bps \in Nat
      /\ granted.referencePrice \in Nat /\ granted.resetsRemaining \in Nat
      /\ d.boundBps = bps /\ d.resetsRemaining <= granted.resetsRemaining /\ used \in Nat
  BY DEF HubType, WalkInv, DiscoveryWalkCapped, BoundRecord
<1>2. d.referencePrice \in WithinMoves(granted.referencePrice, bps, used)
  BY DEF WalkInv, DiscoveryWalkCapped
<1> DEFINE lo == Lo(d.referencePrice, bps)
           hi == Hi(d.referencePrice, bps)
<1>3. \/ d' = d
      \/ d.resetsRemaining # 0 /\ \E r \in {lo, hi} : d' = To(r)
  <2> HIDE DEF To
  <2>1. Reanchored(d) = d \/ (d.resetsRemaining # 0 /\ \E r \in {lo, hi} : Reanchored(d) = To(r))
    BY <1>1, Zenon DEF Reanchored, To
  <2> QED BY <2>1
<1>4. CASE d' = d
  BY <1>4 DEF WalkInv, DiscoveryWalkCapped
<1>5. ASSUME NEW r \in {lo, hi}, d.resetsRemaining # 0, d' = To(r) PROVE WalkInv'
  <2>1. d'.referencePrice = r /\ d'.resetsRemaining = d.resetsRemaining - 1 /\ d'.boundBps = bps
    BY <1>1, <1>5 DEF BoundRecord
  <2>2. r \in Moved(WithinMoves(granted.referencePrice, bps, used), bps)
    <3> HIDE DEF d, bps, used
    <3> QED BY <1>2 DEF Moved
  <2>3. r \in WithinMoves(granted.referencePrice, bps, used + 1)
    <3> HIDE DEF d, bps, used, lo, hi
    <3> QED BY <1>1, <2>2, OneMoveMore
  <2>4. granted.resetsRemaining - d'.resetsRemaining = used + 1 /\ d'.resetsRemaining \in 0..granted.resetsRemaining
    BY <1>1, <1>5, <2>1
  <2>5. DiscoveryWalkCapped'
    <3>1. d'.referencePrice \in WithinMoves(granted.referencePrice, granted.boundBps,
                                             granted.resetsRemaining - d'.resetsRemaining)
      BY <2>1, <2>3, <2>4
    <3> QED BY <2>4, <3>1 DEF DiscoveryWalkCapped
  <2> QED BY <2>1, <2>5 DEF WalkInv
<1> QED BY <1>3, <1>4, <1>5

LEMMA WalkStands == WalkInv /\ UNCHANGED <<discoveryBounds, granted>> => WalkInv'
BY DEF WalkInv, DiscoveryWalkCapped

LEMMA HubKeepsWalk ==
  ASSUME HubType, WalkInv, HubNext
  PROVE  WalkInv'
<1>1. ASSUME NEW d \in Bounds, setDiscoveryBounds(d) PROVE WalkInv'
  <2>1. d \in BoundRecord /\ d.referencePrice \in Nat /\ d.boundBps \in Nat /\ d.resetsRemaining \in Nat
    BY OracleHubAssumption DEF BoundRecord
  <2>2. discoveryBounds' = d /\ granted' = d
    BY <1>1 DEF setDiscoveryBounds
  <2>3. d.referencePrice \in WithinMoves(d.referencePrice, d.boundBps, 0) /\ d.resetsRemaining - d.resetsRemaining = 0
    BY <2>1, NoMoves
  <2>4. d.resetsRemaining \in 0..d.resetsRemaining
    BY <2>1
  <2> QED BY <2>1, <2>2, <2>3, <2>4 DEF WalkInv, DiscoveryWalkCapped
<1>2. CASE refreshDiscoveryReference
  BY <1>2, RefreshKeepsWalk DEF refreshDiscoveryReference
<1>3. CASE tripIfDiverged \/ unpause
  BY <1>3, WalkStands DEF tripIfDiverged, unpause
<1>4. ASSUME NEW bps, setMaxDivergenceBps(bps) PROVE WalkInv'
  BY <1>4, WalkStands DEF setMaxDivergenceBps
<1>5. ASSUME NEW x, NEW at, PublishPyth(x, at) PROVE WalkInv'
  BY <1>5, WalkStands DEF PublishPyth
<1>6. ASSUME NEW x, NEW complete, PublishChainlink(x, complete) PROVE WalkInv'
  BY <1>6, WalkStands DEF PublishChainlink
<1> QED BY <1>1, <1>2, <1>3, <1>4, <1>5, <1>6 DEF HubNext

-----------------------------------------------------------------------------
\* For every set of trades, feed prices and grants, as long as no trade is cut
\* by its width: the average (MarketImpactTwap.sol) is that of the window's own
\* trades, the mark (OracleHub.sol) stays between two live feeds, and the
\* reference of silent feeds makes no more moves than were granted with it.
THEOREM PricesAlwaysSound == ASSUME TradesFit PROVE MCSpec => []PricesSound
<1> DEFINE PricesInv == RingInv /\ WalkInv
<1>1. MCInit => PricesInv
  <2> SUFFICES ASSUME MCInit PROVE PricesInv
    OBVIOUS
  <2>1. TwapInit /\ HubInit
    BY DEF MCInit, HubInit
  <2>2. RingInv
    <3>1. /\ block = 1 /\ latest.block = 0 /\ latest.size = 0
          /\ DOMAIN ring = 0..WINDOW_BLOCKS - 1 /\ \A i \in DOMAIN ring : ring[i].size = 0
          /\ traded = [n \in 1..MaxBlock |-> <<>>] /\ MaxBlock \in Nat \ {0}
      BY <2>1, ImpactTwapAssumption DEF TwapInit, None
    <3>2. traded \in [1..MaxBlock -> Seq(Trades)] /\ \A n \in 1..MaxBlock : traded[n] = <<>>
      BY <3>1
    <3> QED BY <3>1, <3>2 DEF RingInv
  <2>3. WalkInv
    <3>1. discoveryBounds.referencePrice = 0 /\ discoveryBounds.resetsRemaining = 0
          /\ granted = discoveryBounds /\ granted \in BoundRecord /\ granted.boundBps = 0
      BY <2>1 DEF HubInit, BoundRecord
    <3>2. 0 \in WithinMoves(0, 0, 0) /\ 0 - 0 = 0
      BY NoMoves
    <3> QED BY <3>1, <3>2 DEF WalkInv, DiscoveryWalkCapped
  <2> QED BY <2>2, <2>3
<1>2. MarketInv /\ MarketInv' /\ PricesInv /\ [MCNext]_allVars => PricesInv'
  <2> SUFFICES ASSUME MarketInv, MarketInv', RingInv, WalkInv, [MCNext]_allVars PROVE RingInv' /\ WalkInv'
    OBVIOUS
  <2>1. TwapType /\ TwapType' /\ HubType /\ block \in 1..MaxBlock
    BY DEF MarketInv, RingInv
  <2>2. RingInv'
    BY <2>1, MarketMoves, TradeKeepsRing, RingStands, TradesFit
  <2>3. WalkInv'
    BY <2>1, MarketMoves, HubKeepsWalk, WalkStands
  <2> QED BY <2>2, <2>3
<1>3. MarketInv /\ PricesInv => PricesSound
  BY RingIsExact, MarkIsBetween DEF MarketInv, WalkInv, PricesSound
<1> QED BY <1>1, <1>2, <1>3, MarketAlways, PTL DEF MCSpec
=============================================================================
