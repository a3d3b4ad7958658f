---------------------------- MODULE OrderEscrow ----------------------------
(***************************************************************************)
(* The public order book on chain, OrderBook.sol: signed orders with a     *)
(* bond in ether, which goes back to the owner on a cancel and to whoever  *)
(* clears the order away once it has expired.  It does not match.          *)
(* External: whether validateOpen accepts, and whether a recipient accepts *)
(* the ether.                                                              *)
(***************************************************************************)
EXTENDS ImpactTwap

CONSTANTS
  Users,
  Bonds,           \* msg.value
  Expiries,        \* expiryBlock; 0 stands for good till cancelled
  OrderSizes,
  MIN_RECYCLE_FEE,
  ExpiryWidth,     \* bits of the stored expiry, 64 in the code
  MaxOrders

ASSUME OrderEscrowAssumption ==
  /\ Bonds \subseteq Nat /\ Expiries \subseteq Nat /\ MIN_RECYCLE_FEE \in Nat
  /\ OrderSizes \subseteq Nat \ {0} /\ 2^ExpiryWidth \in Nat \ {0}

VARIABLES
  orders,       \* id -> [owner, nonce, expiry, size, fee]
  nextOrderId,
  nonces,
  ether,        \* the contract's balance
  stranded,     \* history: bonds a recipient refused
  ended         \* history: id -> who was paid its bond, and how it ended

escrowVars == <<orders, nextOrderId, nonces, ether, stranded, ended>>

Without(id) == [i \in DOMAIN orders \ {id} |-> orders[i]]
Expired(o) == o.expiry > 0 /\ block >= o.expiry

\* The signature covers the signer's current nonce.  The stored expiry is cut to
\* its width.
placeOrder(u, nonce, expiry, size, bond) ==
  /\ nextOrderId < MaxOrders
  /\ expiry > 0 => bond >= MIN_RECYCLE_FEE
  /\ nonce = nonces[u]
  /\ nonces' = [nonces EXCEPT ![u] = @ + 1]
  /\ nextOrderId' = nextOrderId + 1
  /\ orders' = [i \in DOMAIN orders \cup {nextOrderId'} |->
                  IF i \in DOMAIN orders THEN orders[i]
                  ELSE [owner |-> u, nonce |-> nonce, expiry |-> expiry % (2^ExpiryWidth), size |-> size, fee |-> bond]]
  /\ ether' = ether + bond
  /\ UNCHANGED <<stranded, ended>>

\* Price and size change in place; neither margin nor signature is checked.
modifyOrder(u, id, size) ==
  /\ id \in DOMAIN orders
  /\ orders[id].owner = u
  /\ ~Expired(orders[id])
  /\ orders' = [orders EXCEPT ![id].size = size]
  /\ UNCHANGED <<nextOrderId, nonces, ether, stranded, ended>>

\* The order is deleted before the call, which may fail.
Paid(id, to, accepts, how) ==
  /\ orders' = Without(id)
  /\ ether' = IF accepts THEN ether - orders[id].fee ELSE ether
  /\ stranded' = IF accepts THEN stranded ELSE stranded + orders[id].fee
  /\ ended' = [i \in DOMAIN ended \cup {id} |->
                 IF i = id THEN [how |-> how, to |-> to, order |-> orders[id], at |-> block] ELSE ended[i]]
  /\ UNCHANGED <<nextOrderId, nonces>>

cancelOrder(u, id, accepts) ==
  /\ id \in DOMAIN orders
  /\ orders[id].owner = u
  /\ Paid(id, u, accepts, "cancelled")

\* Mutant: the order is cleared away while it could still trade.
claimRecycleFeeEarly(u, id, accepts) ==
  /\ id \in DOMAIN orders
  /\ orders[id].expiry # 0
  /\ Paid(id, u, accepts, "recycled")

claimRecycleFee(u, id, accepts) ==
  /\ id \in DOMAIN orders
  /\ Expired(orders[id])
  /\ Paid(id, u, accepts, "recycled")

EscrowInit ==
  /\ orders = [i \in {} |-> 0]
  /\ nextOrderId = 0
  /\ nonces = [u \in Users |-> 0]
  /\ ether = 0
  /\ stranded = 0
  /\ ended = [i \in {} |-> 0]

EscrowNext ==
  \/ \E u \in Users, n \in 0..MaxOrders, e \in Expiries, s \in OrderSizes, b \in Bonds : placeOrder(u, n, e, s, b)
  \/ \E u \in Users, id \in 1..MaxOrders, s \in OrderSizes : modifyOrder(u, id, s)
  \/ \E u \in Users, id \in 1..MaxOrders, ok \in BOOLEAN : cancelOrder(u, id, ok) \/ claimRecycleFee(u, id, ok)

\* The book while blocks go by.
EscrowSpec ==
  /\ TwapInit /\ EscrowInit
  /\ [][\/ EscrowNext /\ UNCHANGED twapVars
        \/ block' = block + 1 /\ UNCHANGED <<latest, ring, traded, escrowVars>>]_<<twapVars, escrowVars>>
----------------------------------------------------------------------------
(* Properties *)

(* The ether of the contract is the bonds of the orders that rest, plus    *)
(* what a recipient refused, and every order that ended returned its bond  *)
(* once: to its owner, or after its expiry to whoever cleared it away.     *)
BondsAccounted ==
  /\ ether = stranded + SumFunctionOnSet([id \in DOMAIN orders |-> orders[id].fee], DOMAIN orders)
  /\ DOMAIN orders \cap DOMAIN ended = {}
  /\ DOMAIN orders \cup DOMAIN ended = 1..nextOrderId
  /\ \A id \in DOMAIN ended :
       LET e == ended[id] IN
       e.to # e.order.owner => (e.how = "recycled" /\ e.order.expiry \in 1..e.at)

(* A signature places at most one order.                                   *)
NoSignatureReuse ==
  LET Placed(id) == IF id \in DOMAIN orders THEN orders[id] ELSE ended[id].order
  IN \A i, j \in 1..nextOrderId :
       (i # j /\ Placed(i).owner = Placed(j).owner) => Placed(i).nonce # Placed(j).nonce

(* Bonds and signatures are used once each, in any order of placing,       *)
(* cancelling and clearing away.                                           *)
EscrowSound == BondsAccounted /\ NoSignatureReuse
=============================================================================
