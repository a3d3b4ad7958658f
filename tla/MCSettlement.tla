---------------------------- MODULE MCSettlement ----------------------------
(***************************************************************************)
(* SealedSettlement for TLC: a and b, real ticks and margin rates, and one *)
(* of three scenarios, so that each kind of concurrency is explored fully  *)
(* without their product:                                                  *)
(*   "orders"  two orders in market 1, flat or one contract apart, with a  *)
(*             fault;                                                      *)
(*   "thin"    one order and one liquidation over two markets, four        *)
(*             contracts apart at the highest leverage, two prices, with a *)
(*             fault;                                                      *)
(*   "two"     two liquidations over two markets, with a fault.            *)
(***************************************************************************)
EXTENDS SealedSettlement

CONSTANTS a, b, l1, l2
VARIABLE scenario

Pair == {a, b}
Unlimited == [t \in Pair |-> 100000000]
OneScale == [m \in Markets |-> 1]
Low == CHOOSE t \in Prices : \A u \in Prices : t <= u
High == CHOOSE t \in Prices : \A u \in Prices : t >= u

Portfolios ==
  [orders |-> {[k \in Keys |-> 0],
               [k \in Keys |-> IF k[2] # 1 THEN 0 ELSE IF k[1] = a THEN 1 ELSE -1]},
   thin   |-> {[k \in Keys |-> IF k[1] = a THEN 4 ELSE -4]},
   two    |-> {[k \in Keys |-> IF k[1] = a THEN 4 ELSE 0]}]
AllPortfolios == Portfolios.orders \cup Portfolios.thin \cup Portfolios.two

\* Orders are for market 1, at this price and this funding index.
At(price, index) ==
  \A r \in Orders :
    /\ req[r].pc = "match" => req[r].tick = price /\ req[r].market = 1
    /\ req[r].pc = "lock" =>
         /\ req[r].funding = index
         /\ \A i \in DOMAIN req[r].fills : req[r].fills[i].price = price

InScenario ==
  \/ /\ scenario = "orders"
     /\ \A l \in Liquidations : liq[l] = Idle
     /\ At(Low, 0)
  \/ /\ scenario = "thin"
     /\ liq[l2] = Idle /\ req[2] = Idle
     /\ At(High, 1000)
  \/ /\ scenario = "two"
     /\ \A r \in Orders : req[r] = Idle

MCInit ==
  /\ Init
  /\ scenario \in DOMAIN Portfolios
  /\ sealed \in {[k \in Keys |-> Opened(open[k])] : open \in Portfolios[scenario]}

MCNext == Next /\ UNCHANGED scenario /\ InScenario'
MCSpec == MCInit /\ [][MCNext]_<<vars, scenario>>
=============================================================================
