---------------------------- MODULE MCContracts ----------------------------
(***************************************************************************)
(* The contracts for TLC, in one of nine scenarios, so that each set of    *)
(* callers is explored deeply without their product.  Clearing:            *)
(*   "trading"  a and b hold ten contracts against each other: prices,     *)
(*              flags, liquidations, withdrawals and trades;               *)
(*   "roles"    the same accounts, and every call of the kernel;           *)
(*   "vault"    holders enter and leave the vault while PnL is settled;    *)
(*   "ledger"   the backstop ledger.                                       *)
(* Markets:                                                                *)
(*   "twap"     trades in blocks that come and go;                         *)
(*   "oracle"   feeds that move, fall silent and disagree, around one      *)
(*              trade;                                                     *)
(*   "funding"  trades, sealed legs and updates while the prices move;     *)
(*   "fx"       the same over a pushed rate;                               *)
(*   "escrow"   orders and their bonds.                                    *)
(***************************************************************************)
EXTENDS Vault, BackstopLedger, PerpMarket, FxPerpMarket, OrderEscrow

CONSTANTS
  a, b, fund, cash, yield, h1, h2, fees, m1, m2, p1, p2, p3, u1, u2,
  RoleSteps, OracleBlocks, FundingBlocks, EscrowBlocks

ASSUME BlocksAssumption == {OracleBlocks, FundingBlocks, EscrowBlocks} \subseteq 1..MaxBlock

VARIABLE scenario

Everyone == {a, b, fund}
AssetList == <<cash, yield>>
Tiers == [s \in {cash, yield} |-> IF s = cash THEN {0} ELSE {500, 1000}]
Prices == [s \in {cash, yield} |-> IF s = cash THEN 1 ELSE 3]
BatchSet == {a :> 7, a :> -13, b :> 30, (a :> 7) @@ (b :> -7), (a :> 30) @@ (b :> -30)}
Attested == {-3, -1, 2}
Terms == {[loss |-> 1, drawdown |-> 2, expiry |-> 3], [loss |-> 2, drawdown |-> 1, expiry |-> 2]}

TradeSet == {[price |-> 90, size |-> 1], [price |-> 101, size |-> 2]}
RateSet == {-2000, 0, 700}
BoundSet ==
  {[enabled |-> TRUE, referencePrice |-> 100, boundBps |-> 400, resetsRemaining |-> 2],
   [enabled |-> TRUE, referencePrice |-> 97, boundBps |-> 10000, resetsRemaining |-> 1],
   [enabled |-> FALSE, referencePrice |-> 0, boundBps |-> 0, resetsRemaining |-> 0]}

clearingVars == <<vars, vaultVars, ledgerVars>>
marketVars == <<twapVars, hubVars, fundingVars, fxVars, escrowVars>>
allVars == <<clearingVars, marketVars, scenario>>

\* The vault is empty, and the two traders opened at 100 with this collateral.
Deposited == [t \in Everyone |-> [s \in {cash, yield} |->
                CASE t = a /\ s = cash -> 4
                  [] t = a /\ s = yield -> 15
                  [] t = b /\ s = cash -> 40
                  [] OTHER -> 0]]

Opened == Traded(Flat, a, b, 10, 100)

ClearingScenarios == {"trading", "roles", "vault", "ledger"}
MarketScenarios == {"twap", "oracle", "funding", "fx", "escrow"}

MCInit ==
  /\ scenario \in ClearingScenarios \union MarketScenarios
  /\ CASE scenario = "vault" -> StartFrom([Deposited EXCEPT ![a] = Empty[a]], Flat)
       [] scenario \in {"trading", "roles"} -> StartFrom(Deposited, Opened)
       [] OTHER -> Init
  /\ mark = 100
  /\ VaultInit /\ LedgerInit
  /\ HubInit /\ FundingInit /\ FxInit /\ EscrowInit

ClearingStep ==
  \/ /\ scenario = "trading" /\ Trading
     /\ UNCHANGED <<vaultVars, ledgerVars>>
  \/ /\ scenario = "roles" /\ steps < RoleSteps /\ Next
     /\ UNCHANGED <<vaultVars, ledgerVars>>
  \/ /\ scenario = "vault"
     /\ VaultNext \/ \E pnlDeltas \in Batches :
                       settleRealizedPnlBatch(pnlDeltas) /\ UNCHANGED vaultVars
     /\ UNCHANGED ledgerVars
  \/ /\ scenario = "ledger"
     /\ LedgerNext \/ ((authorizeTEE \/ revokeTEE) /\ UNCHANGED ledgerVars)
     /\ UNCHANGED vaultVars

MineUntil(last) ==
  /\ block < last
  /\ block' = block + 1
  /\ UNCHANGED <<latest, ring, traded, hubVars, fundingVars, escrowVars>>

Twap ==
  /\ \/ \E x \in Trades : Len(traded[block]) < 2 /\ recordTrade(x) /\ UNCHANGED hubVars
     \/ MineUntil(MaxBlock)
  /\ UNCHANGED <<hubVars, fundingVars, fxVars, escrowVars>>

Oracle ==
  /\ \/ HubNext
     \/ \E x \in Trades : latest = None /\ recordTrade(x) /\ UNCHANGED hubVars
     \/ MineUntil(OracleBlocks)
  /\ UNCHANGED <<fundingVars, fxVars, escrowVars>>

\* Both feeds publish, the primary one at its own price.
Quoted(price, other) ==
  /\ pyth' = [price |-> price, at |-> block]
  /\ chainlink' = [price |-> other, at |-> block, complete |-> TRUE]
  /\ UNCHANGED <<paused, maxDivergenceBps, discoveryBounds, granted, twapVars, fundingVars>>

Funding ==
  /\ \/ (\A n \in DOMAIN traded : Len(traded[n]) < 2) /\ FundingNext
     \/ \E p, q \in FeedPrices \ {0} : Quoted(p, q)
     \/ MineUntil(FundingBlocks)
  /\ UNCHANGED <<fxVars, escrowVars>>

Fx ==
  /\ \/ FxNext /\ UNCHANGED block
     \/ MineUntil(MaxBlock) /\ FxElapse
  /\ UNCHANGED <<latest, ring, traded, hubVars, fundingVars, escrowVars>>

Escrow ==
  /\ \/ EscrowNext /\ UNCHANGED twapVars
     \/ MineUntil(EscrowBlocks)
  /\ UNCHANGED <<hubVars, fundingVars, fxVars>>

MarketStep ==
  \/ scenario = "twap" /\ Twap
  \/ scenario = "oracle" /\ Oracle
  \/ scenario = "funding" /\ Funding
  \/ scenario = "fx" /\ Fx
  \/ scenario = "escrow" /\ Escrow

MCNext ==
  /\ \/ ClearingStep /\ UNCHANGED marketVars
     \/ MarketStep /\ UNCHANGED clearingVars
  /\ UNCHANGED scenario

MCSpec == MCInit /\ [][MCNext]_allVars

(* In both kinds of market a position is charged for the time it was open, *)
(* at most at the cap in the one; in the other at the rates in force save  *)
(* the seconds that calls for another id swallowed, however late and       *)
(* however often the lazy index is brought up to date.                     *)
FundingForTimeOpen == FundingCapped /\ FxFundingExact
=============================================================================
