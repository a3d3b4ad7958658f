------------------------------ MODULE Clearing ------------------------------
(***************************************************************************)
(* The collateral kernel on chain: custody and freezing (Account.sol), the *)
(* haircut value of collateral (CollateralEngine.sol), the withdrawal gate *)
(* and the liquidation trigger (RiskMonitor.sol), flagging and standard    *)
(* liquidation (LiquidationEntry.sol), public trades (settleTrade of       *)
(* SettlementEngine.sol over PositionEngine.sol), the attester list        *)
(* (AttestationRouter.sol) and the capabilities of prop accounts           *)
(* (CapabilityRegistry.sol).  One market; SCALE is 1.                      *)
(*                                                                         *)
(* A transaction is atomic, so one call is one action; a revert is a       *)
(* disabled action.  External: the mark price and whether its feeds are    *)
(* live move at any time; the role holders call when they like.            *)
(***************************************************************************)
EXTENDS Integers, Sequences, FiniteSets, FiniteSetsExt, SequencesExt, Functions

CONSTANTS
  Accounts,       \* every address with a record in Account.sol
  Fund,           \* insuranceFund, one of the accounts
  Traders,        \* the accounts that deposit and trade
  Assets,         \* registeredAssets, a sequence
  Cash,           \* the asset PnL is settled in
  TierHaircuts,   \* asset -> the haircuts its tier allows
  PriceOf,        \* asset -> oracle price
  Amounts,        \* amounts deposited and withdrawn
  Batches,        \* PnL settled at once: some accounts -> their deltas
  Sizes, Marks,   \* trade sizes and mark prices
  MaxNotionals,   \* what a liquidator is willing to close
  Requirements,   \* portfolio margins the matcher attests
  Signed,         \* capabilities the firm has signed: [loss, drawdown, expiry]
  Losses,         \* losses and drawdowns reported
  Lifetime,       \* of an attestation
  MaxTime, MaxSteps,
  BoundsEnabled   \* discoveryBoundsEnabled of the market

BPS_DENOMINATOR == 10000

\* Amounts, prices and notionals are uint256, the sizes of a trade too.
ASSUME ClearingAssumption ==
  /\ IsFiniteSet(Accounts) /\ Fund \in Accounts /\ Traders \subseteq Accounts
  /\ Assets \in Seq(ToSet(Assets)) /\ Cash \in ToSet(Assets)
  /\ \A s \in ToSet(Assets) :
       /\ TierHaircuts[s] # {} /\ \A bps \in TierHaircuts[s] : bps \in 0..BPS_DENOMINATOR
       /\ PriceOf[s] \in Nat \ {0}
  /\ Amounts \subseteq Nat /\ Sizes \subseteq Nat /\ MaxNotionals \subseteq Nat
  /\ \A d \in Batches : \A t \in DOMAIN d : d[t] \in Int
  /\ Requirements \subseteq Nat /\ Losses \subseteq Nat /\ Lifetime \in Nat
  /\ Signed \subseteq [loss : Nat, drawdown : Nat, expiry : Nat]
  /\ Marks \subseteq Nat \ {0}
  /\ MaxTime \in Nat \ {0} /\ MaxSteps \in Nat

MMR_BPS == 300
LEVERAGE_CEILING == 20
IMR_BPS == BPS_DENOMINATOR \div LEVERAGE_CEILING
LIQUIDATION_PENALTY_BPS == 100
LIQUIDATOR_SHARE_BPS == 5000

NoPosition == [size |-> 0, entry |-> 0, margin |-> 0]
NoCapability == [loss |-> 0, drawdown |-> 0, expiry |-> 0, revoked |-> FALSE]

VARIABLES
  balances,      \* collateralBalances: account -> asset -> amount
  held,          \* tokens in custody, by asset
  settled,       \* history: sum of the PnL that batches settled
  forgiven,      \* history: losses that the floor of a batch cut off
  frozen,        \* accounts[t].frozen
  haircut,       \* _haircutBps of each asset
  position,      \* the record of each account
  mark, live,    \* external: markPrice, isPriceLive
  attestation,   \* _portfolioAttestations: [requirement, expiry]
  authorized,    \* isAuthorizedTEE of the matcher
  capability,    \* capabilities
  now,           \* block.timestamp
  steps

custody == <<balances, held, settled, forgiven>>
oracle == <<haircut, mark, live>>
roles == <<attestation, authorized, capability, now>>
vars == <<custody, frozen, position, oracle, roles, steps>>

AssetSet == ToSet(Assets)
Mag(x) == IF x < 0 THEN -x ELSE x
Call == steps < MaxSteps /\ steps' = steps + 1

----------------------------------------------------------------------------
(* Value and margin *)

assetValueUsd(asset, amount) ==
  (amount * (BPS_DENOMINATOR - haircut[asset]) * PriceOf[asset]) \div BPS_DENOMINATOR

effectiveCollateral(t) ==
  SumFunctionOnSet([s \in AssetSet |-> assetValueUsd(s, balances[t][s])], AssetSet)

currentMarginRequirement(t) == (Mag(position[t].size) * mark * MMR_BPS) \div BPS_DENOMINATOR

\* A fresh attestation replaces the isolated requirement.
effectiveMarginRequirement(t) ==
  IF attestation[t].expiry > now THEN attestation[t].requirement ELSE currentMarginRequirement(t)

\* Mutant: the collateral before the withdrawal.
isWithdrawSafeBefore(t, asset, amount) == effectiveCollateral(t) >= effectiveMarginRequirement(t)

isWithdrawSafe(t, asset, amount) ==
  effectiveCollateral(t) - assetValueUsd(asset, amount) >= effectiveMarginRequirement(t)

----------------------------------------------------------------------------
(* Account.sol *)

deposit(t, asset, amount) ==
  /\ Call
  /\ ~frozen[t]
  /\ balances' = [balances EXCEPT ![t][asset] = @ + amount]
  /\ held' = [held EXCEPT ![asset] = @ + amount]
  /\ UNCHANGED <<frozen, position, settled, forgiven, oracle, roles>>

withdraw(t, asset, amount) ==
  /\ Call
  /\ ~frozen[t]
  /\ balances[t][asset] >= amount
  /\ isWithdrawSafe(t, asset, amount)
  /\ held[asset] >= amount
  /\ balances' = [balances EXCEPT ![t][asset] = @ - amount]
  /\ held' = [held EXCEPT ![asset] = @ - amount]
  /\ UNCHANGED <<frozen, position, settled, forgiven, oracle, roles>>

\* Mutant: the recipient is credited, the trader not debited.
seizeCollateralCredited(b, t, asset, amount, to) == [b EXCEPT ![to][asset] = @ + amount]

\* seizeCollateral, as a change of the balances; nothing leaves custody.
seizeCollateral(b, t, asset, amount, to) ==
  IF amount = 0 THEN b ELSE [[b EXCEPT ![t][asset] = @ - amount] EXCEPT ![to][asset] = @ + amount]

\* A batch names one account or several, and what it settles may all go one way:
\* only a close realizes PnL, and the other side's opening none.  A loss stops at
\* zero.  One that names an account twice does what two in a row do.
settleRealizedPnlBatch(pnlDeltas) ==
  LET Delta == [t \in Accounts |-> IF t \in DOMAIN pnlDeltas THEN pnlDeltas[t] ELSE 0]
      Was   == [t \in Accounts |-> balances[t][Cash]]
      Floor == [t \in Accounts |-> IF Was[t] + Delta[t] < 0 THEN -(Was[t] + Delta[t]) ELSE 0]
  IN
  /\ Call
  /\ authorized
  /\ balances' = [t \in Accounts |-> [balances[t] EXCEPT ![Cash] = Was[t] + Delta[t] + Floor[t]]]
  /\ settled' = settled + SumFunctionOnSet(Delta, Accounts)
  /\ forgiven' = forgiven + SumFunctionOnSet(Floor, Accounts)
  /\ UNCHANGED <<frozen, held, position, oracle, roles>>

unfreezeAccount(t) ==
  /\ Call
  /\ frozen[t]
  /\ frozen' = [frozen EXCEPT ![t] = FALSE]
  /\ UNCHANGED <<position, custody, oracle, roles>>

----------------------------------------------------------------------------
(* settleTrade and settlePositionClose *)

requiredMargin(size, price) == (size * price * IMR_BPS) \div BPS_DENOMINATOR

\* Both records are overwritten; margin is not taken from the balances.
Traded(pos, long, short, size, price) ==
  LET At(s) == [size |-> s, entry |-> price, margin |-> requiredMargin(size, price)]
  IN [[pos EXCEPT ![long] = At(size)] EXCEPT ![short] = At(-size)]

\* The margin taken at the traded price, against both checks at the mark.
validateOpen(size, margin) ==
  /\ (size * mark * IMR_BPS) \div BPS_DENOMINATOR <= margin
  /\ size * mark <= margin * LEVERAGE_CEILING

settleTrade(long, short, size, price) ==
  /\ Call
  /\ long # short
  /\ validateOpen(size, requiredMargin(size, price))
  /\ position' = Traded(position, long, short, size, price)
  /\ UNCHANGED <<frozen, custody, oracle, roles>>

\* settlePositionClose: what remains keeps its entry price.
Closed(pos, t, old, left) ==
  [pos EXCEPT ![t] = IF left = 0 THEN NoPosition
                     ELSE [size |-> IF old.size > 0 THEN left ELSE -left, entry |-> old.entry,
                           margin |-> (old.margin * left) \div Mag(old.size)]]

----------------------------------------------------------------------------
(* LiquidationEntry.sol *)

Notional(t) == Mag(position[t].size) * mark
_equity(t) == effectiveCollateral(t) + position[t].size * (mark - position[t].entry)
Underwater(t) ==
  /\ position[t] # NoPosition
  /\ _equity(t) < (Notional(t) * MMR_BPS) \div BPS_DENOMINATOR

\* _isUnreliableFallback: bounds are on and no live price can be read.
Reliable == BoundsEnabled => live

FreezeAll(ts) == frozen' = [t \in Accounts |-> frozen[t] \/ t \in ts]

\* Mutant: notional against collateral, the predicate of finding C2.
FlaggedByNotional(t) ==
  IF Reliable /\ position[t] # NoPosition /\ Notional(t) * 100 >= effectiveCollateral(t) * 85
  THEN {t} ELSE {}

\* No position, or no reliable price: nothing happens.
FlaggedBy(t) == IF Reliable /\ Underwater(t) THEN {t} ELSE {}

checkAndFlag(t) ==
  /\ Call
  /\ FreezeAll(FlaggedBy(t))
  /\ UNCHANGED <<position, custody, oracle, roles>>

\* RiskMonitor.checkLiquidation: a breach of the requirement hands every
\* market of the trader to checkAndFlag.
checkLiquidation(t) ==
  /\ Call
  /\ FreezeAll(IF effectiveMarginRequirement(t) > effectiveCollateral(t) THEN FlaggedBy(t) ELSE {})
  /\ UNCHANGED <<position, custody, oracle, roles>>

\* The whole position when maxNotional covers it, else the share, rounded down.
_closeSize(t, maxNotional) ==
  IF Notional(t) <= maxNotional THEN Mag(position[t].size)
  ELSE (Mag(position[t].size) * maxNotional) \div Notional(t)

\* _seizeAssetChunk: at the price without haircut, half to each; a dust share
\* goes to the fund whole.
_seizeAssetChunk(b, t, liquidator, asset, remaining) ==
  LET usd    == Min({b[t][asset] * PriceOf[asset], remaining})
      amount == usd \div PriceOf[asset]
      first  == (amount * LIQUIDATOR_SHARE_BPS) \div BPS_DENOMINATOR
  IN [usd |-> usd,
      balances |-> seizeCollateral(seizeCollateral(b, t, asset, first, liquidator),
                                   t, asset, amount - first, Fund)]

\* Through the registered assets in order; what is left is the shortfall.
_sweepPenalty(t, liquidator, penalty) ==
  LET swept[k \in 0..Len(Assets)] ==
        IF k = 0 THEN [balances |-> balances, left |-> penalty]
        ELSE LET chunk == _seizeAssetChunk(swept[k - 1].balances, t, liquidator, Assets[k], swept[k - 1].left)
             IN [balances |-> chunk.balances, left |-> swept[k - 1].left - chunk.usd]
  IN swept[Len(Assets)].balances

\* The flag must stand and the account still be under water.
executeStandardLiquidation(liquidator, t, maxNotional) ==
  LET close == _closeSize(t, maxNotional)
      old   == position[t]
  IN
  /\ Call
  /\ liquidator # t
  /\ frozen[t] /\ Reliable
  /\ Underwater(t)
  /\ close > 0
  /\ validateOpen(close, requiredMargin(close, mark))
  /\ position' =
       Closed(IF old.size > 0 THEN Traded(position, liquidator, t, close, mark)
              ELSE Traded(position, t, liquidator, close, mark),
              t, old, Mag(old.size) - close)
  /\ balances' = _sweepPenalty(t, liquidator, (close * mark * LIQUIDATION_PENALTY_BPS) \div BPS_DENOMINATOR)
  /\ UNCHANGED <<frozen, held, settled, forgiven, oracle, roles>>

----------------------------------------------------------------------------
(* RiskMonitor attestations, AttestationRouter, CapabilityRegistry *)

submitPortfolioMargin(t, requirement) ==
  /\ Call
  /\ authorized
  /\ attestation' = [attestation EXCEPT ![t] = [requirement |-> requirement, expiry |-> now + Lifetime]]
  /\ UNCHANGED <<frozen, position, authorized, capability, now, custody, oracle>>

authorizeTEE ==
  /\ Call
  /\ authorized' = TRUE
  /\ UNCHANGED <<frozen, position, attestation, capability, now, custody, oracle>>

revokeTEE ==
  /\ Call
  /\ authorized' = FALSE
  /\ UNCHANGED <<frozen, position, attestation, capability, now, custody, oracle>>

isActive(t) == capability[t].expiry > now /\ ~capability[t].revoked

\* Anyone who holds the firm's signature may register it, again too, unless a
\* capability is active.
grantCapability(t, terms) ==
  /\ Call
  /\ terms.expiry > now
  /\ ~isActive(t)
  /\ capability' = [capability EXCEPT ![t] = [loss |-> terms.loss, drawdown |-> terms.drawdown,
                                             expiry |-> terms.expiry, revoked |-> FALSE]]
  /\ UNCHANGED <<frozen, position, attestation, authorized, now, custody, oracle>>

revokeCapability(t) ==
  /\ Call
  /\ isActive(t)
  /\ capability' = [capability EXCEPT ![t].revoked = TRUE]
  /\ UNCHANGED <<frozen, position, attestation, authorized, now, custody, oracle>>

checkBreach(t, loss, drawdown) == loss > capability[t].loss \/ drawdown > capability[t].drawdown

\* An account without an active capability is left alone.
checkAndFreezeOnBreach(t, loss, drawdown) ==
  /\ Call
  /\ isActive(t) /\ checkBreach(t, loss, drawdown)
  /\ capability' = [capability EXCEPT ![t].revoked = TRUE]
  /\ FreezeAll({t})
  /\ UNCHANGED <<position, attestation, authorized, now, custody, oracle>>

\* Registering an asset again changes its haircut in place.
registerAsset(asset, bps) ==
  /\ Call
  /\ haircut' = [haircut EXCEPT ![asset] = bps]
  /\ UNCHANGED <<frozen, position, mark, live, custody, roles>>

\* External: the oracle's price and its feeds.
MoveMark(price, isLive) ==
  /\ Call
  /\ mark' = price /\ live' = isLive
  /\ UNCHANGED <<frozen, position, haircut, custody, roles>>

Tick ==
  /\ now < MaxTime
  /\ now' = now + 1
  /\ UNCHANGED <<frozen, position, attestation, authorized, capability, custody, oracle, steps>>
----------------------------------------------------------------------------
\* Custody as these deposits, and the records as these trades, leave it.
StartFrom(deposits, trades) ==
  /\ balances = deposits
  /\ held = [s \in AssetSet |-> SumFunctionOnSet([t \in Accounts |-> deposits[t][s]], Accounts)]
  /\ settled = 0 /\ forgiven = 0
  /\ frozen = [t \in Accounts |-> FALSE]
  /\ haircut = [s \in AssetSet |-> Min(TierHaircuts[s])]
  /\ position = trades
  /\ mark \in Marks /\ live = TRUE
  /\ attestation = [t \in Accounts |-> [requirement |-> 0, expiry |-> 0]]
  /\ authorized = TRUE
  /\ capability = [t \in Accounts |-> NoCapability]
  /\ now = 1 /\ steps = 0

Empty == [t \in Accounts |-> [s \in AssetSet |-> 0]]
Flat == [t \in Accounts |-> NoPosition]
Init == StartFrom(Empty, Flat)

\* What the accounts' owners, the settler and the risk keepers call ...
Trading ==
  \/ \E t \in Traders, s \in AssetSet, n \in Amounts : deposit(t, s, n) \/ withdraw(t, s, n)
  \/ \E t, u \in Traders, n \in Sizes, p \in Marks : settleTrade(t, u, n, p)
  \/ \E t \in Traders : checkAndFlag(t) \/ checkLiquidation(t)
  \/ \E t, u \in Accounts, n \in MaxNotionals : executeStandardLiquidation(t, u, n)
  \/ \E p \in Marks, isLive \in BOOLEAN : MoveMark(p, isLive)

\* ... and the administrators, the firm and the matcher.
Governing ==
  \/ \E pnlDeltas \in Batches : settleRealizedPnlBatch(pnlDeltas)
  \/ \E t \in Accounts : unfreezeAccount(t) \/ revokeCapability(t)
  \/ \E t \in Traders, n \in Requirements : submitPortfolioMargin(t, n)
  \/ authorizeTEE \/ revokeTEE
  \/ \E t \in Traders, terms \in Signed : grantCapability(t, terms)
  \/ \E t \in Traders, n, d \in Losses : checkAndFreezeOnBreach(t, n, d)
  \/ \E s \in AssetSet : \E bps \in TierHaircuts[s] : registerAsset(s, bps)
  \/ Tick

Next == Trading \/ Governing
Spec == Init /\ [][Next]_vars
----------------------------------------------------------------------------
(* Properties *)

Positions == [size : Int, entry : Nat, margin : Nat]

(* Every balance, custody and record stays in range: no uint256 of Account *)
(* or of the position store underflows on any path.                        *)
TypeOK ==
  /\ balances \in [Accounts -> [AssetSet -> Nat]]
  /\ held \in [AssetSet -> Nat]
  /\ settled \in Int /\ forgiven \in Nat
  /\ frozen \in [Accounts -> BOOLEAN]
  /\ haircut \in [AssetSet -> 0..BPS_DENOMINATOR]
  /\ \A s \in AssetSet : haircut[s] \in TierHaircuts[s]
  /\ attestation \in [Accounts -> [requirement : Nat, expiry : Nat]]
  /\ capability \in [Accounts -> [loss : Nat, drawdown : Nat, expiry : Nat, revoked : BOOLEAN]]
  /\ position \in [Accounts -> Positions]
  /\ mark \in Marks /\ live \in BOOLEAN /\ authorized \in BOOLEAN
  /\ now \in 1..MaxTime /\ steps \in 0..MaxSteps

(* The claims on an asset are the tokens in custody, plus what batches     *)
(* settled, which brings no tokens in, and the losses they floored at zero *)
(* (settleRealizedPnlBatch): deposits, withdrawals and penalties split     *)
(* over assets and rounded create or lose nothing, and none underflows.    *)
CustodyBacked ==
  /\ TypeOK
  /\ \A s \in AssetSet :
       SumFunctionOnSet([t \in Accounts |-> balances[t][s]], Accounts)
         = held[s] + (IF s = Cash THEN settled + forgiven ELSE 0)

(* Withdrawals never take collateral below the requirement in force, but   *)
(* for the one unit that rounding the haircut value of the part and of the *)
(* whole apart can cost (Account.withdraw, RiskMonitor.isWithdrawSafe).    *)
WithdrawKeepsMargin ==
  [][\A t \in Accounts : \A s \in AssetSet :
       (held'[s] < held[s] /\ balances'[t][s] < balances[t][s])
         => effectiveCollateral(t)' + 1 >= effectiveMarginRequirement(t)]_vars

(* An account that is not under water at a price the oracle vouches for is *)
(* neither frozen, except by a breach of its own capability, nor, although *)
(* an earlier flag may still stand, stripped of collateral by a            *)
(* liquidation (LiquidationEntry, findings C1 and C2).                     *)
HealthyLeftAlone ==
  \A t \in Accounts : ~(Reliable /\ Underwater(t)) =>
    /\ (frozen'[t] /\ ~frozen[t]) => (isActive(t) /\ capability'[t].revoked)
    /\ \A s \in AssetSet \ {Cash} : held'[s] = held[s] => balances'[t][s] >= balances[t][s]

Deficit(t) == (Notional(t) * MMR_BPS) \div BPS_DENOMINATOR - _equity(t)

Liquidated(t) ==
  /\ frozen[t] /\ position'[t] # position[t]
  /\ \E l \in Accounts, n \in MaxNotionals : executeStandardLiquidation(l, t, n)

(* A liquidation of a losing position leaves the same side at the same     *)
(* entry price, smaller, and nearer to its maintenance margin, although    *)
(* the takeover trade overwrites the record and the penalty is seized from *)
(* the collateral (settleTrade, settlePositionClose, _sweepPenalty).       *)
LiquidationImproves ==
  \A t \in Traders :
    (Liquidated(t) /\ position[t].size * (mark - position[t].entry) <= 0) =>
      \/ position'[t] = NoPosition
      \/ /\ position'[t].size * position[t].size > 0
         /\ position'[t].entry = position[t].entry
         /\ Deficit(t)' < Deficit(t)

(* Liquidation only meets accounts that are under water when it strikes,   *)
(* whatever happened since the flag, and only brings them nearer to their  *)
(* margin.                                                                 *)
LiquidationSound == [][HealthyLeftAlone /\ LiquidationImproves]_vars
=============================================================================
