------------------------------- MODULE Vault -------------------------------
(***************************************************************************)
(* The share vault of Vault.sol over the collateral kernel: its capital is *)
(* the balance of one account of Clearing, so that realized PnL, freezing  *)
(* and the withdrawal gate reach it like any trader.  SCALE is a constant. *)
(***************************************************************************)
EXTENDS Clearing

CONSTANTS
  VaultAccount,     \* the vault's own trader identity
  Holders,          \* depositors
  FeeRecipient,
  FeeBps,           \* values of performanceFeeBps
  ShareAmounts,     \* shares a holder burns
  SCALE

\* The vault's asset is USDC: tier 1, which has no haircut, and worth its face.
\* A call with no shares or with a fee above 50% reverts.
ASSUME VaultAssumption ==
  /\ VaultAccount \in Accounts /\ IsFiniteSet(Holders)
  /\ TierHaircuts[Cash] = {0} /\ PriceOf[Cash] = 1
  /\ ShareAmounts \subseteq Nat \ {0}
  /\ \A f \in FeeBps : f \in 0..5000
  /\ SCALE \in Nat \ {0}

VARIABLES
  shares,                  \* balanceOf
  highWaterMarkPerShare,
  performanceFeeBps,
  peak                     \* history: the highest NAV per share an accrual saw
                           \* since the vault was last empty, as [assets, supply]

vaultVars == <<shares, highWaterMarkPerShare, performanceFeeBps, peak>>

Owners == Holders \cup {FeeRecipient}
Supply(sh) == SumFunctionOnSet(sh, Owners)
totalSupply == Supply(shares)
totalAssets == effectiveCollateral(VaultAccount)
navPerShare == IF totalSupply = 0 THEN SCALE ELSE (totalAssets * SCALE) \div totalSupply

\* The shares minted to the fee recipient, and the mark afterwards.
FeeShares ==
  LET profit == ((navPerShare - highWaterMarkPerShare) * totalSupply) \div SCALE
      fee    == (profit * performanceFeeBps) \div BPS_DENOMINATOR
  IN IF totalSupply = 0 \/ navPerShare <= highWaterMarkPerShare \/ fee = 0 THEN 0
     ELSE (fee * totalSupply) \div totalAssets

\* Mutant: the mark follows the NAV down as well.
_accrueFeeFollowing ==
  [shares |-> [shares EXCEPT ![FeeRecipient] = @ + FeeShares],
   mark   |-> IF totalSupply = 0 THEN SCALE
              ELSE (totalAssets * SCALE) \div (totalSupply + FeeShares)]

\* An empty vault starts again at 1.0; the mark is taken after the dilution.
_accrueFee ==
  [shares |-> [shares EXCEPT ![FeeRecipient] = @ + FeeShares],
   mark   |-> IF totalSupply = 0 THEN SCALE
              ELSE IF navPerShare <= highWaterMarkPerShare THEN highWaterMarkPerShare
              ELSE (totalAssets * SCALE) \div (totalSupply + FeeShares)]

Higher(x, y) == x.assets * y.supply > y.assets * x.supply
Accrued == [assets |-> totalAssets, supply |-> totalSupply + FeeShares]
Recorded(acc) ==
  /\ highWaterMarkPerShare' = acc.mark
  /\ peak' = IF totalSupply = 0 THEN [assets |-> 1, supply |-> 1]
             ELSE IF Higher(Accrued, peak) THEN Accrued ELSE peak
  /\ UNCHANGED performanceFeeBps

\* Shares round down; a vault with shares and no assets takes no deposit.
vaultDeposit(h, assets) ==
  LET acc    == _accrueFee
      supply == Supply(acc.shares)
      minted == IF supply = 0 THEN assets ELSE (assets * supply) \div totalAssets
  IN /\ supply = 0 \/ totalAssets > 0
     /\ minted > 0
     /\ deposit(VaultAccount, Cash, assets)
     /\ shares' = [acc.shares EXCEPT ![h] = @ + minted]
     /\ Recorded(acc)

\* Assets round down; nothing to pay out is a revert of Account.withdraw.
vaultWithdraw(h, burned) ==
  LET acc    == _accrueFee
      assets == (burned * totalAssets) \div Supply(acc.shares)
  IN /\ burned <= shares[h]
     /\ assets > 0
     /\ withdraw(VaultAccount, Cash, assets)
     /\ shares' = [acc.shares EXCEPT ![h] = @ - burned]
     /\ Recorded(acc)

setPerformanceFeeBps(bps) ==
  /\ Call
  /\ performanceFeeBps' = bps
  /\ UNCHANGED <<custody, frozen, position, oracle, roles, shares, highWaterMarkPerShare, peak>>

VaultInit ==
  /\ shares = [h \in Owners |-> 0]
  /\ highWaterMarkPerShare = SCALE
  /\ performanceFeeBps \in FeeBps
  /\ peak = [assets |-> 1, supply |-> 1]

VaultNext ==
  \/ \E h \in Holders, n \in Amounts : vaultDeposit(h, n)
  \/ \E h \in Owners, n \in ShareAmounts : vaultWithdraw(h, n)
  \/ \E bps \in FeeBps : setPerformanceFeeBps(bps)

\* The vault among everything else that happens to the accounts, its own included.
VaultSpec ==
  /\ Init /\ VaultInit
  /\ [][VaultNext \/ (Next /\ UNCHANGED vaultVars)]_<<vars, vaultVars>>
----------------------------------------------------------------------------
(* Properties *)

(* Whoever enters or leaves, those who stay keep their share of the        *)
(* assets: neither the shares of a deposit nor the assets of a withdrawal  *)
(* lower the NAV per share below what the fee accrual left.                *)
NavNeverDiluted ==
  (totalSupply > 0 /\ shares' # shares) =>
    totalAssets' * (totalSupply + FeeShares) >= totalAssets * totalSupply'

(* The next accrual, whenever it comes, charges a performance fee only on  *)
(* a NAV per share above every one seen by an earlier accrual, never on a  *)
(* recovery to an old high, whoever came and went in between and however   *)
(* the fee was changed.                                                    *)
FeeOnlyOnNewHighs ==
  FeeShares > 0 => Higher([assets |-> totalAssets, supply |-> totalSupply], peak)

(* The vault is fair to those who stay in it: deposits, withdrawals and    *)
(* PnL in any order neither dilute them nor make them pay for a gain twice.*)
VaultFair == [][NavNeverDiluted /\ FeeOnlyOnNewHighs]_<<vars, vaultVars>>
=============================================================================
