--------------------------- MODULE BackstopLedger ---------------------------
(***************************************************************************)
(* BackstopLedger.sol: the matcher attests the backstop maker's cumulative *)
(* PnL per market, anyone funds the reserve, and the administrator draws   *)
(* the loss from it.  The attester list is AttestationRouter's, in         *)
(* Clearing.                                                               *)
(***************************************************************************)
EXTENDS Clearing

CONSTANTS
  BackstopMarkets,
  Pnls,           \* values of cumulative PnL the matcher attests
  Draws           \* amounts funded and drawn

ASSUME BackstopLedgerAssumption == Pnls \subseteq Int /\ Draws \subseteq Nat \ {0}

VARIABLES
  cumulativePnl,  \* marketState[m].cumulativePnl
  reserve,
  attested, drawn \* history: the last attestation, and what was drawn since

ledgerVars == <<cumulativePnl, reserve, attested, drawn>>
kernelVars == <<custody, frozen, position, oracle, roles>>

submitState(m, pnl) ==
  /\ Call
  /\ authorized
  /\ cumulativePnl' = [cumulativePnl EXCEPT ![m] = pnl]
  /\ attested' = [attested EXCEPT ![m] = pnl]
  /\ drawn' = [drawn EXCEPT ![m] = 0]
  /\ UNCHANGED <<reserve, kernelVars>>

breakevenSubsidyNeeded(m) == Max({0, -cumulativePnl[m]})

fundReserve(amount) ==
  /\ Call
  /\ reserve' = reserve + amount
  /\ UNCHANGED <<cumulativePnl, attested, drawn, kernelVars>>

\* Mutant: the draw is not booked.
drawSubsidyUnbooked(m, amount) ==
  /\ Call
  /\ amount <= breakevenSubsidyNeeded(m)
  /\ amount <= reserve
  /\ reserve' = reserve - amount
  /\ drawn' = [drawn EXCEPT ![m] = @ + amount]
  /\ UNCHANGED <<cumulativePnl, attested, kernelVars>>

\* The draw is booked against the loss.
drawSubsidy(m, amount) ==
  /\ Call
  /\ amount <= breakevenSubsidyNeeded(m)
  /\ amount <= reserve
  /\ reserve' = reserve - amount
  /\ cumulativePnl' = [cumulativePnl EXCEPT ![m] = @ + amount]
  /\ drawn' = [drawn EXCEPT ![m] = @ + amount]
  /\ UNCHANGED <<attested, kernelVars>>

LedgerInit ==
  /\ cumulativePnl = [m \in BackstopMarkets |-> 0]
  /\ reserve = 0
  /\ attested = [m \in BackstopMarkets |-> 0]
  /\ drawn = [m \in BackstopMarkets |-> 0]

LedgerNext ==
  \/ \E m \in BackstopMarkets, pnl \in Pnls : submitState(m, pnl)
  \/ \E n \in Draws : fundReserve(n)
  \/ \E m \in BackstopMarkets, n \in Draws : drawSubsidy(m, n)

\* The ledger beside the kernel, which may revoke its attester at any time.
LedgerSpec ==
  /\ Init /\ LedgerInit
  /\ [][LedgerNext \/ (Next /\ UNCHANGED ledgerVars)]_<<vars, ledgerVars>>
----------------------------------------------------------------------------
(* Properties *)

(* However it is split into draws, no more than the attested loss of a     *)
(* market is paid out of the reserve before the next attestation, and the  *)
(* reserve all markets share is never overdrawn.                           *)
SubsidyWithinAttestation ==
  /\ \A m \in BackstopMarkets : drawn[m] <= Max({0, -attested[m]})
  /\ reserve >= 0
=============================================================================
