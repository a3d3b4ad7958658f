---------------------------- MODULE FxPerpMarket ----------------------------
(***************************************************************************)
(* Funding of an FxPerpMarket.sol instance: the index accrues at the       *)
(* annual rate differential a keeper pushes.  The block is the time.       *)
(***************************************************************************)
EXTENDS OracleHub

CONSTANTS
  FxPositions,
  Rates,             \* differentials the keeper pushes, in bps
  SECONDS_PER_YEAR,
  FX_SCALE

ASSUME FxPerpMarketAssumption == SECONDS_PER_YEAR \in Nat \ {0} /\ FX_SCALE \in Nat

MAX_RATE_DIFFERENTIAL_BPS == 2000

VARIABLES
  rateDifferentialBps,
  fxIndex,                   \* fundingIndex[marketId]
  lastIndexUpdateTimestamp,
  fxEntry,                   \* entryFundingIndex of the open positions
  accrued,                   \* history: the rate in force, summed second by second
  swallowed,                 \* history: the part of it a call for another id passed over
  accruedAt                  \* history: accrued - swallowed at the index each entry was stamped with

fxVars == <<rateDifferentialBps, fxIndex, lastIndexUpdateTimestamp, fxEntry,
            accrued, swallowed, accruedAt>>

\* Solidity divides toward zero.
Quot(x, y) == IF x >= 0 THEN x \div y ELSE -((-x) \div y)
perSecondRate ==
  Quot(Quot(rateDifferentialBps * FX_SCALE, BPS), SECONDS_PER_YEAR)

fxPending == perSecondRate * (block - lastIndexUpdateTimestamp)
fxCurrentFundingIndex == fxIndex + fxPending

fxUpdateFundingIndexInternal ==
  /\ fxIndex' = fxCurrentFundingIndex
  /\ lastIndexUpdateTimestamp' = block

\* Mutant: the new rate reaches back to the last checkpoint.
setRateDifferentialUnstamped(bps) ==
  /\ bps \in -MAX_RATE_DIFFERENTIAL_BPS..MAX_RATE_DIFFERENTIAL_BPS
  /\ rateDifferentialBps' = bps
  /\ UNCHANGED <<fxIndex, lastIndexUpdateTimestamp, fxEntry, accrued, swallowed, accruedAt>>

\* The index is brought up to date at the old rate first.
setRateDifferential(bps) ==
  /\ bps \in -MAX_RATE_DIFFERENTIAL_BPS..MAX_RATE_DIFFERENTIAL_BPS
  /\ fxUpdateFundingIndexInternal
  /\ rateDifferentialBps' = bps
  /\ UNCHANGED <<fxEntry, accrued, swallowed, accruedAt>>

fxUpdateFundingIndex ==
  /\ fxUpdateFundingIndexInternal
  /\ UNCHANGED <<rateDifferentialBps, fxEntry, accrued, swallowed, accruedAt>>

\* Anyone may name another id, here or in a hook: its own entry of
\* fundingIndex takes the seconds, for the one timestamp advances.
fxUpdateOtherIndex ==
  /\ lastIndexUpdateTimestamp' = block
  /\ swallowed' = swallowed + fxPending
  /\ UNCHANGED <<rateDifferentialBps, fxIndex, fxEntry, accrued, accruedAt>>

\* The sum is what the stored index stands for.
FxStamped(ps, sum) ==
  /\ fxEntry' = [p \in DOMAIN fxEntry \cup ps |-> IF p \in ps THEN fxIndex' ELSE fxEntry[p]]
  /\ accruedAt' = [p \in DOMAIN accruedAt \cup ps |-> IF p \in ps THEN sum ELSE accruedAt[p]]

\* afterOpenPosition or onSealedOpen, each after an update.
fxOpen(ps) ==
  /\ fxUpdateFundingIndexInternal
  /\ FxStamped(ps, accrued - swallowed)
  /\ UNCHANGED <<rateDifferentialBps, accrued, swallowed>>

\* The hooks check no caller: anyone may stamp a position, without an update,
\* or clear its stamp.
fxStampedByAnyone(p) ==
  /\ UNCHANGED <<rateDifferentialBps, fxIndex, lastIndexUpdateTimestamp, accrued, swallowed>>
  /\ FxStamped({p}, accrued - swallowed - fxPending)

fxAfterClosePosition(p) ==
  /\ fxEntry' = [q \in DOMAIN fxEntry \ {p} |-> fxEntry[q]]
  /\ accruedAt' = [q \in DOMAIN accruedAt \ {p} |-> accruedAt[q]]
  /\ UNCHANGED <<rateDifferentialBps, fxIndex, lastIndexUpdateTimestamp, accrued, swallowed>>

\* A second passes at the rate in force.
FxElapse ==
  /\ accrued' = accrued + perSecondRate
  /\ UNCHANGED <<rateDifferentialBps, fxIndex, lastIndexUpdateTimestamp, fxEntry,
                 swallowed, accruedAt>>

FxInit ==
  /\ rateDifferentialBps = 0
  /\ fxIndex = 0
  /\ lastIndexUpdateTimestamp = block
  /\ fxEntry = [p \in {} |-> 0]
  /\ accrued = 0
  /\ swallowed = 0
  /\ accruedAt = [p \in {} |-> 0]

FxNext ==
  \/ \E bps \in Rates : setRateDifferential(bps)
  \/ fxUpdateFundingIndex
  \/ fxUpdateOtherIndex
  \/ \E p, q \in FxPositions : fxOpen({p, q})
  \/ \E p \in FxPositions : fxStampedByAnyone(p) \/ fxAfterClosePosition(p)
----------------------------------------------------------------------------
(* Properties *)

(* Every position is charged the rate that was in force in each second     *)
(* since the index it was stamped with, which is that of its own second    *)
(* when a trade opened it (a pushed rate applies from then on and never    *)
(* back, however rarely the lazy index is brought up to date), and loses   *)
(* to a call that named another id the seconds since the last update and   *)
(* no others.                                                              *)
FxFundingExact ==
  \A p \in DOMAIN fxEntry :
    fxCurrentFundingIndex - fxEntry[p] = accrued - swallowed - accruedAt[p]
=============================================================================
