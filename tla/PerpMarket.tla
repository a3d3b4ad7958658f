----------------------------- MODULE PerpMarket -----------------------------
(***************************************************************************)
(* Funding of a PerpMarket.sol instance over the oracle hub: the index     *)
(* that accrues lazily at the clamped distance of mark and index price,    *)
(* and the entry index the lifecycle hooks of a trade, of a liquidation    *)
(* and of a sealed leg stamp.  INDEX_SCALE is 10000: rates are in bps.     *)
(***************************************************************************)
EXTENDS OracleHub

CONSTANTS
  PositionKeys,  \* trader and sealed portfolio keys
  INDEX_SCALE

ASSUME PerpMarketAssumption == INDEX_SCALE \in Nat \ {0}

FUNDING_MAX_RATE_BPS_PER_SEC == 30
MaxRate == (FUNDING_MAX_RATE_BPS_PER_SEC * INDEX_SCALE) \div BPS

VARIABLES
  fundingIndex,
  lastIndexUpdateBlock,
  entryFundingIndex,   \* of the positions that are open
  openedAt             \* history: the block of the index each entry was stamped with

fundingVars == <<fundingIndex, lastIndexUpdateBlock, entryFundingIndex, openedAt>>

\* Rounded toward zero on both sides of the index, then clamped.
Ratio ==
  LET apart == IF markPrice >= pythPrimary
               THEN ((markPrice - pythPrimary) * INDEX_SCALE) \div pythPrimary
               ELSE -(((pythPrimary - markPrice) * INDEX_SCALE) \div pythPrimary)
  IN Max({-MaxRate, Min({MaxRate, apart})})

\* Within one block no price is read; later, both must be there.
CanUpdate == block = lastIndexUpdateBlock \/ (markPrice # Unavailable /\ pythPrimary # Unavailable)
_computeCurrentFundingIndex ==
  IF block = lastIndexUpdateBlock THEN fundingIndex
  ELSE fundingIndex + Ratio * (block - lastIndexUpdateBlock)

_updateFundingIndexInternal ==
  /\ CanUpdate
  /\ fundingIndex' = _computeCurrentFundingIndex
  /\ lastIndexUpdateBlock' = block

updateFundingIndex ==
  /\ _updateFundingIndexInternal
  /\ UNCHANGED <<entryFundingIndex, openedAt, hubVars, twapVars>>

\* The other market whose id is named has its prices; the block is shared.
updateOtherIndex ==
  /\ lastIndexUpdateBlock' = block
  /\ UNCHANGED <<fundingIndex, entryFundingIndex, openedAt, hubVars, twapVars>>

Stamped(ps) ==
  /\ entryFundingIndex' = [p \in DOMAIN entryFundingIndex \cup ps |->
                             IF p \in ps THEN fundingIndex' ELSE entryFundingIndex[p]]
  /\ openedAt' = [p \in DOMAIN openedAt \cup ps |-> IF p \in ps THEN lastIndexUpdateBlock'
                                                      ELSE openedAt[p]]

\* A trade settles: beforeOpenPosition and afterOpenPosition of both sides, and the
\* report to the average.  A liquidation is the same trade: onLiquidation
\* deletes the trader's stamp, and the takeover stamps both sides again.
afterOpenPosition(long, short, x) ==
  /\ long # short /\ markPrice # Unavailable
  /\ _updateFundingIndexInternal
  /\ Stamped({long, short})
  /\ recordTrade(x)
  /\ UNCHANGED hubVars

\* A sealed leg, open or close, of the portfolio key.
onSealedOpen(key) ==
  /\ _updateFundingIndexInternal
  /\ Stamped({key})
  /\ UNCHANGED <<hubVars, twapVars>>

\* The hooks check no caller: anyone may stamp a position, without an update,
\* or clear its stamp.
StampedByAnyone(p) ==
  /\ UNCHANGED <<fundingIndex, lastIndexUpdateBlock, hubVars, twapVars>>
  /\ Stamped({p})

afterClosePosition(p) ==
  /\ entryFundingIndex' = [q \in DOMAIN entryFundingIndex \ {p} |-> entryFundingIndex[q]]
  /\ openedAt' = [q \in DOMAIN openedAt \ {p} |-> openedAt[q]]
  /\ UNCHANGED <<fundingIndex, lastIndexUpdateBlock, hubVars, twapVars>>

FundingInit ==
  /\ fundingIndex = 0
  /\ lastIndexUpdateBlock = block
  /\ entryFundingIndex = [p \in {} |-> 0]
  /\ openedAt = [p \in {} |-> 0]

FundingNext ==
  \/ updateFundingIndex
  \/ updateOtherIndex
  \/ \E p, q \in PositionKeys, x \in Trades : afterOpenPosition(p, q, x)
  \/ \E p \in PositionKeys : onSealedOpen(p) \/ StampedByAnyone(p) \/ afterClosePosition(p)
----------------------------------------------------------------------------
(* Properties *)

(* A position pays or earns at most the maximum rate for each block since  *)
(* the index it was stamped with, which is that of its own block when a    *)
(* trade opened it, and nothing for the blocks before: whoever updates the *)
(* index, however late and at whatever price, no block counts twice.       *)
FundingCapped ==
  CanUpdate =>
    \A p \in DOMAIN entryFundingIndex :
      LET due == _computeCurrentFundingIndex - entryFundingIndex[p]
          cap == MaxRate * (block - openedAt[p])
      IN -cap <= due /\ due <= cap
=============================================================================
