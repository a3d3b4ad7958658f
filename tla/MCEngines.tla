----------------------------- MODULE MCEngines ------------------------------
(***************************************************************************)
(* The price ladder, the standalone book, the two makers and the proofs    *)
(* for TLC, one at a time:                                                 *)
(*   "ladder"  the occupancy bitmap of one side of the matcher's book;     *)
(*   "clob"    the standalone book of the clob crate;                      *)
(*   "maker"   the backstop maker, beside the reference it was built after;*)
(*   "bot"     the market maker's requote loop against the matcher;        *)
(*   "proofs"  the match proofs of one sweep and the margin circuit.       *)
(***************************************************************************)
EXTENDS Ladder, ClobBook, ReferenceMaker, MakerBot, MatchProofs

VARIABLE scenario

ClobSizeSet == -1..2
HalfSpreadSets == <<{1000}, {1500}>>
MarginSizeSet == -2..2

allVars == <<ladderVars, clobVars, makerVars, botVars, proofVars, scenario>>

MCInit ==
  /\ LadderInit /\ ClobInit /\ MakerInit /\ BotInit /\ ProofInit
  /\ scenario \in {"ladder", "clob", "maker", "bot", "proofs"}

MCNext ==
  /\ \/ scenario = "ladder" /\ LadderNext /\ UNCHANGED <<clobVars, makerVars, botVars, proofVars>>
     \/ scenario = "clob" /\ ClobNext /\ UNCHANGED <<ladderVars, makerVars, botVars, proofVars>>
     \/ scenario = "maker" /\ MakerNext /\ UNCHANGED <<ladderVars, clobVars, botVars, proofVars>>
     \/ scenario = "bot" /\ BotNext /\ UNCHANGED <<ladderVars, clobVars, makerVars, proofVars>>
     \/ scenario = "proofs" /\ ProofNext /\ UNCHANGED <<ladderVars, clobVars, makerVars, botVars>>
  /\ UNCHANGED scenario

MCSpec == MCInit /\ [][MCNext]_allVars

-----------------------------------------------------------------------------
(* Properties, each of the states and steps of its own scenario *)

\* What the book reads off the two tiers is what rests: both tiers are exact and
\* a search over them finds the nearest worse level, after any order of inserts,
\* removals, growth and re-basing.
LadderExact ==
  scenario = "ladder" =>
    SummaryExact /\ BitmapExact /\ WorseLevelExact

(* Whatever orders, cancels, edits and clean-ups came before, a call       *)
(* serves by priority and leaves the book in order: index and queues agree,*)
(* each queue is by arrival, nothing but an edit lets the sides overlap.   *)
ClobInOrder ==
  [][ scenario = "clob" =>
        /\ ClobSweepByPriority
        /\ ClobIndexExact' /\ ClobQueueByArrival' /\ ClobCrossedOnlyByModify' ]_clobVars

(* The matcher's maker and the reference stay in step whatever prints and  *)
(* fills come between a fill and the record of its price: same decisions,  *)
(* quotes around recent prints only, ledgers that complete each other, and *)
(* a spread that follows the exposure.                                     *)
MakersAgree ==
  [][ scenario = "maker" =>
        /\ SpreadFollowsExposure
        /\ TypeOK' /\ ReferenceAgrees' /\ QuoteStraddlesRecentPrints' /\ LedgersAddUp' ]_makerVars

(* Whatever is filled, expires or is lost while the bot awaits its calls,  *)
(* it knows its orders, quotes around the mid, asks for every old order to *)
(* be cancelled, and cancels a fresh one only where slots were recycled.   *)
BotKeepsTrack ==
  [][ scenario = "bot" =>
        /\ FreshCancelledOnlyByRecycling
        /\ BotTracksItsOrders' /\ CycleRetiresAll' /\ QuotesAroundMid' ]_botVars

\* A proof exists exactly for what may be claimed: for each large fill of a
\* sweep, however it is cut into chunks, and for the margin that was computed,
\* with comparisons that decide as numbers do.
ProofsDecide ==
  scenario = "proofs" =>
    ProvedUnlessBackstopBeyondLimit /\ CircuitDecidesTheMatch /\ MarginClaimExact
=============================================================================
