------------------------------- MODULE Keepers -------------------------------
(***************************************************************************)
(* The two readers of SealedPositionTouched events: the liquidation keeper *)
(* (bin/keeper_liquidator.rs), which scans a capped window of blocks each  *)
(* tick and then checks every portfolio it knows, and the matcher's index  *)
(* of open interest (poll_open_interest in api.rs, settle.rs).             *)
(*                                                                         *)
(* External: blocks with their events, an RPC node whose block number may  *)
(* lag, the matcher, which checks a portfolio again before it liquidates.  *)
(* A failed scan, check or poll changes nothing and is left out.           *)
(***************************************************************************)
EXTENDS Integers, Sequences, FiniteSets, FiniteSetsExt

CONSTANTS
  Portfolios,
  KnownMarkets, OtherMarkets,   \* configured in the keeper, and not
  OiMarket,                     \* the market whose open interest is indexed
  StartBlock,
  MAX_GET_LOGS_BLOCK_RANGE,     \* 10 in the code
  MaxBlocks                     \* bound

ASSUME KeepersAssumption == StartBlock \in Nat /\ MAX_GET_LOGS_BLOCK_RANGE \in Nat \ {0}

Touches == Portfolios \X (KnownMarkets \cup OtherMarkets)

VARIABLES
  blocks,        \* the events of each block, from block 0
  portfolios,    \* the pairs of portfolio and market the keeper knows
  last_scanned,
  round,         \* portfolios still to check this tick; Scanning before the scan
  underwater,    \* external
  oiKeys, oiNext \* oi_index: the keys found and the next block

keeperVars == <<blocks, portfolios, last_scanned, round, underwater, oiKeys, oiNext>>

Scanning == {"scan"}

KeeperInit ==
  /\ blocks = <<>>
  /\ portfolios = {} /\ last_scanned = StartBlock /\ round = Scanning
  /\ underwater = {}
  /\ oiKeys = {} /\ oiNext = 0

\* Block n is element n + 1 of blocks.
EventsIn(from, to) == UNION {blocks[n + 1] : n \in {k \in from..to : k < Len(blocks)}}
Latest == 0..Len(blocks) - 1

Mine(touched) ==
  /\ Len(blocks) < MaxBlocks
  /\ blocks' = Append(blocks, touched)
  /\ UNCHANGED <<portfolios, last_scanned, round, underwater, oiKeys, oiNext>>

ScanTo(from, latest) == Min({latest, from + MAX_GET_LOGS_BLOCK_RANGE - 1})

\* Mutant: the scan resumes after the newest block.
ResumeAtTip(from, latest) == latest + 1

ResumeAt(from, latest) == ScanTo(from, latest) + 1

\* A node behind the last scan changes nothing; then the portfolios are checked.
scan_new_events(latest) ==
  /\ round = Scanning
  /\ IF latest < last_scanned THEN UNCHANGED <<portfolios, last_scanned>>
     ELSE /\ portfolios' = portfolios \cup
               {t \in EventsIn(last_scanned, ScanTo(last_scanned, latest)) : t[2] \in KnownMarkets}
          /\ last_scanned' = ResumeAt(last_scanned, latest)
  /\ round' = {t[1] : t \in portfolios'}
  /\ UNCHANGED <<blocks, underwater, oiKeys, oiNext>>

\* The matcher says healthy, or liquidates what it finds underwater again.
check_and_liquidate(p) ==
  /\ p \in round
  /\ round' = round \ {p}
  /\ underwater' \in {underwater, underwater \ {p}}
  /\ UNCHANGED <<blocks, portfolios, last_scanned, oiKeys, oiNext>>

NextTick ==
  /\ round = {}
  /\ round' = Scanning
  /\ UNCHANGED <<blocks, portfolios, last_scanned, underwater, oiKeys, oiNext>>

Sinks(p) ==
  /\ p \notin underwater
  /\ underwater' = underwater \cup {p}
  /\ UNCHANGED <<blocks, portfolios, last_scanned, round, oiKeys, oiNext>>

\* latest + 1, also when the node is behind the last poll.
OiResume(latest) == latest + 1

\* index_open_interest of one market, and poll_open_interest around it.
poll_open_interest(latest) ==
  /\ oiKeys' = oiKeys \cup {t[1] : t \in {e \in EventsIn(oiNext, latest) : e[2] = OiMarket}}
  /\ oiNext' = OiResume(latest)
  /\ UNCHANGED <<blocks, portfolios, last_scanned, round, underwater>>

KeeperNext ==
  \/ \E touched \in SUBSET Touches : Cardinality(touched) <= 1 /\ Mine(touched)
  \/ \E latest \in Latest : scan_new_events(latest)
  \/ \E p \in Portfolios : check_and_liquidate(p) \/ Sinks(p)
  \/ NextTick
  \/ \E latest \in Latest : poll_open_interest(latest)

-----------------------------------------------------------------------------
(* Properties *)

\* The keeper knows exactly the portfolios touched, in the markets it is
\* configured for, from its first block up to where it will scan next: a window
\* that is capped, a node that lags and a chain that grows in between neither
\* lose an event nor skip a block.
KeeperKnowsAll ==
  portfolios = {t \in EventsIn(StartBlock, last_scanned - 1) : t[2] \in KnownMarkets}

\* The open interest index has every key touched in its market before the block
\* it reads next, and nothing else, although a lagging node moves that block back.
OiIndexExact ==
  LET Keys(to) == {t[1] : t \in {e \in EventsIn(0, to) : e[2] = OiMarket}} IN
  Keys(oiNext - 1) \subseteq oiKeys /\ oiKeys \subseteq Keys(Len(blocks))

\* No request spans more blocks than the provider allows, however far behind the
\* keeper is, and a scan never moves back.
ScanWithinCap == last_scanned' - last_scanned \in 0..MAX_GET_LOGS_BLOCK_RANGE
=============================================================================
