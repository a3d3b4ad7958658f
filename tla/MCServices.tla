----------------------------- MODULE MCServices -----------------------------
(***************************************************************************)
(* What runs beside matching and settlement, for TLC, one at a time:       *)
(*   "nonce"    the replay table and its snapshots;                        *)
(*   "risk"     the portfolio margin of one account;                       *)
(*   "attest"   its attestations, raced by fills;                          *)
(*   "tape"     the trade tape and its candles;                            *)
(*   "funding"  the native funding poll and the oracle client;             *)
(*   "keeper"   the liquidation keeper and the open interest index;        *)
(*   "pusher"   the price pusher around a weekend;                         *)
(*   "feed"     the order book stream.                                     *)
(***************************************************************************)
EXTENDS NonceGuard, MarginAttestation, TradeTape, NativeFunding, Keepers,
        PricePusher, BookFeed

CONSTANTS r1, r2, ActiveScenarios

VARIABLE scenario

ScenarioCorners == [RiskMarkets -> {-WideBps, WideBps}]
OwnGroups == [m \in RiskMarkets |-> m]
Spreads == (r1 :> 1 @@ r2 :> 5)
Correlations == [p \in {<<r1, r2>>} |-> 80]
SizeSet == {-37, -8, 0, 13, 40}
FillSizeSet == {0, 13}
FillSet == {[price |-> 10, qty |-> 1], [price |-> 20, qty |-> 3]}

allVars == <<vars, riskVars, attestVars, tapeVars, nativeVars, keeperVars, pushVars, feedVars,
             scenario>>

MCInit ==
  /\ Init /\ RiskInit /\ AttestInit /\ TapeInit /\ NativeInit /\ KeeperInit /\ PushInit /\ FeedInit
  /\ scenario \in ActiveScenarios

\* A step of one service, of which these variables are the others'.
Only(name, others) ==
  /\ scenario = name /\ UNCHANGED <<others, scenario>>

MCNext ==
  \/ /\ Only("nonce", <<riskVars, attestVars, tapeVars, nativeVars, keeperVars, pushVars, feedVars>>)
     /\ Next
  \/ /\ Only("risk", <<vars, attestVars, tapeVars, nativeVars, keeperVars, pushVars, feedVars>>)
     /\ RiskNext
  \/ /\ Only("attest", <<vars, tapeVars, nativeVars, keeperVars, pushVars, feedVars>>)
     /\ AttestNext
  \/ /\ Only("tape", <<vars, riskVars, attestVars, nativeVars, keeperVars, pushVars, feedVars>>)
     /\ TapeNext
  \/ /\ Only("funding", <<vars, riskVars, attestVars, tapeVars, keeperVars, pushVars, feedVars>>)
     /\ NativeNext
  \/ /\ Only("keeper", <<vars, riskVars, attestVars, tapeVars, nativeVars, pushVars, feedVars>>)
     /\ KeeperNext
  \/ /\ Only("pusher", <<vars, riskVars, attestVars, tapeVars, nativeVars, keeperVars, feedVars>>)
     /\ PushNext
  \/ /\ Only("feed", <<vars, riskVars, attestVars, tapeVars, nativeVars, keeperVars, pushVars>>)
     /\ FeedNext

MCSpec == MCInit /\ [][MCNext]_allVars

-----------------------------------------------------------------------------
(* Properties, each of the states and steps of its own scenario *)

\* The margin covers what it is taken for, the loss of every move of the marks
\* inside the box and what is left after a withdrawal; it fails only where the
\* isolated one does, and does not depend on the direction of the book.
MarginCovers ==
  [][ scenario = "risk" =>
        /\ CornersCoverTheBox /\ WithdrawStaysHealthy
        /\ MarginErrorsAgree /\ ShortBookChargedAlike ]_riskVars

\* The tape and what clients compute from it agree with the prints recorded,
\* although handlers record in another order than they read the clock.
TapeSound ==
  scenario = "tape" =>
    TapeKeepsYoung /\ CandlesAddUp /\ BarsRepeatOnlyByInversion /\ SnapshotHoldsLast

\* Funding follows recent readings only and is charged within its clamp, through
\* retries, failed fetches, an empty book and late polls.
NativeFundingSound ==
  scenario = "funding" =>
    RateIsRecentMean /\ FundingOwedCapped

\* Neither reader of the events misses one, the keeper's capped scan and the
\* index of open interest, both behind nodes that lag.
ScannersMissNothing ==
  [][ scenario = "keeper" => ScanWithinCap /\ KeeperKnowsAll' /\ OiIndexExact' ]_keeperVars

\* References are anchored in open hours only, by a calendar that is right.
AnchoredInOpenHours ==
  scenario = "pusher" =>
    CalendarExact /\ AnchoredByOpenPush

\* What a subscriber ends up with is the book as it was last broadcast, bucket by
\* bucket.
FeedShowsTheBook ==
  scenario = "feed" =>
    ShownUnlessOvertaken /\ GroupedDepthExact
=============================================================================
