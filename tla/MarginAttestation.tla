-------------------------- MODULE MarginAttestation --------------------------
(***************************************************************************)
(* attest_portfolio_margin (api.rs) for one portfolio.  A fill is folded   *)
(* into the cached position, sealed and broadcast; once the receipt is in, *)
(* a spawned task reads the positions market by market, cache first        *)
(* and then chain, then the live prices, and submits the requirement to    *)
(* RiskMonitor.sol, which keeps the last one it gets.  Folds, broadcasts   *)
(* and tasks run side by side.  riskPosition is what is sealed on chain.   *)
(*                                                                         *)
(* A settlement that touches the portfolio several times attests it again  *)
(* after each leg, one after the other; the last of these is the task.     *)
(***************************************************************************)
EXTENDS PortfolioMargin

CONSTANTS
  EntryPrice,   \* the price a market without a live one falls back to
  FillSizes,    \* sizes a fill leaves behind
  MaxFills      \* bound: folds

VARIABLES
  cached,     \* position_cache: market -> size; 0 when there is no entry
  sweeps,     \* the settlements under way
  folds,      \* their number so far
  attests,    \* the tasks: landing |-> [left, seen, requirement]
  fills,      \* broadcasts with a receipt, so far
  attested,   \* _portfolioAttestations[trader]; by and sizes are history
  attestLost, \* history: the newest landing's attestation failed or was overwritten
  unattested  \* history: markets moved since by what attests nothing

sweepVars == <<cached, sweeps, folds, unattested>>
taskVars == <<attests, fills, attested, attestLost>>
attestVars == <<sweepVars, taskVars>>

Nobody == [m \in RiskMarkets |-> 0]
Unread == -2

AttestInit ==
  /\ cached = Nobody /\ sweeps = {} /\ folds = 0
  /\ attests = [f \in {} |-> 0]
  /\ fills = 0
  /\ attested = [requirement |-> 0, by |-> 0, sizes |-> Nobody]
  /\ attestLost = FALSE /\ unattested = {}

\* "folded", "sealed", "mined" and waited for; "closing", a liquidation's;
\* "lost", given up by the matcher while it may yet be mined.
Sweep(id, m, size, stage) == [id |-> id, market |-> m, size |-> size, stage |-> stage]
Restaged(s, stage) == Sweep(s.id, s.market, s.size, stage)
Becomes(s, next) == sweeps' = (sweeps \ {s}) \cup next

\* The size by cache or chain.
Held(m) == IF cached[m] # 0 THEN cached[m] ELSE riskPosition[m]

\* load_and_fold: the cache holds the fill from here on; a flat position leaves it.
Fold(m, size) ==
  /\ folds < MaxFills /\ folds' = folds + 1
  /\ cached' = [cached EXCEPT ![m] = size]
  /\ sweeps' = sweeps \cup {Sweep(folds', m, 0, "folded")}
  /\ UNCHANGED <<riskVars, taskVars, unattested>>

\* A liquidation folds and seals in one, and attests nothing.
FoldLiquidation(m, size) ==
  /\ Held(m) # 0
  /\ folds < MaxFills /\ folds' = folds + 1
  /\ cached' = [cached EXCEPT ![m] = size]
  /\ sweeps' = sweeps \cup {Sweep(folds', m, size, "closing")}
  /\ unattested' = unattested \cup {m}
  /\ UNCHANGED <<riskVars, taskVars>>

\* cached_sealed_params, at the end of the sweep; no entry seals no position.
Seal(s) ==
  /\ s.stage = "folded"
  /\ Becomes(s, {Sweep(s.id, s.market, cached[s.market], "sealed")})
  /\ UNCHANGED <<riskVars, cached, folds, taskVars, unattested>>

\* The request time limit drops the handler before it has spawned the broadcast.
Drop(s) ==
  /\ s.stage = "folded"
  /\ Becomes(s, {})
  /\ unattested' = unattested \cup {s.market}
  /\ UNCHANGED <<riskVars, cached, folds, taskVars>>

\* BROADCAST_LOCK is held until the receipt is in, which a transaction that
\* reverted has as well: nobody reads its status.
MineSweep(s) ==
  /\ s.stage \in {"sealed", "closing", "lost"}
  /\ s.stage # "lost" => \A t \in sweeps : t.stage # "mined"
  /\ riskPosition' \in {riskPosition, [riskPosition EXCEPT ![s.market] = s.size]}
  /\ Becomes(s, IF s.stage = "sealed" THEN {Restaged(s, "mined")} ELSE {})
  /\ unattested' = IF s.stage = "sealed" THEN unattested ELSE unattested \cup {s.market}
  /\ UNCHANGED <<riskMark, riskCollateral, cached, folds, taskVars>>

\* The broadcast is through, and its task goes on to attest.
Landed(s) ==
  /\ s.stage = "mined"
  /\ Becomes(s, {}) /\ fills' = fills + 1
  /\ attests' = [f \in DOMAIN attests \cup {fills + 1} |->
                   IF f \in DOMAIN attests THEN attests[f]
                   ELSE [left |-> RiskMarkets, seen |-> Nobody, requirement |-> Unread]]
  /\ attestLost' = FALSE /\ unattested' = {}
  /\ UNCHANGED <<riskVars, cached, folds, attested>>

\* Refused, reverted or without a receipt: invalidate_position, and nothing is
\* attested.  What was sent may be on chain all the same, or get there later.
FailedBroadcast(s) ==
  /\ s.stage \in {"sealed", "mined", "closing"}
  /\ \/ Becomes(s, {})
     \/ s.stage # "mined" /\ Becomes(s, {Restaged(s, "lost")})
  /\ cached' = [cached EXCEPT ![s.market] = 0]
  /\ unattested' = unattested \cup {s.market}
  /\ UNCHANGED <<riskVars, folds, taskVars>>

\* Mutant: a market without a live price is left out.
LoadMarketPriced(m) == IF riskMark[m] = Missing THEN 0 ELSE Held(m)

\* load_single_market_state_cached; a flat position has no sealed parameters.
LoadMarket(m) == Held(m)

\* load_portfolio_state: a market whose read or unsealing fails counts as absent.
ReadMarket(f, m) ==
  /\ m \in attests[f].left
  /\ \/ /\ attests' = [attests EXCEPT ![f].left = @ \ {m}, ![f].seen[m] = LoadMarket(m)]
        /\ UNCHANGED attestLost
     \/ /\ cached[m] = 0
        /\ attests' = [attests EXCEPT ![f].left = @ \ {m}]
        /\ attestLost' = (attestLost \/ f = fills)
  /\ UNCHANGED <<riskVars, sweepVars, fills, attested>>

Ended(f) == attests' = [g \in DOMAIN attests \ {f} |-> attests[g]]

\* compute_margin of api.rs: the live price, or else the sealed entry price.
MarkOrEntry(m) == IF riskMark[m] = Missing THEN EntryPrice ELSE riskMark[m]

\* Nothing is attested for a portfolio that reads as empty.
Price(f) ==
  /\ attests[f].left = {} /\ attests[f].requirement = Unread
  /\ IF attests[f].seen = Nobody THEN Ended(f)
     ELSE attests' = [attests EXCEPT ![f].requirement =
            current_margin_requirement(attests[f].seen, [m \in RiskMarkets |-> MarkOrEntry(m)])]
  /\ UNCHANGED <<riskVars, sweepVars, fills, attested, attestLost>>

\* submit_portfolio_margin: the last transaction to land stands.
SubmitMargin(f) ==
  /\ attests[f].requirement # Unread
  /\ Ended(f)
  /\ \/ /\ attested' = [requirement |-> attests[f].requirement, by |-> f, sizes |-> attests[f].seen]
        /\ attestLost' = (attestLost \/ f < attested.by)
     \/ UNCHANGED attested /\ attestLost' = (attestLost \/ f = fills)
  /\ UNCHANGED <<riskVars, sweepVars, fills>>

\* The feed answers for all markets or for none.
live_mark_prices(p) ==
  MarksMove([m \in RiskMarkets |-> p]) /\ UNCHANGED attestVars

AttestNext ==
  \/ \E m \in RiskMarkets, n \in FillSizes : Fold(m, n) \/ FoldLiquidation(m, n)
  \/ \E s \in sweeps : Seal(s) \/ Drop(s) \/ MineSweep(s) \/ Landed(s) \/ FailedBroadcast(s)
  \/ \E f \in DOMAIN attests :
       \/ \E m \in RiskMarkets : ReadMarket(f, m)
       \/ Price(f)
       \/ SubmitMargin(f)
  \/ \E p \in {Min(RiskMarks), Missing} : live_mark_prices(p)

-----------------------------------------------------------------------------
(* Property *)

\* Some task is still to come for what was folded into m.
Awaited(m) == \E s \in sweeps : s.market = m /\ s.stage \in {"folded", "sealed", "mined"}

\* Once broadcasts are through and their tasks ended, the requirement that
\* RiskMonitor.sol holds was computed from the positions as the matcher has them,
\* by its cache or else the chain, although a task may read the markets on both
\* sides of another fold, of its landing and of its failure, and what it reads in
\* the cache may never land.  What is left out is
\* what the code leaves: a market moved since by a broadcast that failed or came
\* late, a dropped handler or a liquidation, none of which attests; a portfolio
\* that has become flat, or whose newest attestation failed or landed before an
\* older one.
AttestationCurrent ==
  fills > 0 /\ attests = [f \in {} |-> 0] /\ (\A m \in RiskMarkets : ~Awaited(m)) =>
    \/ \A m \in RiskMarkets \ unattested : attested.sizes[m] = Held(m)
    \/ \A m \in RiskMarkets \ unattested : Held(m) = 0
    \/ attestLost
=============================================================================
