----------------------------- MODULE OracleHub -----------------------------
(***************************************************************************)
(* OracleHub.sol for one market: the mark price from two feeds             *)
(* (PythConsumer.sol, ChainlinkConsumer.sol) and the trade average of      *)
(* ImpactTwap, the circuit breaker, and the discovery bounds that stand in *)
(* for the feeds while they are silent.  External: what the feeds publish. *)
(***************************************************************************)
EXTENDS ImpactTwap

CONSTANTS
  FeedPrices,            \* prices a feed publishes; 0 is an invalid answer
  MAX_STALENESS_SECONDS,
  DivergenceBps,         \* values of maxDivergenceBps
  Bounds                 \* what setDiscoveryBounds is called with

\* What a feed answers is cast to uint256, the bounds are uint256.
ASSUME OracleHubAssumption ==
  /\ FeedPrices \subseteq Nat /\ DivergenceBps \subseteq Nat
  /\ Bounds \subseteq [enabled : BOOLEAN, referencePrice : Nat, boundBps : Nat, resetsRemaining : Nat]

BPS == 10000
REANCHOR_THRESHOLD_BPS == 9000
Unavailable == -1        \* the call reverts

VARIABLES
  pyth, chainlink,       \* external: [price, at], and [price, at, complete]
  paused,
  maxDivergenceBps,
  discoveryBounds,       \* [enabled, referencePrice, boundBps, resetsRemaining]
  granted                \* history: what setDiscoveryBounds last stored

hubVars == <<pyth, chainlink, paused, maxDivergenceBps, discoveryBounds, granted>>
feeds == <<pyth, chainlink>>

Fresh(at) == at # 0 /\ at <= block /\ block - at <= MAX_STALENESS_SECONDS

\* Both consumers answer; else _fetchPrices reverts and _tryFetchPrices says no.
isPriceLive ==
  /\ Fresh(pyth.at) /\ pyth.price > 0
  /\ chainlink.price > 0 /\ chainlink.complete /\ Fresh(chainlink.at)

_divergenceBps(x, y) ==
  ((IF x > y THEN x - y ELSE y - x) * BPS) \div ((x + y) \div 2)
Diverged == _divergenceBps(pyth.price, chainlink.price) > maxDivergenceBps

Swapped(p, i, j) == IF p[i] > p[j] THEN [p EXCEPT ![i] = p[j], ![j] = p[i]] ELSE p
_medianOf3(x, y, z) == Swapped(Swapped(Swapped(<<x, y, z>>, 1, 2), 2, 3), 1, 2)[2]

\* No trade in the window: the primary price.
_tertiaryPrice == IF meanBlockVwap.count = 0 THEN pyth.price ELSE meanBlockVwap.mean
LivePrice == _medianOf3(pyth.price, chainlink.price, _tertiaryPrice)

markPrice ==
  IF paused THEN Unavailable
  ELSE IF ~isPriceLive
       THEN IF discoveryBounds.enabled THEN discoveryBounds.referencePrice ELSE Unavailable
       ELSE IF Diverged THEN Unavailable ELSE LivePrice

\* The index price of funding: no breaker and no median.
pythPrimary == IF isPriceLive THEN pyth.price ELSE Unavailable

setDiscoveryBounds(b) ==
  /\ b.enabled => b.referencePrice > 0 /\ b.boundBps \in 1..BPS
  /\ discoveryBounds' = b
  /\ granted' = b
  /\ UNCHANGED <<feeds, paused, maxDivergenceBps, twapVars>>

BoundAmount(ref, bps) == (ref * bps) \div BPS
Lo(ref, bps) == IF BoundAmount(ref, bps) < ref THEN ref - BoundAmount(ref, bps) ELSE 0
Hi(ref, bps) == ref + BoundAmount(ref, bps)

\* Near an edge the reference moves to it, while resets remain.  The breaker's
\* latch is not asked.
Reanchored(b) ==
  LET amount == BoundAmount(b.referencePrice, b.boundBps)
      margin == amount - (amount * REANCHOR_THRESHOLD_BPS) \div BPS
      To(ref) == [b EXCEPT !.referencePrice = ref, !.resetsRemaining = @ - 1]
  IN IF b.resetsRemaining = 0 THEN b
     ELSE IF LivePrice <= Lo(b.referencePrice, b.boundBps) + margin THEN To(Lo(b.referencePrice, b.boundBps))
     ELSE IF LivePrice >= Hi(b.referencePrice, b.boundBps) - margin THEN To(Hi(b.referencePrice, b.boundBps))
     ELSE b

refreshDiscoveryReference ==
  /\ discoveryBounds.enabled /\ isPriceLive /\ ~Diverged
  /\ discoveryBounds' = Reanchored(discoveryBounds)
  /\ UNCHANGED <<feeds, paused, maxDivergenceBps, granted, twapVars>>

tripIfDiverged ==
  /\ isPriceLive /\ Diverged
  /\ paused' = TRUE
  /\ UNCHANGED <<feeds, maxDivergenceBps, discoveryBounds, granted, twapVars>>

unpause ==
  /\ paused' = FALSE
  /\ UNCHANGED <<feeds, maxDivergenceBps, discoveryBounds, granted, twapVars>>

setMaxDivergenceBps(bps) ==
  /\ maxDivergenceBps' = bps
  /\ UNCHANGED <<feeds, paused, discoveryBounds, granted, twapVars>>

\* External: a feed publishes, with its own clock at most one second ahead.
PublishPyth(price, at) ==
  /\ at \in {block, block + 1}
  /\ pyth' = [price |-> price, at |-> at]
  /\ UNCHANGED <<chainlink, paused, maxDivergenceBps, discoveryBounds, granted, twapVars>>

PublishChainlink(price, complete) ==
  /\ chainlink' = [price |-> price, at |-> block, complete |-> complete]
  /\ UNCHANGED <<pyth, paused, maxDivergenceBps, discoveryBounds, granted, twapVars>>

HubInit ==
  /\ TwapInit
  /\ pyth = [price |-> 0, at |-> 0]
  /\ chainlink = [price |-> 0, at |-> 0, complete |-> FALSE]
  /\ paused = FALSE
  /\ maxDivergenceBps \in DivergenceBps
  /\ discoveryBounds = [enabled |-> FALSE, referencePrice |-> 0, boundBps |-> 0, resetsRemaining |-> 0]
  /\ granted = discoveryBounds

HubNext ==
  \/ \E b \in Bounds : setDiscoveryBounds(b)
  \/ refreshDiscoveryReference \/ tripIfDiverged \/ unpause
  \/ \E bps \in DivergenceBps : setMaxDivergenceBps(bps)
  \/ \E p \in FeedPrices, at \in 1..MaxBlock + 1 : PublishPyth(p, at)
  \/ \E p \in FeedPrices, complete \in BOOLEAN : PublishChainlink(p, complete)
----------------------------------------------------------------------------
(* Properties *)

(* Whatever was traded, a live mark lies between the two feeds, which are  *)
(* themselves no further apart than the breaker allows; and the median is  *)
(* the trade average whenever that lies between them.                      *)
MarkBetweenFeeds ==
  (isPriceLive /\ markPrice # Unavailable) =>
    LET low  == Min({pyth.price, chainlink.price})
        high == Max({pyth.price, chainlink.price})
    IN /\ markPrice \in low..high
       /\ _tertiaryPrice \in low..high => markPrice = _tertiaryPrice

\* The references within n moves to an edge.
Moved(refs, bps) == refs \cup {Lo(r, bps) : r \in refs} \cup {Hi(r, bps) : r \in refs}
WithinMoves(ref, bps, n) ==
  LET Reach[k \in 0..n] == IF k = 0 THEN {ref} ELSE Moved(Reach[k - 1], bps)
  IN Reach[n]

(* Anyone may call refreshDiscoveryReference as often as they like: the    *)
(* reference walks at most the number of resets granted with it, from edge *)
(* to edge, however the feeds move in between.                             *)
DiscoveryWalkCapped ==
  /\ discoveryBounds.resetsRemaining \in 0..granted.resetsRemaining
  /\ discoveryBounds.referencePrice \in
       WithinMoves(granted.referencePrice, granted.boundBps,
                   granted.resetsRemaining - discoveryBounds.resetsRemaining)

(* The prices the contracts go by cannot be pushed out of line: the trade  *)
(* average is the window's, the mark stays between live feeds, and the     *)
(* reference that stands in for silent feeds walks within its grant.       *)
PricesSound == TwapExact /\ MarkBetweenFeeds /\ DiscoveryWalkCapped
=============================================================================
