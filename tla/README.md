# Verification of cerdic

TLA+ models of cerdic, a perpetuals exchange whose orders are matched inside a
trusted execution environment and settled on chain. The models are translated
from the Rust and Solidity sources; `PROJECT.json` maps every definition to the
lines it stands for. TLC checks small instances; TLAPS proves most of the
invariants, and five of the action properties, for every value of the constants.

Paths below are relative to `src/`; `matcher/` is short for
`crates/cerdic-tee-matcher/src/`, `clearing/`, `execution/`, `markets/`,
`oracle/` and `lib/` are directories of `packages/contracts/src/`.

## 1. The system

A client encrypts a signed order to the enclave's key and posts it. The matcher
authenticates it, checks the nonce and the collateral, matches it against the
order book and, where demand would go unserved, against a backstop maker of its
own. It folds the fills into the traders' sealed positions, answers, and settles
in the background with a transaction to `SettlementEngine`. Realized PnL goes to
the collateral `Account` in batches. Keepers poll the matcher for liquidations
and push prices. The nonce table and a few statistics are persisted; positions
are not: the chain has them.

### Components

| component | state it keeps | operations | correct when |
|---|---|---|---|
| order book (`matcher/book.rs`) | an arena of orders with a free list, one linked FIFO per price and side, an occupancy bitmap, cached best prices | submit (GTC, GTT, IOC, FOK, post-only), cancel, queries | it behaves as a price-time priority book; no stored link or price goes stale; submit comes back |
| backstop maker (`matcher/backstop.rs`, `crates/risk/src/backstop_maker.rs`) | recent prints, inventory, PnL | quote, last look, cap, commit, record a print | quotes follow recent prints; each print is marked once; matcher and reference agree |
| order gateway (`matcher/api.rs`: post_order, post_offer, post_cancel) | books, backstops, nonces, each behind its own mutex | the HTTP handlers, concurrently; the time limit; the oracle poll | no order trades more than its quantity; quantities balance; every request is answered; post_cancel keeps to its signer's orders |
| replay protection (`matcher/persistence.rs`, `main.rs`) | the nonce table in memory and on disk, pending snapshots | check and raise, periodic save, last flush, load | a nonce passes once; a save never undoes a newer one |
| sealed positions, settlement, liquidation, PnL bridge (`matcher/api.rs`, `settle.rs`, `sealed.rs`, `main.rs`, `clearing/SettlementEngine.sol`) | position cache, per-position locks, broadcast lock, queue of PnL, sealed positions on chain | load_and_fold, the spawned sweep, invalidate_position, compute_margin, size_liquidation_legs, post_liquidate, the flush loop | the cache is the chain plus what is in flight; the chain ends with the newest fold; PnL arrives once; no circle of locks |
| collateral kernel (`clearing/`: Account, CollateralEngine, RiskMonitor, LiquidationEntry, PositionEngine, CapabilityRegistry, AttestationRouter) | balances, freezes, positions, flags, attested margins, capabilities | deposit, withdraw, flag, liquidate, trade, grant, revoke, breach | custody covers the balances; a withdrawal leaves the margin; healthy accounts are left alone |
| vault (`clearing/Vault.sol`) | shares, high-water mark | deposit, redeem, fee | nobody is diluted; fees on new highs only |
| backstop ledger (`clearing/BackstopLedger.sol`) | attested PnL, reserve | submit, fund, draw | a draw stays within the attested loss |
| oracles (`oracle/`, `lib/RingBuffer.sol`) | feeds, ring of observations, discovery bounds | read, record a trade, refresh | the mark is between live feeds; the average is the window's; the reference walks within its bound |
| markets (`markets/`) | funding indices and entry stamps | accrue, stamp | accrual is capped, and exact while rates change |
| on-chain book (`execution/OrderBook.sol`) | orders, bonds, signatures used | place, modify, cancel, recycle | bonds are covered; a signature works once |
| portfolio margin (`crates/risk/src/lib.rs`, attestation in `matcher/api.rs`) | positions, marks, attested requirement | isolated and portfolio requirement, attest after a fill | scenarios cover the box; what is attested is the matcher's view when nothing is in flight |
| native funding, oracle client, market hours (`matcher/api.rs`, `oracle.rs`, `market_hours.rs`) | premium window, index, retries | poll, fetch with fallback, calendar | the rate is the recent mean; the charge is capped |
| trade tape and book stream (`matcher/market_data.rs`, `api.rs`) | a window of trades; snapshots in a bounded channel | record, prune, candles, seed; publish, subscribe, forward | candles add up; a subscriber ends on the current book |
| keepers and bots (`matcher/bin/`) | cursor and known portfolios; own quotes | scan, check, liquidate; push, refresh; requote | nobody is missed; the reference is anchored in open hours; own orders are known |
| standalone book (`crates/clob`) | queues and an id index | process, cancel, modify, clean up | index and queues agree; sweeps go by priority |
| match proofs (`matcher/proof.rs`, `crates/zk-circuits`) | witnesses, chunks, constraints | collect, chunk, prove | every large fill is proved; a circuit accepts exactly what it should |
| keys, attestation, decryption; development tools; front ends; prototypes; infrastructure | - | - | not modelled, section 7 |

### How they interact

The handlers of the gateway run as concurrent tasks. They share `last_nonce`,
`books`, `backstop`, `market_data` and `position_cache`, each behind a separate
mutex that is released between uses, and per-position async locks held over a
chain read. A handler awaits twice: in the collateral check, before it touches
the book, and in the folds, after its fills are in the book. A time limit of 10
seconds (`main.rs:73`) drops it at either await. Settlements are spawned and
race for one broadcast lock with liquidations and the PnL flush. A task whose
broadcast got a receipt goes on to attest the margins of those it touched.
`oracle_poll_loop`, `funding_poll_loop`, `persist_loop` and
`realized_pnl_flush_loop` run beside the requests. On chain a transaction is atomic, and concurrency is the order of the
callers' transactions and the movement of prices and time between them.

### What is hard about it

Decisions taken under one mutex are carried out under another (the rescue of a
resting remainder); order ids are slots that are recycled at once; expired
orders stay in the book until something meets them; cached best prices, cached
positions, read clocks and saved nonces can go stale; requests are dropped in
the middle; settlements fail, lose their receipt, or land in another order than
their folds; saves, shutdowns and crashes overlap; keepers read nodes that lag
and channels that overflow; fixed-point arithmetic rounds at every boundary.
`PROJECT.json` lists each of these as a hazard at its line, with the properties
that would notice.

## 2. Modules

| module | models | kind |
|---|---|---|
| `Ladder` | `book.rs` `Occupancy` and `Ladder`: the two-tier bitmap, growth at both ends, re-basing, the next-worse search | state machine, checked against a plain set of ticks |
| `MatchingBook` | `book.rs` `OrderBook`: arena, free list, links, levels, cached prices; submit one loop iteration per step; cancel | state machine |
| `MatchingBookProofs` | | theorems about `MatchingBook` and `MCBook` |
| `PriceTime`, `PriceTimeBook` | the result of a submit in closed form; what the order book promises: one queue per side, a submit takes effect in one step | operators, abstract specification |
| `MCBook` | | refinement mapping, symmetry |
| `Backstop`, `BackstopMaker` | `backstop.rs`: trailing mean, spread, quote, last look, cap, commit, print; one maker over time | operators, state machine |
| `ReferenceMaker` | `risk/src/backstop_maker.rs`, stepped beside `BackstopMaker` | state machine |
| `OrderGateway`, `MCGateway` | `post_order`, `post_offer`, `post_cancel`, the time limit and the oracle poll over one market | composition of `PriceTime` and `Backstop` |
| `NonceGuard` | the nonce table through periodic saves, clean shutdowns and crashes | state machine |
| `SealedLedger` | `PositionFold`, `compute_margin`, `size_liquidation_legs`, the fee tiers, what a settlement does in `SettlementEngine.sol` | operators |
| `SealedSettlement`, `MCSettlement` | the handlers of fills and liquidations, the spawned sweep, the PnL flush, the locks, the chain and its faults | composition over `SealedLedger` |
| `Clearing` | `Account`, `CollateralEngine`, `RiskMonitor`, `LiquidationEntry`, `PositionEngine` with `settleTrade`, `AttestationRouter`, `CapabilityRegistry` | state machine, one action per external call |
| `Vault`, `BackstopLedger` | the contracts of that name | extend `Clearing` |
| `ImpactTwap`, `OracleHub` | `MarketImpactTwap` over `RingBuffer`; `OracleHub` over both consumers | state machines |
| `PerpMarket`, `FxPerpMarket`, `OrderEscrow` | the two markets' funding; `OrderBook.sol` | extend `OracleHub` and `ImpactTwap` |
| `MCContracts` | | scenarios over the contract modules |
| `ClobBook` | `crates/clob` | state machine |
| `MakerBot` | the requote loop of `bin/market_maker.rs` against slots that are recycled | state machine |
| `MatchProofs` | `proof.rs`: witnesses and chunks; both circuits over a small prime field | state machine, operators |
| `MCEngines` | | scenarios over `Ladder`, `ClobBook`, `ReferenceMaker`, `MakerBot`, `MatchProofs` |
| `PortfolioMargin`, `MarginAttestation` | `crates/risk/src/lib.rs`; `attest_portfolio_margin` raced by fills | state machines |
| `TradeTape`, `BookFeed` | `market_data.rs` and its writers; the `/ws/orderbook` stream | state machines |
| `NativeFunding` | `poll_funding_native` over the retries of `oracle.rs` | state machine |
| `Keepers`, `PricePusher` | `keeper_liquidator.rs` and the open-interest index; `keeper_price_pusher.rs` over `market_hours.rs` | state machines |
| `MCServices` | | scenarios over the services and `NonceGuard` |
| `FiniteSums` | | lemmas the proofs share: least and greatest elements, induction, sums over finite sets, quotients, products |
| `GatewayProofs`, `SettlementProofs`, `ClearingProofs`, `MarketProofs`, `EngineProofs`, `ServiceProofs` | | theorems about `OrderGateway`; `SealedSettlement`; `Clearing`, `Vault` and `BackstopLedger`; the other contracts; the ladder, the makers, the bot and the match proofs; the services |

The definitions called faulty variants (`alloc_oldest`, `SplicedForward`,
`RevivedNot`, ...) stand before the definition they vary. No action uses them.
Each is a slip the code could contain; put in place of its original it makes a
property fail, which shows that the property depends on that code.

### State and actions against the code

*Order book.* `node` is the arena's live part, `top` its length, `free` the
stack, `level[side][tick]` head, tail and total, `occupied` the occupancy bits,
`best` the two cached prices. `req` is the call in progress. The loops of
`submit` are steps: `PruneExpiredHead` and `PostOnlyGuard` (lines 809-834),
`FillOrKillGuard` (836-839), `DropHead`, `FillHead` and `PartFillHead` (841-909),
`Rest` and `Finish` (911-921). No other call starts before `Return`, which is
what the books mutex gives. `available_to_match` walks the links as the code
does; its early return once enough is found is left out, because only the
comparison with the quantity is used. The ladder's index arithmetic is in
`Ladder`, with words of `Width` bits instead of 64.

*Gateway.* One handler per request, its program counter in `pc`:

    new -> collateral -> books -> backstop ---------> record -> fold -> done
                            \-> rescue -> cancel --/

A step is what the code does under one mutex, or up to one await. A submit is
one step with the result of `PriceTime!Submitted`, which `MCBook` shows to be
that of the code. `RescueQuote` commits the backstop under its mutex,
`RescueCancel` takes the books mutex again. `Timeout` is possible at the two
awaits only. `got` (quantity traded) and `cancels` (who cancelled whose order)
are history variables; an entry of the book also carries its request.

*Settlement.* `SealedSettlement` starts where the gateway's `fold` step is: a
handler locks a position, reads the cache or the chain, folds, writes the cache
and unlocks, key by key; the sweep it spawns waits for the broadcast lock, sends
one transaction, waits for the receipt, and on an error evicts the positions
from the cache. A liquidation takes the locks of a portfolio in sorted order,
sizes its legs from the cached positions, writes the cache, and sends one
transaction per leg. The chain mines what was sent in nonce order. `landed`,
`owed` and the sets of touched keys are history variables that the properties
need.

*Contracts.* One external call is one action, its `require`s the guard; a call
that reverts is no step. Where a comment in the contract bounds a caller by role,
the model lets the role holder call at any time.

*Services.* Awaits and unlocks are step boundaries: the tape's handlers read the
clock, match and record; the feed's look up the channel, build a snapshot and
send; the pusher reads the calendar before it fetches, and what it sent without a receipt
lands later or not at all; the attestation task reads market by market, cache first,
then the prices, then submits, while `sweeps` (folded, sealed, mined, or given up as
lost) go their way. `attestLost` and `unattested` are the history of the exceptions
that `AttestationCurrent` names, `said` and `shownAt` of those of the feed.

*Nonces.* `snap` is what `persist_loop` has cloned and not yet written, `final`
the same for the shutdown; a save may fail, and then is only logged.

*Backstop.* `cash` is a history variable, the proceeds of the fills; `pnlLedger` is
the reference's own ledger, stepped beside the matcher's.

### Abstractions

- One market in the gateway: the maps by market id share only the nonce table.
- An order takes any dead slot in the gateway, the bot and `PriceTimeBook`; the
  code takes the last one freed, which is among them.
- GoodTilTime takes the branches of GoodTilCancel in the gateway; expiry is
  checked in the book.
- `check_deposited_collateral` answers either way in the gateway; it is computed
  in `SealedSettlement`, where in turn the fills are chosen, not matched.
- Payloads are authenticated when they reach a handler; sealed parameters are
  the clear ones; a commitment is what it commits to.
- Scales are small: SCALE, BPS, seconds per year and word widths are constants,
  so that roundings and truncations happen within the bounds. Where the code
  rounds, the model rounds the same way. f64 averages of the native funding are
  exact integers in units of which every window length is a divisor; the index is
  rounded where the code rounds it, at each read, in units of INDEX_UNIT.
- Who else may call Pyth's contract or `refreshDiscoveryReference` is left out of
  `PricePusher`: the property is about what the keeper's calls do. `OracleHub` lets
  anyone call the hub.
- One attestation per broadcast stands for those of its legs, which the code makes
  one after the other; the index of a portfolio's markets is complete. After a crash
  it is that of the last save.
- A batch of realized PnL names each account once and only the settlement asset; one
  that repeats an account is several batches.
- The clock that callers pass to the book is arbitrary and need not advance.
- Quantities, inventory and PnL are unbounded integers. The cast of a u64
  quantity to i64 in `commit_fill` is listed as a hazard without a property.
- A save is all or nothing, as the database's transaction gives. An unreadable
  database is not modelled; the code then starts with an empty table.

## 3. Runs

All passing runs reach their fixed point; the bounds are in the `.cfg` files.
Many components are independent of each other, so four MC modules hold several
*scenarios*: the initial state picks one, and only its actions are taken. The
union of the scenarios is explored, not their product, which keeps the bounds of
each one large enough.

| run | shows | bounds and why they are enough |
|---|---|---|
| `book` | refinement of `PriceTimeBook`; links, free list, best prices; every live order is reachable once and counted in its level; never crossed | 2 owners, 2 ticks, quantity up to 2, 3 slots: partial fills, self-trade, head, middle and tail removal, slot reuse |
| `book_expiry` | the same refinement with expiring orders; submit comes back | 2 slots, times 0 and 1, expiry 1: an expired order before and behind a live one, and clocks that go back |
| `gateway` | the outcome is the promised one: Fill-or-Kill over book and backstop together, no payload twice, rejected means unfilled but for observation 18, book fills within the limit | 2 requests of any kind, post-only and not, 2 signers, 2 ticks, quantities 1 and 2, cap 1 (the cap binds), a backstop with one print; the poll and a backstop without prints are in `gateway_live` |
| `gateway_races` | quantities balance; an order is known to its owner and only its owner's post_cancel reaches it; only the rescue overfills | 3 GTC orders and cancels at one price around the rescue: the race needs the rescued order, its taker, and the next owner of the slot |
| `gateway_live` | every request is answered | 2 requests of any kind, the tick bound included, chain silent for ever |
| `settlement` | cache is chain plus what is in flight; the chain ends with the newest fold and no negative collateral; PnL once; no circle of locks | 2 traders, 2 markets, one fault out of refused send, lost receipt, failed read, time limit, crash; scenarios "orders" (two orders on one position, flat or open), "thin" (an order beside a liquidation over two markets), "two" (two liquidations with crossing locks) |
| `contracts` | custody, withdrawals, liquidations, vault, subsidies, prices, funding, bonds | scenarios "trading" (5 calls on open positions; batches of one gain, of one loss and of two deltas), "roles" (3 calls of any kind), "vault" (5), "ledger", "twap" (5 blocks over a window of 3, so the ring wraps), "oracle" and "funding" (feeds that move, fall silent and disagree; calls for another id in all that accrue), "fx" (rates of both signs, with rounding), "escrow" (3 orders, expiries beyond their stored width) |
| `engines` | ladder, standalone book, both makers, requote loop, proofs and circuits | "ladder": ticks 0..8 in 2-bit words, so shifts cross words and summary words; "clob": 3 ids, 3 prices, sizes -1..2 (the refused ones too), 2 expiries; "maker": 5 prints and fills, history 4, windows 3 and 2; "bot": 2 levels, 3 slots, so slots run out and are recycled; "proofs": up to 4 fills in chunks of 2, both circuits over the field of 37 elements |
| `services` | nonces, margin, attestation, tape, funding, keepers, pusher, feed | "nonce": 2 signers, 3 nonces, 3 saves, a shutdown and 2 crashes; "risk": 2 markets, sizes and marks that make every rounding happen; "attest": 3 folds, to a position and to flat, in 2 markets, so one lands, fails or comes late while another is attested; "tape": 2 handlers, 3 prints, a window of 3; "funding": 3 polls, 2 attempts; "keeper": 4 blocks, a window of 2; "pusher": times on both sides of the Friday and Sunday boundaries, in units of 3 hours, which the hub's 60 seconds are rounded up to; one FX market; `MaxAfloat` transactions without a receipt; "feed": 2 handlers, 3 changes, a rejected offer among them, a channel of 2 |
| `settlement_stale`, `gateway_overfill`, `tape_order` | violations, section 4 | the smallest instance that shows each |

Most run properties are conjunctions of named parts, each with its own comment;
an action property may also require an invariant of the next state. The parts are
in the component's module; `MCEngines` and `MCServices` put them together, each for
the scenario it is about.

`CHECK_DEADLOCK FALSE` stands where the bound on requests, calls, blocks or saves
ends a behaviour. The book runs have it on: a book can always accept a call.
`NoWaitCycle` looks for deadlocks of the matcher's locks itself.

*Fairness.* `book_expiry` assumes weak fairness of the steps of a call that
already holds the mutex: nothing it needs can be taken from it.
`gateway_live` assumes that a handler that waits for nothing runs on (the
runtime's scheduling; the mutexes are held over no await) and that the time
limit fires. The chain gets no fairness: neither the collateral check nor the
folds need ever be answered.

`ImplementsPriceTimeBook` uses the history variable `snap`, the queues found when
the call began: the abstract submit takes effect when the loop ends.

*What the exceptions in the properties are.* `MirrorExact` and `ChainCatchesUp`
leave out keys in `suspect` and `overtaken`: a key becomes one when a named event
happens to it (a chain read while a leg is in flight, a reopening over collateral
that a flat close left behind, a failed read, a leg lost after another fold built
on it; a settlement mined after a newer one). The events are what section 4 lists;
the properties show that nothing else breaks the mirror. In the same way
`TapeSound`, `FeedShowsTheBook` and `AttestationCurrent` except what their comments
name: prints out of order; a snapshot overtaken, and a pruning nobody is told of; an
attestation overtaken, and a market that was moved by what attests nothing.

## 4. Findings

Each is a disagreement between the code and what the repository says of it.

1. `gateway_overfill`: the rescue commits the backstop to a remainder that still
   rests, releases the mutex, and ignores what the later cancel returns
   (`matcher/api.rs:1517`). If another taker was faster, the order trades twice.
   `OverfilledOnlyByRescue` shows that nothing else overfills.
2. `settlement_stale`: a fill that closes a position flat removes it from the
   cache (`api.rs:1213`). The next fill reads the chain before the closing
   settlement has landed and folds onto the position that was already closed,
   although the doc of load_and_fold says that two fills never compute from the
   same stale state.
3. `tape_order`: handlers stamp fills with a time read before they waited for the
   book (`api.rs:1546`), so candles can name one interval twice;
   `market_data.rs:176` says that they cannot.

Seen while modelling, with no run of its own:

*Settlement.* (1) After a flat close has landed, collateral remains on chain with
empty parameters, and the next fold starts from 0. (2) `SettlementEngine.sol:325`
asks for legs of every market; the matcher groups by contract and skips flat
markets. (3) The collateral gate uses the limit tick; a sell filled above it locks
more. (4) `post_liquidate` never queues realized PnL. (5) Leverage 50 gives a
margin of 2%, below the maintenance rate of 3%. (6) `broadcast` answers Ok for a
reverted transaction and Err for a lost receipt. (7) A failed chain read counts as
"no position". (8) `cached_sealed_params` is read after the unlock, so a
settlement can carry a newer fold's parameters. (9) PnL is drained before it is
broadcast; a failed batch is lost. (10) `size_liquidation_legs` floors where its
doc says it never rounds down.

*Contracts.* (11) `BackstopLedger.submitState` overwrites the PnL a draw was taken
from. (12) A capability's signature has no nonce. (13) An attestation stays in
force while positions grow; after it expires, the requirement is that of the
public positions. (14) `settleTrade` overwrites positions and ignores freezes;
a liquidation restarts the entry funding index. (15) One stamp of the last update
serves all ids (`PerpMarket.sol:215`, `FxPerpMarket.sol:46`), and
`updateFundingIndex` and three of the hooks take any id from anyone: a call with
another id advances the stamp and not this market's index, so the time since the
last update is never charged (`updateOtherIndex`, `fxUpdateOtherIndex`;
`FxFundingExact` states by how much). The hooks that stamp a position or clear its
stamp check no caller either, so the two properties count from the index a stamp
was taken from, which only after a trade is that of the stamp's own block. (16) `OrderBook.modifyOrder` does not check the
margin again, and the expiry is truncated to 64 bits; `MarketImpactTwap.sol:50`
says its casts are checked, and they truncate. (17) Vault: an asset total of 0 with
shares outstanding divides by zero; `isWithdrawSafe` ignores unrealized losses; a
bound of 10000 bps lets the discovery reference walk to 0. (31) A batch of realized
PnL need not balance: the matcher queues what the closing side of a fill realized
(`matcher/api.rs:1660`), a flush may hold one trader (`main.rs:168`), and
`settleRealizedPnlBatch` credits gains in full, so claims can exceed what custody
holds; `CustodyBacked` states by how much.

*Matcher and services.* (18) The backstop fills at its own quote without a look at
the limit (`api.rs:1476`); the chunk's proof then panics (`proof.rs:185`). A
post-only IOC order that would cross is rejected by the book, sent to the backstop
all the same (`api.rs:1458`), filled, folded and settled, and then answered
Rejected, "post_only order would have crossed" (`api.rs:1808`), although
`book.rs:452` says that such an order does not trade: `RejectedMeansUnfilled` is
what the answer claims, `RejectedUnlessPostOnlyIoc` what holds. The rescue cancels
by slot number, and may hit another signer's order. (19) `post_offer`
panics on a size of 0 (`api.rs:1883`). (20) A save of `persist_loop` that ends
after the last flush puts an older nonce table back (excepted by
`DiskNeverGoesBack`); after a crash, nonces since the last save pass again
(`main.rs:123` says so, `persistence.rs:14` does not). (21) `cumulative_pnl`
leaves out the spread the maker earns; `LedgersAddUp` states by how much. (22) The
bot counts notional as units, and cancels its own fresh quote when its slot was
recycled. (23) clob `modify_order` can cross the book. (24) The doc of
`get_funding` says 50 bps, the clamp is 5; a gap between polls is charged at the
old rate; the index is an f64, rounded at each read, so a position can be charged a
unit where a fraction accrued, and it is charged from the poll before it opened.
(25) The tape's docs name windows of 24 hours and 7 days, the code has 14 days. (26) The pusher reads the market's hours before it fetches, so a push
across the close anchors a closed market's price. It awaits the update's receipt and
not its status (`keeper_price_pusher.rs:218`), so after an update that reverted the
refresh anchors the price it finds, which the hub takes while it is at most 60
seconds old. (27) A failed scan of the keeper
suspends the checks of all known portfolios for that tick. (28) Feed snapshots can
arrive in another order than they were built, and stay until the next change. A
post-only offer that is rejected has already pruned expired orders from the book
and returns before the broadcast (`api.rs:1879`): a subscriber keeps the pruned
levels until the next change.
(29) `correlation_adjustment` keeps the last of duplicate pairs; no code uses the
margin circuit, whose rho is fixed at 0. (30) The reference maker divides by its
mean, which the matcher guards against (`evaluate_fill` in `backstop_maker.rs`,
`quote_and_check` in `backstop.rs`): the two agree as long as no print is 0, hence
for prints above 0 and spreads below 100%, the assumption of `MakersAlwaysAgree`.
(32) `attest_portfolio_margin` reads the cache before the chain (`api.rs:2483`), so
what it attests may come from a fold whose settlement has not landed and never does,
which the comment at `api.rs:1769` means to rule out: another fold under way, or this
settlement itself if it was mined and reverted (observation 6). A failed broadcast, a
handler dropped in its folds and a liquidation attest nothing. `AttestationCurrent`
compares what is attested with the matcher's own view, and leaves those markets out.

## 5. Proofs

Every theorem is proved from the named ASSUMEs on the constants of the modules it
is about, for all values that satisfy them: bounds, prices, quantities and times
are naturals (above 0 where the code divides by them or rejects 0), sets that are
summed over are finite, narrow widths are naturals. There are no other
assumptions, with one exception: `PricesAlwaysSound` carries `TradesFit` as a
hypothesis, because the casts of `MarketImpactTwap` truncate a product that does
not fit (observation 16) and the average is then not that of the trades. The
width of the `contracts` run satisfies it, and the other branch is explored there.

None of the properties is inductive as it stands. What each proof adds to its
property, and why:

*`MatchingBookProofs`*: `TypeCorrectness`, `LinksAreSound`, `FreeListIsExact`,
`TouchIsExact`, `NeverCrossed`. Unlink is only sound on links that are, the free
list only exact if unlink meets live slots, the best price only exact if an empty
level shows in its head, and a new order crosses nothing only if the best price it
was compared with is exact. So

    IInv == TypeOK /\ LinkIntegrity /\ FreeListExact /\ TouchExact /\ NotCrossed /\ SlotReserved

where `SlotReserved` says that a call in progress still finds a slot within the
bound. Lemmas describe `unlink` and `rest` once; each action's proof applies them.
`NothingStranded` (of `MCSpec`) says that the walk along `next` links, the one an
incoming order takes, meets exactly the live orders of its side, in priority
order, and that the level totals are sums over it. `LinkIntegrity` is about one
node and its neighbours; that the walk misses nobody is about the whole side. So

    QInv == IInv /\ Queued /\ LevelSums

where `Queued` gives for each side a sequence of ids that holds every live order
once, in price and then link order (`Ordered`), and `LevelSums` that a level's total
is the sum over its orders. `unlink` takes one element out of that sequence, `rest`
puts one in; `QueueRead` shows that the recursive walk returns the sequence.
`BookIsPriceTime` is the refinement: `MCSpec => ImplementsPriceTimeBook`. Every
step maps to a step of `PriceTimeBook` or to none: the rounds of the two loops and
the guards that let an order pass are invisible, and the step that ends the call
is `Execute`. For that the state in the middle of a call has to say what the loop
has done so far (`CallInv`): in the prune, the opposite queue is the one found less
its first `m` orders, all expired; in the matching loop (`Swath`), the first `m`
orders of it are gone, each of which crossed while the taker still had quantity,
`d` has been taken from the next one, and the taker's remainder is its quantity
less what those could give (`Before`). When the loop stops, `SwathEnd` finds in that
the closed form of the sweep; `AvailableIs` finds the closed form of the
Fill-or-Kill guard in the walk of `available_to_match`. `Positive` (nothing rests
with quantity 0) is what makes a round consume its maker.
Consequence for the code: the panics "book invariant violated: arena slot
referenced but empty" and the two expects on the cached best price are
unreachable.

*`GatewayProofs`*, for any number of requests, signers, prices and quantities:
`OrdersAlwaysWithOwners`, `OutcomeAlwaysAsPromised`, `OnlyRescueOverfills` and
`TradesSumToZero`. `GatewayInv` says of every handler what its program counter
implies for the request's quantities (`Coherent`), that an entry of the book is
no more than what its request is due (`Slots`), that no slot is used twice
(`Alone`), that removals went to the canceller's own orders (`CancelsOwn`), and
that a payload past its nonce check is below the floor (`NoncesSeen`,
`NoReplay`). `PriceTime`'s closed form enters through lemmas on the quantity a
sweep takes and leaves (`Kept`, `LeftAt`). `Balanced` sums what each request has
and is owed (`Dues`), where a rescue that has committed the backstop and not yet
credited its request counts as held.

*`SettlementProofs`*: `HandlersNeverDeadlock` from `Types /\ LocksRight`, where
`LocksRight` says at which program counters a handler holds a position or the
broadcast lock, that a liquidation still taking locks holds smaller markets than
those it needs, and that who holds the broadcast lock waits for a receipt and for
no lock: a circle of waits would have to rise in the order of markets for ever.
`RealizedPnlSettledOnce` from `OthersMoveNone` (no
transaction but the flush loop's carries PnL) and, while nothing has failed,
`OneBatch` (at most one of them is on the wire) and `Balanced` (balance, pending
and what is on the way add up to what was realized). The folds that chains of legs compute are written as recursive
functions; of them `RealizedPnlSettledOnce` needs only what a step does to the queue.
`CachedPositionsMirrorTheChain` and `ChainIsTheLastWord` come from `MirrorInv`, whose
core speaks of one key (`KeyInv`). The folds of a key are numbered; the history
records for every process what it owes on the key, the number of its first fold and,
once its leg is built, the number and the params that the leg carries. Not every set
of folds can have been published: one that was folded by `n` and whose leg was built
after `n` is missing from the params of fold `n`. So the invariant says what the
params mean only for a cut (`Cut`): if whoever folded by `n` has built its leg by
`n`, the params published by fold `n` are the size that landed and the folds up to
`n` (`View`). With nothing owed every number is a cut, and the params on chain are
what landed. A cached position is the chain and all that is owed, and somebody who
owes has the newest fold or it has landed (`Cached`); a key that is not cached and has
a leg to come is flat. Around it stand the program counters: a handler that may fold
holds the lock and a copy nothing has overtaken (`Fresh`), the legs of an order
under way are what it owes but for the one it is at (`Building`), and a transaction
carries what its owner owes, two of one owner never on the same key (`QueueRight`).
Eleven steps of an order, eight of a liquidation, three of the flush loop, a block
and a crash are one lemma each; what a leg, a fold, a loss or a mined transaction does
to a key are lemmas about constants (`KeyLeg`, `KeyFold`, `KeyLose`, `KeyMine`).
`LegsApplied` gives what the recursive function of a settlement leaves: every key's
deltas added up, the params of its last leg, no collateral below zero.

*`ClearingProofs`*: `CustodyAlwaysBacked` (the sum of the balances per asset
against custody, what batches settled and the losses they floored at 0: each call
changes the sum in one or two places, a batch in as many as it names),
`SubsidyBounded` (`LedgerInv`: cumulative PnL is the attested one plus what was drawn
since), `WithdrawalsKeepMargin`, an action property, and
`VaultAlwaysFair` over `VaultSpec`, in which the vault runs beside every other call
of the kernel. `VaultInv`: the mark is at least the highest NAV per share that an
accrual left, rounded down. It is inductive because the fee never takes the NAV back
below the mark (`FeeLeavesMark`: through four roundings, the shares minted are worth
at most the gain since the mark). The theorem assumes what `VaultAssumption` says of
the vault's asset, no haircut and a price of 1: `deposit` and `withdraw` divide units
of the asset by a value in dollars, which is the same for USDC only.

*`MarketProofs`*: `EscrowAlwaysSound` (bonds of live orders sum to the contract's
ether; nonces of placed orders lie below the counter), `FundingAlwaysForTimeOpen`
(what an index accrued since a stamp is bounded by the cap for the blocks between,
or equals the pushed rates second by second less what calls for another id swallowed;
the indexes' own stamps lie between),
and `PricesAlwaysSound`. For the last, `RingInv` says where the trades of each
block of the window are: the latest block with trades in the accumulator, every
other one less than a window older in its slot, whatever else a slot holds being
older; `WalkInv` counts the
moves of the discovery reference; `MedianIs` places the median of the feeds.

*`EngineProofs`*: `BotAlwaysKeepsTrack` from counts of the ids in the two lists
(`PostsAndCancels`: two posts and two cancels a level, so the old list is empty
when a cycle ends) and `FreshKnown`; `MakersAlwaysAgree` from `MakerInv`: prints
and pending quotes are positive, and cash plus inventory at the last print is the
sum of the two ledgers. A spread below 100% keeps a bid positive, so that a fill
recorded as a print keeps the mean positive; `SpreadGrows` orders spreads by
exposure; `MeanIs` places the mean between the prints it is of. `LadderAlwaysExact`
from `LadderInv`: the summary's bits are those of the words that are not zero
(`TiersAgree`), bit `i` is that of the level at `baseTick + i`, and the levels lie
within the array (`BitsAreLevels`). An index is a word and a bit in one way only
(`BitIndex`); each operation of the bitmap is then a statement about its bits
(`SetBit`, `ClearBit`, `EnsureLen`, `ShiftUp`), and both searches are
right first within a word, then along the summary (`NextIs`, `PrevIs`).
`ProofsAlwaysDecide` unrolls three loops of the source that the model writes as
folds, the comparison's over bits, the sweep's over fills and the batcher's over
witnesses: `FoldExists` shows that the function a fold chooses exists, and the fold
is then a run of states from the first element to the last, about which plain
induction speaks. `LeDecides` reads both numbers bit by bit (`BitsRead`); what is
tied or greater so far is the quotients; `ProvableAre` and `ChunksAre` say in which
place each witness stands, `PlacesCounted` that the slots and the witnesses are as
many; and `SweepInv` holds that each chunk is a running task or an ended one. The
margin needs residues only: the biased sum of two sizes does not wrap
(`ShiftedValue`, from the bound on `BIAS` that `ProofAssumption` states), so the
larger of the two scenario values is the absolute one.

*`ServiceProofs`*: `NonceTypes`, `FloorHolds`, `PassesOnce` and the action property
`DiskOnlyGrows` from `NonceInv` (a pending snapshot lies below the floor, so that
writing it keeps the floor above the disk, and above the disk, so that writing it
loses nothing, until a flush overtakes it). `ScannersNeverMiss` (`KeeperInv`: neither
cursor lies beyond the chain, and what is known is what the blocks before it
touched). `ReferencesAnchored` (`CalendarRight` compares the weekday arithmetic
with the week of minutes; `PushInv` ties a price in hand, and every transaction still
afloat, to the push that fetched or sent it, and `Anchors` says what a refresh may
find on chain). `AttestationsCurrent` (`NewestRuns`, `NewestEnded`: while the newest
landing's task runs, each market it has read is as it saw it, or excused, because
something is still to come for it or has moved it without an attestation; when the
task has ended, what it submitted stands unless an exception named in the property
happened. `AttestMoves` does this once for every step that touches one market).
`NativeFundingAlwaysSound` (`NativeInv`: the readings kept are the last ones, the
rate in force is their clamped mean, and what is owed is within the clamp for the
time since the last poll before the position opened, charged or still to be charged;
rounding the index at two reads costs at most a unit). `TapeAlwaysSound`
(`TapeInv`: the tape is what was recorded from some print on, and each print before it is older than the
window before another one; `BarsOfTape` carries, print by print, that the bars of an
interval hold its prints, that the newest bar is that of the last print, and that
bars ascend as long as prints do). `SubscribersSeeTheBook` (`FeedInv`: a handler
still owes the newest state that is to be told, or it was sent, or nobody had to be
told; the last message in the channel is the newest sent, which dropping the oldest
keeps;
`GroupedIsLadder`: each bucket closes where the next one opens, because levels come
from the touch outwards). `MarginAlwaysCovers` (`RiskInv` is types only; the work is
in the arithmetic: `ExposureGrows` makes each exposure, floored away from or towards
zero, monotone in the mark, `CornerShifts` puts every move of a mark between the
scenario's shifts of it, so the corner that moves each mark against its position
loses at least as much, and `SumPlus` adds this up; `PairTurned` shows the
correlation term unchanged when both legs change sides, a leg without exposure
included, whose direction the code reads as long). It holds where `Scenarios` has
the corners of the box, which the property states as its condition: which scenarios
there are is the deployment's choice.

*`FiniteSums`* has the induction these need. The induction theorems of the
library take an operator; here induction is over a set of naturals
(`Induction`, from the least element of its complement), and gives sums over
finite sets that change in one place, that are renamed, grouped, or bounded, and
the existence of the functions that recursive definitions name.

*Model-checked only*, and why:

- `SubmitReturns`, `Answered`: liveness under fairness.
- `ClobInOrder`: its queues are filtered by `SelectSeq`, which has no definition the
  provers can expand.
- `LiquidationSound`: its strict improvement holds for the run's prices and sizes
  only. Where both roundings give 0, a liquidation leaves the requirement as it was.

## 6. Plan

1. `ClobInOrder`: the id index against the queues.
2. `HealthyLeftAlone` out of `LiquidationSound`, which does hold for all sizes.
3. A run of its own for the post-only IOC order of observation 18.

## 7. Not modelled

- Cryptography (decryption, sealing, signatures, attestation documents,
  certificates, Groth16, MiMC): outside TLC's reach. Payloads are authenticated,
  sealed parameters are records only the matcher reads.
- Read-only routes (portfolio, health, status), wire formats, JSON parsing and
  logging: no state of their own.
- Persisted tables other than the nonces (volumes, the tape): they follow the same
  save path, and nothing depends on their freshness.
- Machine width of quantities, inventory and PnL in the matcher. The narrow fields
  on chain that truncate (ring buffer, expiry) are modelled with their width.
- `local_dev.rs`, demo and stress clients, benchmarks, front ends, simulations,
  infrastructure, and the prototypes in `tiny/`: tools and environment.
- Volatility estimates of the market-making bot, which are inputs of its model.
