-------------------------- MODULE SealedSettlement --------------------------
(***************************************************************************)
(* From a fill to the chain: the folding of fills into cached positions    *)
(* (load_and_fold), the spawned settlement of a sweep, the liquidation of  *)
(* a portfolio, the realized-PnL bridge, and the one broadcast lock they   *)
(* share.                                                                  *)
(*                                                                         *)
(* Processes are handlers: an order r (a taker's sweep, whose settlement   *)
(* task goes on after the answer), a liquidation l, and the PnL flusher.   *)
(* Each await is a step boundary, and so is each unlock: the runtime has   *)
(* several threads.  A position is locked by its key <<trader, market>>.   *)
(*                                                                         *)
(* External: the chain takes a sent transaction into a queue (the signer's *)
(* nonces order it), mines it later, and may refuse a send, lose a receipt *)
(* or fail a read; a request can outlive its time limit and is dropped at  *)
(* an await; the process can crash.  MaxFaults bounds these together.      *)
(***************************************************************************)
EXTENDS SealedLedger, FiniteSets

CONSTANTS
  Traders,        \* the traders; one portfolio key each
  Markets,        \* numbers, so that locking in sorted order means something
  Orders,         \* numbers: the order requests, in order of arrival
  Liquidations,   \* the liquidation requests
  Flusher, Free,  \* the flush loop as a process; no holder
  Prices,         \* ticks at which fills happen
  Marks,          \* live mark prices; 0 when no feed has one
  Qtys,           \* order sizes
  MaxFills,       \* fills of one sweep
  Leverages,      \* leverages an order asks for
  MakerLeverage,  \* the leverage of a maker's first fill (20 in the code)
  Openings,       \* the sizes, long on one side, short on the other, to begin with
  Deposit,        \* a trader's first balance in Account.sol, in USD units
  UsdScale, PriceScale, \* USD units per tick unit, and each market's price scale
  FundingIndexes, \* values the funding poll may have left in funding_index_native
  FaultKinds,     \* a subset of {"refuse", "receipt", "read", "timeout", "crash"}
  MaxFaults

Keys == Traders \X Markets

ASSUME ConstantsAssumption ==
  /\ IsFiniteSet(Orders) /\ IsFiniteSet(Liquidations) /\ IsFiniteSet(Markets)
  /\ Orders \subseteq Nat /\ Markets \subseteq Nat
  /\ Orders \cap Liquidations = {} /\ Flusher \notin Orders \cup Liquidations
  /\ Free \notin Orders \cup Liquidations \cup {Flusher}
  /\ IsFiniteSet(Prices) /\ Prices # {} /\ Prices \subseteq Nat /\ Marks \subseteq Nat
  /\ Qtys \subseteq Nat \ {0} /\ MaxFills \in Nat
  /\ IsFiniteSet(Leverages) /\ Leverages # {} /\ Leverages \subseteq Nat /\ MakerLeverage \in Nat
  /\ FundingIndexes \subseteq Int
  /\ Openings \subseteq [Keys -> Int] /\ Deposit \in [Traders -> Nat]
  /\ UsdScale \in Nat /\ PriceScale \in [Markets -> Nat \ {0}]
  /\ FaultKinds \subseteq {"refuse", "receipt", "read", "timeout", "crash"} /\ MaxFaults \in Nat

Procs == Orders \cup Liquidations \cup {Flusher}
Nothing == [coll |-> 0, size |-> 0, stamp |-> 0, leg |-> 0, params |-> Empty]
NoOwed == [k \in Keys |-> Nothing]

VARIABLES
  cache,      \* position_cache: key -> position or None
  locks,      \* position_locks: key -> holder or Free
  sealed,     \* on chain: key -> [params, coll]
  bcast,      \* BROADCAST_LOCK: holder or Free
  queue,      \* transactions sent and not yet mined, in nonce order
  req,        \* order -> its handler, then its settlement task
  liq,        \* liquidation -> its handler
  flush,      \* the flush loop
  pending,    \* pending_realized_pnl: trader -> netted delta
  account,    \* Account.sol: trader -> balance, in USD units
  volume,     \* trader_volume
  faults,     \* faults so far
  owed,       \* history: process -> key -> what it folded and has not landed,
              \* with the stamp and the params of the leg built since, if any
  stamp,      \* history: key -> number of folds so far
  landed,     \* history: key -> size landed on chain, and the newest stamp
  realized,   \* history: trader -> PnL realized by fills, in USD units
  forgiven,   \* history: trader -> losses the floor of the batch cut off
  overtaken,  \* history: keys whose params on chain were put back by an older leg
  suspect     \* history: keys that a named event left out of step

code == <<cache, locks, sealed, bcast, queue, req, liq, flush, pending, account, volume, faults>>
history == <<owed, stamp, landed, realized, forgiven, overtaken, suspect>>
vars == <<code, history>>

Idle == [pc |-> "idle"]
ToUsd(x, m) == Quot(x * UsdScale, PriceScale[m])

\* Mutant: the parameters of a leg come from the chain.
cached_sealed_params_before(k) == sealed[k].params

cached_sealed_params(k) == IF cache[k] = None THEN Empty ELSE ParamsOf(cache[k])
\* load_single_market_state_cached, when the chain answers.
Known(k) == IF cache[k] # None THEN cache[k] ELSE loadSealed(sealed[k])

OwedOn(k) == SumFunction([p \in Procs |-> owed[p][k].coll])
OwedSize(k) == SumFunction([p \in Procs |-> owed[p][k].size])
OthersOwe(p, k) == \E o \in Procs \ {p} : owed[o][k] # Nothing
\* The chain is not the last word on k: a leg is in flight, or came late.
Behind(k) == k \in overtaken \/ \E p \in Procs : owed[p][k] # Nothing
Owe(p, k, coll, size) ==
  [owed EXCEPT ![p][k] = [coll |-> @.coll + coll, size |-> @.size + size,
                          stamp |-> IF @ = Nothing THEN stamp[k] + 1 ELSE @.stamp,
                          leg |-> 0, params |-> Empty]]
OweLeg(p, leg) ==
  owed' = [owed EXCEPT ![p][leg.key] = [@ EXCEPT !.leg = leg.stamp, !.params = leg.params]]
Touched(p) == {k \in Keys : owed[p][k] # Nothing}

----------------------------------------------------------------------------
(* An order *)

\* check_deposited_collateral: only the part that opens exposure needs margin,
\* on top of what every known position of the trader locks.
OpeningQty(k, buy, qty) ==
  LET st   == Known(k)
      size == IF st = None THEN 0 ELSE st.size
  IN IF size # 0 /\ (size > 0) # buy THEN qty - Least(qty, Mag(size)) ELSE qty

LockedUsd(t) ==
  MapThenSumSet(LAMBDA m : LET st == Known(<<t, m>>)
                           IN IF st = None \/ st.coll <= 0 THEN 0 ELSE ToUsd(st.coll, m),
                Markets)

check_deposited_collateral(t, m, buy, tick, qty, leverage) ==
  LET opening == OpeningQty(<<t, m>>, buy, qty)
  IN \/ opening = 0
     \/ LockedUsd(t) + ToUsd(required_margin(tick, opening, leverage), m) <= account[t]

\* post_order up to the book: the collateral gate answers.
Check(r) ==
  /\ req[r] = Idle
  /\ \A o \in Orders : o < r => req[o] # Idle
  /\ \E t \in Traders, m \in Markets, buy \in BOOLEAN, tick \in Prices, qty \in Qtys,
        lev \in Leverages :
       req' = [req EXCEPT ![r] =
         IF check_deposited_collateral(t, m, buy, tick, qty, lev)
         THEN [pc |-> "match", taker |-> t, market |-> m, buy |-> buy, tick |-> tick,
               qty |-> qty, lev |-> lev]
         ELSE [pc |-> "rejected"]]
  /\ UNCHANGED <<cache, locks, sealed, bcast, queue, liq, flush, pending, account, volume,
                 faults, history>>

\* What the book may answer: fills within the limit, of other owners, at most
\* the order's size; none when it rests or is killed.
Sweeps(o) ==
  LET Fill == [maker : Traders \ {o.taker}, price : Prices, qty : Qtys]
      Ok(s) == /\ \A i \in DOMAIN s : IF o.buy THEN s[i].price <= o.tick ELSE s[i].price >= o.tick
               /\ FoldLeft(LAMBDA acc, f : acc + f.qty, 0, s) <= o.qty
  IN {s \in UNION {[1..n -> Fill] : n \in 0..MaxFills} : Ok(s)}

\* The book and the funding index are read, the tier is fixed for the sweep.
Match(r) ==
  LET o == req[r] IN
  /\ o.pc = "match"
  /\ \E s \in Sweeps(o), f \in FundingIndexes :
       req' = [req EXCEPT ![r] = IF s = <<>> THEN [pc |-> "unfilled"] ELSE
         [pc |-> "lock", role |-> "maker", i |-> 1, fills |-> s, legs |-> <<>>, delta |-> 0,
          tier |-> volume[o.taker], funding |-> f, locked |-> 0, got |-> None,
          taker |-> o.taker, market |-> o.market, buy |-> o.buy, tick |-> o.tick, qty |-> o.qty, lev |-> o.lev]]
  /\ UNCHANGED <<cache, locks, sealed, bcast, queue, liq, flush, pending, account, volume,
                 faults, history>>

KeyOf(o) == <<IF o.role = "maker" THEN o.fills[o.i].maker ELSE o.taker, o.market>>

\* Mutant: the lock is taken whether it is free or not.
LockShared(r) ==
  LET k == KeyOf(req[r]) IN
  /\ req[r].pc = "lock"
  /\ locks' = [locks EXCEPT ![k] = r]
  /\ req' = [req EXCEPT ![r].pc = IF cache[k] = None THEN "read" ELSE "fold", ![r].got = cache[k]]
  /\ UNCHANGED <<cache, sealed, bcast, queue, liq, flush, pending, account, volume, faults,
                 history>>

\* lock_position, then the cache.
Lock(r) ==
  LET k == KeyOf(req[r]) IN
  /\ req[r].pc = "lock"
  /\ locks[k] = Free
  /\ locks' = [locks EXCEPT ![k] = r]
  /\ req' = [req EXCEPT ![r].pc = IF cache[k] = None THEN "read" ELSE "fold", ![r].got = cache[k]]
  /\ UNCHANGED <<cache, sealed, bcast, queue, liq, flush, pending, account, volume, faults,
                 history>>

\* A miss: loadSealed, under the lock.  A failed read counts as no position.
ReadChain(r) ==
  LET k == KeyOf(req[r]) IN
  /\ req[r].pc = "read"
  /\ \/ /\ req' = [req EXCEPT ![r].pc = "fold", ![r].got = loadSealed(sealed[k])]
        /\ suspect' = IF Behind(k) THEN suspect \cup {k} ELSE suspect
        /\ UNCHANGED faults
     \/ /\ "read" \in FaultKinds /\ faults < MaxFaults
        /\ faults' = faults + 1
        /\ req' = [req EXCEPT ![r].pc = "fold", ![r].got = None]
        /\ suspect' = suspect \cup {k}
  /\ UNCHANGED <<cache, locks, sealed, bcast, queue, liq, flush, pending, account, volume,
                 owed, stamp, landed, realized, forgiven, overtaken>>

\* Several closes of one trader net to one entry of the next batch.
queue_realized_pnl(trader, delta) == pending' = [pending EXCEPT ![trader] = @ + delta]

\* Fold, write back (a flat position is removed), queue the realized PnL,
\* unlock.  The taker's fold carries the fee.
Fold(r) ==
  LET o     == req[r]
      k     == KeyOf(o)
      f     == o.fills[o.i]
      maker == o.role = "maker"
      buy   == IF maker THEN ~o.buy ELSE o.buy
      from  == IF o.got # None THEN o.got ELSE FreshFold(IF maker THEN MakerLeverage ELSE o.lev)
      res   == apply_fill(from, buy, f.price, f.qty, o.funding)
      fee   == IF maker THEN 0 ELSE taker_fee(f.price * f.qty, o.tier)
      new   == [res.st EXCEPT !.coll = @ + fee]
      usd   == ToUsd(res.realized, o.market)
  IN
  /\ o.pc = "fold"
  /\ cache' = [cache EXCEPT ![k] = IF new.size = 0 THEN None ELSE new]
  /\ locks' = [locks EXCEPT ![k] = Free]
  /\ queue_realized_pnl(k[1], usd)
  /\ req' = [req EXCEPT ![r] =
       IF maker THEN [o EXCEPT !.pc = "leg", !.locked = res.delta, !.got = None]
       ELSE [o EXCEPT !.pc = IF o.i = Len(o.fills) THEN "spawn" ELSE "lock", !.got = None,
                      !.i = IF o.i = Len(o.fills) THEN o.i ELSE o.i + 1,
                      !.role = IF o.i = Len(o.fills) THEN o.role ELSE "maker",
                      !.delta = o.delta + res.delta + fee]]
  /\ owed' = Owe(r, k, res.delta + fee, IF buy THEN f.qty ELSE -f.qty)
  /\ stamp' = [stamp EXCEPT ![k] = @ + 1]
  /\ realized' = [realized EXCEPT ![k[1]] = @ + usd]
  /\ suspect' = IF o.got = None /\ sealed[k].coll # 0 THEN suspect \cup {k} ELSE suspect
  /\ UNCHANGED <<sealed, bcast, queue, liq, flush, account, volume, faults, landed,
                 forgiven, overtaken>>

LegOf(k, delta) == [key |-> k, delta |-> delta, params |-> cached_sealed_params(k), stamp |-> stamp[k]]

\* build_maker_leg: the params are read again, after the unlock.
Leg(r) ==
  LET leg == LegOf(KeyOf(req[r]), req[r].locked) IN
  /\ req[r].pc = "leg"
  /\ req' = [req EXCEPT ![r].legs = Append(@, leg), ![r].pc = "lock", ![r].role = "taker"]
  /\ OweLeg(r, leg)
  /\ UNCHANGED <<cache, locks, sealed, bcast, queue, liq, flush, pending, account, volume,
                 faults, stamp, landed, realized, forgiven, overtaken, suspect>>

\* The volume is counted, the taker's leg built, the task spawned; the trader
\* gets the answer.
Spawn(r) ==
  LET o   == req[r]
      leg == LegOf(<<o.taker, o.market>>, o.delta)
  IN
  /\ o.pc = "spawn"
  /\ volume' = [volume EXCEPT ![o.taker] =
       @ + SumFunction([i \in DOMAIN o.fills |-> o.fills[i].price * o.fills[i].qty])]
  /\ req' = [req EXCEPT ![r].pc = "queued", ![r].legs = <<leg>> \o @]
  /\ OweLeg(r, leg)
  /\ UNCHANGED <<cache, locks, sealed, bcast, queue, liq, flush, pending, account, faults,
                 stamp, landed, realized, forgiven, overtaken, suspect>>

----------------------------------------------------------------------------
(* Broadcast: one transaction at a time under BROADCAST_LOCK, from the send to *)
(* its receipt.  A node estimates before it accepts, so a call that would      *)
(* revert is refused.                                                          *)

Outcome(tx) ==
  CASE tx.kind = "sweep"     -> settleTakerSweep(sealed, tx.legs)
    [] tx.kind = "liquidate" -> liquidateSealed(sealed, tx.requirement, tx.legs)
    [] OTHER                 -> sealed
\* Only a leg or the liquidation check reverts: a batch clamps.
Reverts(tx) == tx.kind # "pnl" /\ Outcome(tx) = Reverted

InQueue(p) == \E i \in DOMAIN queue : queue[i].owner = p
KeysIn(tx) == {tx.legs[i].key : i \in DOMAIN tx.legs}
LastOn(legs, k) == Max({i \in DOMAIN legs : legs[i].key = k})
\* A transaction, mined or sent, has published the fold n of k or a newer one.
Published(k, n) ==
  \/ landed[k].stamp >= n
  \/ \E i \in DOMAIN queue : \E j \in DOMAIN queue[i].legs :
       queue[i].legs[j].key = k /\ queue[i].legs[j].stamp >= n
QueuedKeys(p) == UNION {KeysIn(queue[i]) : i \in {j \in DOMAIN queue : queue[j].owner = p}}

\* p sends tx, or is refused: by the estimate, or by a fault.
Sent(p, tx) ==
  /\ bcast = Free
  /\ ~Reverts(tx)
  /\ bcast' = p
  /\ queue' = Append(queue, tx)
  /\ UNCHANGED faults

Refused(p, tx) ==
  /\ bcast = Free
  /\ \/ Reverts(tx) /\ UNCHANGED faults
     \/ "refuse" \in FaultKinds /\ faults < MaxFaults /\ faults' = faults + 1
  /\ UNCHANGED <<bcast, queue>>

Receipt(p) ==
  /\ bcast = p
  /\ ~InQueue(p)
  /\ bcast' = Free
  /\ UNCHANGED faults

ReceiptLost(p) ==
  /\ bcast = p
  /\ "receipt" \in FaultKinds /\ faults < MaxFaults /\ faults' = faults + 1
  /\ bcast' = Free

\* The chain mines the next transaction.
Mine ==
  /\ queue # <<>>
  /\ LET tx   == Head(queue)
         keys == KeysIn(tx)
         newest(k) == tx.legs[LastOn(tx.legs, k)].stamp
         old  == {k \in keys : newest(k) < landed[k].stamp}
     IN /\ queue' = Tail(queue)
        /\ owed' = [owed EXCEPT ![tx.owner] = [k \in Keys |-> IF k \in keys THEN Nothing ELSE @[k]]]
        /\ IF Reverts(tx)
           THEN suspect' = suspect \cup keys /\ UNCHANGED <<sealed, landed, overtaken>>
           ELSE /\ sealed' = Outcome(tx)
                /\ landed' = [k \in Keys |-> IF k \notin keys THEN landed[k]
                                 ELSE [size |-> landed[k].size + owed[tx.owner][k].size,
                                       stamp |-> IF k \in old THEN landed[k].stamp ELSE newest(k)]]
                /\ overtaken' = (overtaken \ keys) \cup old
                /\ UNCHANGED suspect
        \* settleRealizedPnlBatch: a gain in full, a loss down to zero.
        /\ account' = [t \in Traders |->
              LET sum == account[t] + tx.batch[t] IN IF sum < 0 THEN 0 ELSE sum]
        /\ forgiven' = [t \in Traders |->
              LET sum == account[t] + tx.batch[t] IN IF sum < 0 THEN forgiven[t] - sum ELSE forgiven[t]]
  /\ UNCHANGED <<cache, locks, bcast, req, liq, flush, pending, volume, faults, stamp, realized>>

NoBatch == [t \in Traders |-> 0]
SweepTx(r) == [owner |-> r, kind |-> "sweep", legs |-> req[r].legs, requirement |-> 0, batch |-> NoBatch]

\* settle_taker_sweep, in the spawned task.
SendSweep(r) ==
  /\ req[r].pc = "queued"
  /\ \/ Sent(r, SweepTx(r)) /\ req' = [req EXCEPT ![r].pc = "sent"]
     \/ Refused(r, SweepTx(r)) /\ req' = [req EXCEPT ![r].pc = "failed"]
  /\ UNCHANGED <<cache, locks, sealed, liq, flush, pending, account, volume, history>>

ConfirmSweep(r) ==
  /\ req[r].pc = "sent"
  /\ \/ Receipt(r) /\ req' = [req EXCEPT ![r] = [pc |-> "confirmed"]]
     \/ ReceiptLost(r) /\ req' = [req EXCEPT ![r].pc = "failed"]
  /\ UNCHANGED <<cache, locks, sealed, queue, liq, flush, pending, account, volume, history>>

\* What p folded into keys and no transaction of its own carries is lost.  A key
\* that someone else holds, owes on, or published since, has been built on.
BuiltOn(p, k) == OthersOwe(p, k) \/ Published(k, owed[p][k].stamp)
Lose(p, keys, built, evicted) ==
  LET lost == (keys \cap Touched(p)) \ QueuedKeys(p)
  IN /\ owed' = [owed EXCEPT ![p] = [k \in Keys |-> IF k \in lost THEN Nothing ELSE @[k]]]
     /\ suspect' = suspect \cup (lost \cap built) \cup {k \in evicted : OthersOwe(p, k)}

\* invalidate_position for every leg of a sweep that failed.
InvalidateSweep(r) ==
  LET keys == KeysIn(req[r]) IN
  /\ req[r].pc = "failed"
  /\ cache' = [k \in Keys |-> IF k \in keys THEN None ELSE cache[k]]
  /\ Lose(r, keys, {k \in keys : locks[k] # Free \/ BuiltOn(r, k)}, keys)
  /\ req' = [req EXCEPT ![r] = [pc |-> "unsettled"]]
  /\ UNCHANGED <<locks, sealed, bcast, queue, liq, flush, pending, account, volume, faults,
                 stamp, landed, realized, forgiven, overtaken>>

----------------------------------------------------------------------------
(* A liquidation (post_liquidate).  Every market is its own contract, so each *)
(* leg goes in a transaction of its own.                                      *)

First(S) == CHOOSE m \in S : \A n \in S : m <= n
\* Mutant: two liquidations take their locks in different orders.
NextMarketUnsorted(l) ==
  IF l = CHOOSE x \in Liquidations : TRUE THEN First(liq[l].todo)
  ELSE CHOOSE m \in liq[l].todo : \A n \in liq[l].todo : m >= n
NextMarket(l) == First(liq[l].todo)
LKey(l, m) == <<liq[l].who, m>>
Release(p) == [k \in Keys |-> IF locks[k] = p THEN Free ELSE locks[k]]

\* load_portfolio_state, without a lock.
Discover(l) ==
  /\ liq[l] = Idle
  /\ \E t \in Traders :
       LET found == {m \in Markets : Known(<<t, m>>) # None} IN
       liq' = [liq EXCEPT ![l] =
         IF found = {} THEN [pc |-> "done"]
         ELSE [pc |-> "lock", who |-> t, markets |-> found, todo |-> found,
               got |-> [m \in {} |-> None]]]
  /\ UNCHANGED <<cache, locks, sealed, bcast, queue, req, flush, pending, account, volume,
                 faults, history>>

\* Every lock, in sorted order, before any position is read again.
LockNext(l) ==
  LET m == NextMarket(l) IN
  /\ liq[l].pc = "lock"
  /\ locks[LKey(l, m)] = Free
  /\ locks' = [locks EXCEPT ![LKey(l, m)] = l]
  /\ liq' = [liq EXCEPT ![l] =
       IF liq[l].todo = {m} THEN [liq[l] EXCEPT !.pc = "read", !.todo = liq[l].markets]
       ELSE [liq[l] EXCEPT !.todo = liq[l].todo \ {m}]]
  /\ UNCHANGED <<cache, sealed, bcast, queue, req, flush, pending, account, volume, faults,
                 history>>

ReadNext(l) ==
  LET m == NextMarket(l)
      k == LKey(l, m)
      Got(st) == [liq EXCEPT ![l] =
        [liq[l] EXCEPT !.todo = liq[l].todo \ {m},
                       !.pc = IF liq[l].todo = {m} THEN "size" ELSE "read",
                       !.got = IF st = None THEN liq[l].got
                               ELSE [n \in DOMAIN liq[l].got \cup {m} |-> IF n = m THEN st ELSE liq[l].got[n]]]]
  IN
  /\ liq[l].pc = "read"
  /\ \/ /\ liq' = Got(Known(k))
        /\ suspect' = IF cache[k] = None /\ Behind(k) THEN suspect \cup {k} ELSE suspect
        /\ UNCHANGED faults
     \/ /\ "read" \in FaultKinds /\ faults < MaxFaults /\ cache[k] = None
        /\ faults' = faults + 1
        /\ liq' = Got(None)
        /\ UNCHANGED suspect
  /\ UNCHANGED <<cache, locks, sealed, bcast, queue, req, flush, pending, account, volume,
                 owed, stamp, landed, realized, forgiven, overtaken>>

\* The margin is computed on the fresh states; healthy, or nothing left: done.
\* Underwater: size_liquidation_legs writes every outcome to the cache before
\* anything is broadcast.
Size(l) ==
  /\ liq[l].pc = "size"
  /\ \E live \in [liq[l].markets -> Marks], f \in FundingIndexes :
       LET held   == liq[l].got
           margin == compute_margin(held, live)
           sized  == [m \in DOMAIN held |-> size_liquidation_leg(held[m], CloseBps(margin), live[m], f)]
           At(k)  == k[1] = liq[l].who /\ k[2] \in DOMAIN held
           LegAt(k) == LET st == sized[k[2]].st
                       IN [key |-> k, delta |-> sized[k[2]].delta, stamp |-> stamp[k] + 1,
                           params |-> IF st.size = 0 THEN Empty ELSE ParamsOf(st)]
       IN IF ~margin.breached
          THEN /\ locks' = Release(l)
               /\ liq' = [liq EXCEPT ![l] = [pc |-> "done"]]
               /\ UNCHANGED <<cache, owed, stamp>>
          ELSE /\ cache' = [k \in Keys |-> IF ~At(k) THEN cache[k]
                                          ELSE IF sized[k[2]].st.size = 0 THEN None ELSE sized[k[2]].st]
               /\ liq' = [liq EXCEPT ![l] =
                    [pc |-> "send", who |-> @.who, markets |-> @.markets, left |-> DOMAIN held,
                     legs |-> [m \in DOMAIN held |-> LegAt(<<liq[l].who, m>>)], failed |-> FALSE,
                     requirement |-> margin.requirement]]
               /\ owed' = [owed EXCEPT ![l] = [k \in Keys |-> IF ~At(k) THEN @[k]
                    ELSE [coll |-> sized[k[2]].delta, size |-> sized[k[2]].st.size - held[k[2]].size,
                          stamp |-> stamp[k] + 1, leg |-> stamp[k] + 1, params |-> LegAt(k).params]]]
               /\ stamp' = [k \in Keys |-> IF At(k) THEN stamp[k] + 1 ELSE stamp[k]]
               /\ UNCHANGED locks
  /\ UNCHANGED <<sealed, bcast, queue, req, flush, pending, account, volume, faults,
                 landed, realized, forgiven, overtaken, suspect>>

LiqTx(l, m) == [owner |-> l, kind |-> "liquidate", legs |-> <<liq[l].legs[m]>>,
                requirement |-> liq[l].requirement, batch |-> NoBatch]

SendLiquidation(l) ==
  /\ liq[l].pc = "send"
  /\ \E m \in liq[l].left :
       \/ Sent(l, LiqTx(l, m)) /\ liq' = [liq EXCEPT ![l].pc = "sent", ![l].left = @ \ {m}]
       \/ Refused(l, LiqTx(l, m)) /\ liq' = [liq EXCEPT ![l].failed = TRUE, ![l].left = @ \ {m}]
  /\ UNCHANGED <<cache, locks, sealed, req, flush, pending, account, volume, history>>

ConfirmLiquidation(l) ==
  /\ liq[l].pc = "sent"
  /\ \/ Receipt(l) /\ liq' = [liq EXCEPT ![l].pc = "send"]
     \/ ReceiptLost(l) /\ liq' = [liq EXCEPT ![l].pc = "send", ![l].failed = TRUE]
  /\ UNCHANGED <<cache, locks, sealed, queue, req, flush, pending, account, volume, history>>

\* One failed group evicts every market; the locks go at the end.
FinishLiquidation(l) ==
  LET keys == {LKey(l, m) : m \in liq[l].markets} IN
  /\ liq[l].pc = "send" /\ liq[l].left = {}
  /\ IF liq[l].failed
     THEN /\ cache' = [k \in Keys |-> IF k \in keys THEN None ELSE cache[k]]
          /\ Lose(l, keys, {k \in keys : BuiltOn(l, k)}, keys)
     ELSE UNCHANGED <<cache, owed, suspect>>
  /\ locks' = Release(l)
  /\ liq' = [liq EXCEPT ![l] = [pc |-> "done"]]
  /\ UNCHANGED <<sealed, bcast, queue, req, flush, pending, account, volume, faults,
                 stamp, landed, realized, forgiven, overtaken>>

----------------------------------------------------------------------------
(* The realized-PnL flush loop: drain, then one batch for all *)

BatchTx == [owner |-> Flusher, kind |-> "pnl", legs |-> <<>>, requirement |-> 0, batch |-> flush.batch]

\* Mutant: the queue is copied, not drained.
DrainKept ==
  /\ flush = Idle
  /\ pending # NoBatch
  /\ flush' = [pc |-> "send", batch |-> pending]
  /\ UNCHANGED <<pending, cache, locks, sealed, bcast, queue, req, liq, account, volume, faults,
                 history>>

Drain ==
  /\ flush = Idle
  /\ pending # NoBatch
  /\ flush' = [pc |-> "send", batch |-> pending]
  /\ pending' = NoBatch
  /\ UNCHANGED <<cache, locks, sealed, bcast, queue, req, liq, account, volume, faults, history>>

\* A batch that is refused is not queued again.
SendBatch ==
  /\ flush.pc = "send"
  /\ \/ Sent(Flusher, BatchTx) /\ flush' = [flush EXCEPT !.pc = "sent"]
     \/ Refused(Flusher, BatchTx) /\ flush' = Idle
  /\ UNCHANGED <<cache, locks, sealed, req, liq, pending, account, volume, history>>

ConfirmBatch ==
  /\ flush.pc = "sent"
  /\ Receipt(Flusher) \/ ReceiptLost(Flusher)
  /\ flush' = Idle
  /\ UNCHANGED <<cache, locks, sealed, queue, req, liq, pending, account, volume, history>>

----------------------------------------------------------------------------
(* The rest of the world *)

\* The time limit drops a handler at an await, with its locks; what it folded
\* stays in the cache, and only a transaction already sent still lands.
Dropped(p, waiting) ==
  /\ "timeout" \in FaultKinds /\ faults < MaxFaults /\ faults' = faults + 1
  /\ waiting
  /\ locks' = Release(p)
  /\ Lose(p, Keys, Keys, {})

DropOrder(r) ==
  /\ Dropped(r, req[r].pc \in {"match", "lock", "read"})
  /\ req' = [req EXCEPT ![r] = [pc |-> "dropped"]]
  /\ UNCHANGED <<cache, sealed, bcast, queue, liq, flush, pending, account, volume, stamp,
                 landed, realized, forgiven, overtaken>>

DropLiquidation(l) ==
  /\ Dropped(l, liq[l].pc \in {"lock", "read", "send", "sent"})
  /\ liq' = [liq EXCEPT ![l] = [pc |-> "done"]]
  /\ bcast' = IF bcast = l THEN Free ELSE bcast
  /\ UNCHANGED <<cache, sealed, queue, req, flush, pending, account, volume, stamp,
                 landed, realized, forgiven, overtaken>>

\* Everything in memory goes; the chain and what was sent to it stay.
Crash ==
  /\ "crash" \in FaultKinds /\ faults < MaxFaults /\ faults' = faults + 1
  /\ cache' = [k \in Keys |-> None]
  /\ locks' = [k \in Keys |-> Free]
  /\ bcast' = Free
  /\ req' = [r \in Orders |-> IF req[r] = Idle THEN Idle ELSE [pc |-> "dropped"]]
  /\ liq' = [l \in Liquidations |-> IF liq[l] = Idle THEN Idle ELSE [pc |-> "done"]]
  /\ flush' = Idle /\ pending' = NoBatch
  /\ owed' = [p \in Procs |-> [k \in Keys |-> IF k \in QueuedKeys(p) THEN owed[p][k] ELSE Nothing]]
  /\ suspect' = suspect \cup
       {k \in Keys : \E p \in Procs : k \in Touched(p) \ QueuedKeys(p) /\ Published(k, owed[p][k].stamp)}
  /\ UNCHANGED <<sealed, queue, account, volume, stamp, landed, realized, forgiven, overtaken>>

----------------------------------------------------------------------------
Opened(size) ==
  IF size = 0 THEN [params |-> Empty, coll |-> 0]
  ELSE LET tick == CHOOSE t \in Prices : \A u \in Prices : t <= u
           lev  == CHOOSE l \in Leverages : \A x \in Leverages : x <= l
           new  == apply_fill(FreshFold(lev), size > 0, tick, Mag(size), 0).st
       IN [params |-> ParamsOf(new), coll |-> new.coll]

Init ==
  /\ cache = [k \in Keys |-> None]
  /\ locks = [k \in Keys |-> Free]
  /\ \E open \in Openings : sealed = [k \in Keys |-> Opened(open[k])]
  /\ bcast = Free /\ queue = <<>>
  /\ req = [r \in Orders |-> Idle] /\ liq = [l \in Liquidations |-> Idle] /\ flush = Idle
  /\ pending = NoBatch /\ account = Deposit
  /\ volume = [t \in Traders |-> 0]
  /\ faults = 0
  /\ owed = [p \in Procs |-> NoOwed]
  /\ stamp = [k \in Keys |-> 0]
  /\ landed = [k \in Keys |-> [size |-> IF sealed[k].params = Empty THEN 0 ELSE sealed[k].params.size,
                                stamp |-> 0]]
  /\ realized = NoBatch /\ forgiven = NoBatch
  /\ overtaken = {} /\ suspect = {}

Order(r) == \/ Check(r) \/ Match(r) \/ Lock(r) \/ ReadChain(r) \/ Fold(r) \/ Leg(r) \/ Spawn(r)
            \/ SendSweep(r) \/ ConfirmSweep(r) \/ InvalidateSweep(r)
Liquidate(l) == \/ Discover(l) \/ LockNext(l) \/ ReadNext(l) \/ Size(l)
                \/ SendLiquidation(l) \/ ConfirmLiquidation(l) \/ FinishLiquidation(l)
Flush == Drain \/ SendBatch \/ ConfirmBatch

Next ==
  \/ \E r \in Orders : Order(r) \/ DropOrder(r)
  \/ \E l \in Liquidations : Liquidate(l) \/ DropLiquidation(l)
  \/ Flush \/ Mine \/ Crash

Spec == Init /\ [][Next]_vars

----------------------------------------------------------------------------
(* Properties *)

Holder(k) == locks[k] # Free
Settling(k) == \E p \in Procs : owed[p][k] # Nothing

TypeOK ==
  /\ DOMAIN cache = Keys /\ DOMAIN sealed = Keys
  /\ \A k \in Keys : cache[k] = None \/ cache[k].size # 0
  /\ \A k \in Keys : sealed[k].coll >= 0
  /\ locks \in [Keys -> Procs \cup {Free}]
  /\ bcast \in Procs \cup {Free}
  /\ faults \in 0..MaxFaults

\* "A running mirror of what the on-chain collateral will become once every
\* delta returned so far actually lands" (PositionFold): whatever the orders,
\* liquidations and mined transactions in between, a cached position has the
\* collateral of the chain plus what is still owed, and the size that landed
\* plus what is owed.  Left out are keys touched by one of the events that
\* break it: a chain read while a leg is in flight, a reopening over collateral
\* a flat close left behind, a failed read, a leg lost after someone built on it.
MirrorExact ==
  \A k \in Keys \ suspect : cache[k] # None =>
    /\ cache[k].coll = sealed[k].coll + OwedOn(k)
    /\ cache[k].size = landed[k].size + OwedSize(k)

\* Once nothing is in flight for a key, the sealed params on chain are the
\* position that all landed fills add up to, unless its settlements were mined
\* in another order than they were folded; and its collateral is never below 0.
ChainCatchesUp ==
  /\ TypeOK
  /\ \A k \in Keys \ (suspect \cup overtaken) : (~Settling(k) /\ ~Holder(k)) =>
       /\ landed[k].size = (IF sealed[k].params = Empty THEN 0 ELSE sealed[k].params.size)
       /\ cache[k] # None => cache[k] = loadSealed(sealed[k])

\* Realized PnL reaches Account.sol once: while nothing fails, what fills
\* realized is pending, in the batch, or in the balance (with what the floor
\* forgave), through any number of concurrent folds and flushes.
PnlOnce ==
  faults = 0 => \A t \in Traders :
    account[t] + pending[t] + (IF flush = Idle \/ (flush.pc = "sent" /\ ~InQueue(Flusher)) THEN 0 ELSE flush.batch[t])
      = Deposit[t] + realized[t] + forgiven[t]

\* p cannot go on before q does: q holds the position or the broadcast lock.
Waits(p, q) ==
  \/ p \in Orders /\ req[p].pc = "lock" /\ locks[KeyOf(req[p])] = q
  \/ p \in Orders /\ req[p].pc = "queued" /\ bcast = q
  \/ p \in Liquidations /\ liq[p].pc = "lock" /\ locks[LKey(p, NextMarket(p))] = q
  \/ p \in Liquidations /\ liq[p].pc = "send" /\ liq[p].left # {} /\ bcast = q
  \/ p = Flusher /\ flush.pc = "send" /\ bcast = q

\* No deadlock between fills, liquidations that take several locks, and the
\* broadcast lock: in any group of handlers one does not wait on the group.
NoWaitCycle ==
  \A group \in (SUBSET Procs) \ {{}} : \E p \in group : \A q \in group : ~Waits(p, q)

\* "Two fills against the SAME position can never both compute their
\* collateral_delta off the same stale starting state" (load_and_fold), with
\* nothing failing.
NeverFoldsStale ==
  faults = 0 => \A k \in Keys : cache[k] # None => cache[k].size = landed[k].size + OwedSize(k)
=============================================================================
