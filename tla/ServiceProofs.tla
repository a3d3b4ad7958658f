---------------------------- MODULE ServiceProofs ----------------------------
(***************************************************************************)
(* The services beside matching and settlement, for every set of signers,  *)
(* portfolios, markets and times: no nonce passes twice in one life, the   *)
(* readers of events miss none, the references are anchored in open hours, *)
(* the attested margin is that of the newest fill, the funding index       *)
(* follows the last readings, the tape keeps its young prints and its bars *)
(* hold them, a subscriber ends up with the book as it is, and the margin  *)
(* of a portfolio covers the box of its scenarios.                         *)
(***************************************************************************)
EXTENDS MCServices, FiniteSums, SequenceTheorems

-----------------------------------------------------------------------------
(* The replay table *)

\* A snapshot that waits to be written is of this life, hence below the floor.
SnapshotsBelowFloor ==
  /\ snap # NoTable => \A s \in Signers : snap[s] <= last_nonce[s]
  /\ phase = "flushing" => final = last_nonce

\* Until the flush of a shutdown overtakes it, a pending snapshot is no older
\* than what is on disk.
SnapshotsAboveDisk ==
  /\ flushed => phase = "stopped"
  /\ ~flushed /\ snap # NoTable => \A s \in Signers : snap[s] >= disk[s]

\* The inductive invariant: FloorCoversDisk needs that a pending snapshot lies
\* below the floor, OncePerLife that all used nonces do, and DiskNeverGoesBack
\* that a pending snapshot lies above the disk.
NonceInv ==
  /\ TypeOK /\ FloorCoversDisk /\ FloorCoversUsed /\ OncePerLife
  /\ SnapshotsBelowFloor /\ SnapshotsAboveDisk

\* The entries of a table are natural numbers.
LEMMA TableNat == \A t \in Table : \A s \in Signers : t[s] \in Nat
<1>1. Nonces \cup {0} \subseteq Nat
  BY NonceAssumption
<1> QED
  BY <1>1 DEF Table

\* The empty table and empty histories satisfy the invariant.
LEMMA NonceStart == Init => NonceInv
<1> SUFFICES ASSUME Init PROVE NonceInv
  OBVIOUS
<1>1. last_nonce \in Table /\ disk \in Table /\ \A s \in Signers : last_nonce[s] = 0 /\ disk[s] = 0
  BY DEF Init, Table
<1>2. /\ phase = "serving" /\ snap = NoTable /\ final = NoTable
      /\ used = {} /\ again = {} /\ flushed = FALSE
      /\ saves = 0 /\ shutdowns = 0 /\ crashes = 0
  BY DEF Init
<1>3. TypeOK
  BY <1>1, <1>2 DEF TypeOK
<1>4. FloorCoversDisk /\ FloorCoversUsed /\ SnapshotsBelowFloor /\ SnapshotsAboveDisk /\ OncePerLife
  BY <1>1, <1>2 DEF FloorCoversDisk, FloorCoversUsed, SnapshotsBelowFloor, SnapshotsAboveDisk, OncePerLife
<1> QED
  BY <1>3, <1>4 DEF NonceInv

\* A nonce that passes is above the floor, so it raises the floor and is new.
LEMMA PassInv ==
  ASSUME NonceInv, NEW s \in Signers, NEW n \in Nonces, Pass(s, n)
  PROVE  NonceInv'
<1>1. /\ n \in Nat /\ n > last_nonce[s]
      /\ last_nonce' = [last_nonce EXCEPT ![s] = n]
      /\ used' = used \cup {<<s, n>>}
      /\ again' = again \cup (used \cap {<<s, n>>})
      /\ UNCHANGED <<phase, disk, snap, final, flushed, saves, shutdowns, crashes>>
  BY NonceAssumption DEF Pass, Fresh, bounds
<1>2. \A t \in Signers : /\ last_nonce[t] \in Nat /\ disk[t] \in Nat
                         /\ last_nonce'[t] \in Nat /\ last_nonce[t] <= last_nonce'[t]
  <2>1. \A t \in Signers : last_nonce[t] \in Nat /\ disk[t] \in Nat
    BY TableNat DEF NonceInv, TypeOK
  <2>2. \A t \in Signers : last_nonce'[t] = IF t = s THEN n ELSE last_nonce[t]
    BY <1>1 DEF NonceInv, TypeOK, Table
  <2> QED
    BY <1>1, <2>1, <2>2
<1>3. TypeOK'
  BY <1>1 DEF NonceInv, TypeOK, Table
<1>4. FloorCoversDisk'
  BY <1>1, <1>2 DEF NonceInv, FloorCoversDisk
<1>5. FloorCoversUsed'
  <2> SUFFICES ASSUME NEW u \in used' PROVE u[2] <= last_nonce'[u[1]]
    BY DEF FloorCoversUsed
  <2>1. CASE u = <<s, n>>
    BY <2>1, <1>1 DEF NonceInv, TypeOK, Table
  <2>2. CASE u \in used
    <3>1. u[1] \in Signers /\ u[2] \in Nat
      BY <2>2, NonceAssumption DEF NonceInv, TypeOK
    <3> QED
      BY <2>2, <3>1, <1>2 DEF NonceInv, FloorCoversUsed
  <2> QED
    BY <2>1, <2>2, <1>1
<1>6. SnapshotsBelowFloor' /\ SnapshotsAboveDisk'
  <2>1. \A t \in Signers : snap # NoTable => snap[t] \in Nat
    BY TableNat DEF NonceInv, TypeOK
  <2>2. phase = "serving"
    BY DEF Pass
  <2> QED
    BY <1>1, <1>2, <2>1, <2>2 DEF NonceInv, SnapshotsBelowFloor, SnapshotsAboveDisk
<1>7. OncePerLife'
  <2>1. <<s, n>> \notin used
    <3> SUFFICES ASSUME <<s, n>> \in used PROVE FALSE
      OBVIOUS
    <3>1. n <= last_nonce[s]
      BY DEF NonceInv, FloorCoversUsed
    <3> QED
      BY <3>1, <1>1, <1>2
  <2> QED
    BY <2>1, <1>1 DEF NonceInv, OncePerLife
<1> QED
  BY <1>3, <1>4, <1>5, <1>6, <1>7 DEF NonceInv

\* A new life loads the disk's table, with nothing used and nothing pending.
LEMMA BootInv ==
  ASSUME NonceInv, Boot, saves' \in Nat, shutdowns' \in Nat, crashes' \in Nat
  PROVE  NonceInv'
<1>1. \A t \in Signers : disk[t] \in Nat
  BY TableNat DEF NonceInv, TypeOK
<1>2. TypeOK'
  BY DEF NonceInv, TypeOK, Boot, Loaded
<1>3. FloorCoversDisk'
  BY <1>1 DEF FloorCoversDisk, Boot, Loaded
<1>4. FloorCoversUsed' /\ SnapshotsBelowFloor' /\ SnapshotsAboveDisk' /\ OncePerLife'
  BY DEF NonceInv, FloorCoversUsed, SnapshotsBelowFloor, SnapshotsAboveDisk, OncePerLife, Boot
<1> QED
  BY <1>2, <1>3, <1>4 DEF NonceInv

\* Saving and shutting down move tables that lie below the floor.
LEMMA SavingInv ==
  ASSUME NonceInv, Snapshot \/ Write \/ Shutdown \/ Flush
  PROVE  NonceInv'
<1>1. \A t \in Signers : last_nonce[t] \in Nat /\ disk[t] \in Nat
  BY TableNat DEF NonceInv, TypeOK
<1>2. CASE Snapshot
  BY <1>1, <1>2 DEF NonceInv, TypeOK, FloorCoversDisk, FloorCoversUsed, SnapshotsBelowFloor, SnapshotsAboveDisk, OncePerLife, Snapshot
<1>3. CASE Write
  <2>1. /\ snap \in Table /\ snap # NoTable /\ disk' \in {snap, disk} /\ snap' = NoTable
        /\ UNCHANGED <<phase, last_nonce, final, used, again, flushed, saves, shutdowns, crashes>>
    BY <1>3 DEF Write, bounds, NonceInv, TypeOK
  <2>2. \A t \in Signers : snap[t] \in Nat /\ disk[t] \in Nat
    BY <2>1, TableNat DEF NonceInv, TypeOK
  <2>3. TypeOK'
    BY <2>1 DEF NonceInv, TypeOK
  <2>4. FloorCoversDisk'
    BY <1>1, <2>1, <2>2 DEF NonceInv, FloorCoversDisk, SnapshotsBelowFloor
  <2>5. FloorCoversUsed' /\ SnapshotsBelowFloor' /\ SnapshotsAboveDisk' /\ OncePerLife'
    BY <2>1 DEF NonceInv, FloorCoversUsed, SnapshotsBelowFloor, SnapshotsAboveDisk, OncePerLife
  <2> QED
    BY <2>3, <2>4, <2>5 DEF NonceInv
<1>4. CASE Shutdown
  BY <1>1, <1>4 DEF NonceInv, TypeOK, FloorCoversDisk, FloorCoversUsed, SnapshotsBelowFloor, SnapshotsAboveDisk, OncePerLife, Shutdown
<1>5. CASE Flush
  <2>1. /\ final = last_nonce /\ ~flushed /\ flushed' \in BOOLEAN
        /\ (flushed' \/ disk' = disk) /\ disk' \in {last_nonce, disk}
        /\ phase' = "stopped" /\ final' = NoTable
        /\ UNCHANGED <<last_nonce, snap, used, again, saves, shutdowns, crashes>>
    BY <1>5 DEF Flush, bounds, NonceInv, SnapshotsBelowFloor, SnapshotsAboveDisk
  <2>3. TypeOK'
    BY <2>1 DEF NonceInv, TypeOK
  <2>4. FloorCoversDisk'
    BY <1>1, <2>1 DEF NonceInv, FloorCoversDisk
  <2>5. FloorCoversUsed' /\ SnapshotsBelowFloor' /\ SnapshotsAboveDisk' /\ OncePerLife'
    BY <2>1 DEF NonceInv, FloorCoversUsed, SnapshotsBelowFloor, SnapshotsAboveDisk, OncePerLife
  <2> QED
    BY <2>3, <2>4, <2>5 DEF NonceInv
<1> QED
  BY <1>2, <1>3, <1>4, <1>5

\* Every step keeps the invariant.
LEMMA NonceStep == NonceInv /\ [Next]_vars => NonceInv'
<1> SUFFICES ASSUME NonceInv, [Next]_vars PROVE NonceInv'
  OBVIOUS
<1>1. ASSUME NEW s \in Signers, NEW n \in Nonces, Pass(s, n) PROVE NonceInv'
  BY <1>1, PassInv
<1>2. CASE Snapshot \/ Write \/ Shutdown \/ Flush
  BY <1>2, SavingInv
<1>3. CASE Restart
  BY <1>3, BootInv DEF Restart, bounds, NonceInv, TypeOK
<1>4. CASE Crash
  BY <1>4, BootInv DEF Crash, NonceInv, TypeOK
<1>5. CASE UNCHANGED vars
  BY <1>5 DEF vars, NonceInv, TypeOK, FloorCoversDisk, FloorCoversUsed, SnapshotsBelowFloor, SnapshotsAboveDisk,
                OncePerLife
<1> QED
  BY <1>1, <1>2, <1>3, <1>4, <1>5 DEF Next

\* Every reachable state satisfies the inductive invariant.
THEOREM NonceInvariance == Spec => []NonceInv
  BY NonceStart, NonceStep, PTL DEF Spec

\* The tables are well typed through every save, shutdown and crash.
THEOREM NonceTypes == Spec => []TypeOK
<1>1. NonceInv => TypeOK
  BY DEF NonceInv
<1> QED
  BY <1>1, NonceInvariance, PTL

\* The floor that handlers check is never below the table on disk.
THEOREM FloorHolds == Spec => []FloorCoversDisk
<1>1. NonceInv => FloorCoversDisk
  BY DEF NonceInv
<1> QED
  BY <1>1, NonceInvariance, PTL

\* No nonce passes twice in one life of the process.
THEOREM PassesOnce == Spec => []OncePerLife
<1>1. NonceInv => OncePerLife
  BY DEF NonceInv
<1> QED
  BY <1>1, NonceInvariance, PTL

\* Until the flush of a shutdown has gone through, no step replaces the table on
\* disk by an older one: only save writes it, and both snapshots lie above it.
THEOREM DiskOnlyGrows == Spec => DiskNeverGoesBack
<1> DEFINE Grows == flushed \/ \A s \in Signers : disk'[s] >= disk[s]
<1>1. ASSUME NonceInv, [Next]_vars PROVE [Grows]_vars
  <2>1. \A t \in Signers : disk[t] \in Nat /\ last_nonce[t] \in Nat
    BY <1>1, TableNat DEF NonceInv, TypeOK
  <2>2. CASE Write
    <3>1. snap # NoTable /\ disk' \in {snap, disk}
      BY <2>2 DEF Write
    <3> QED
      BY <1>1, <2>1, <3>1 DEF NonceInv, SnapshotsAboveDisk
  <2>3. CASE Flush
    <3>1. disk' \in {last_nonce, disk}
      BY <1>1, <2>3 DEF Flush, NonceInv, SnapshotsBelowFloor
    <3> QED
      BY <1>1, <2>1, <3>1 DEF NonceInv, FloorCoversDisk
  <2>4. CASE Snapshot \/ Shutdown \/ Restart \/ Crash \/ \E s \in Signers, n \in Nonces : Pass(s, n)
    <3>1. disk' = disk
      BY <2>4 DEF Snapshot, Shutdown, Restart, Crash, Boot, Pass
    <3> QED
      BY <2>1, <3>1
  <2> QED
    BY <1>1, <2>2, <2>3, <2>4 DEF Next
<1> QED
  BY <1>1, NonceInvariance, PTL DEF Spec, DiskNeverGoesBack

-----------------------------------------------------------------------------
(* Events in a range of blocks *)

Events(bs, from, to) == UNION {bs[n + 1] : n \in {k \in from..to : k < Len(bs)}}
Touched(bs, from, to) == {t \in Events(bs, from, to) : t[2] \in KnownMarkets}
OiKeys(bs, to) == {t[1] : t \in {e \in Events(bs, 0, to) : e[2] = OiMarket}}

LEMMA KnowsAllIs ==
  /\ KeeperKnowsAll <=> portfolios = Touched(blocks, StartBlock, last_scanned - 1)
  /\ KeeperKnowsAll' <=> portfolios' = Touched(blocks', StartBlock, last_scanned' - 1)
BY DEF KeeperKnowsAll, EventsIn, Events, Touched

LEMMA OiIs ==
  /\ OiIndexExact <=> OiKeys(blocks, oiNext - 1) \subseteq oiKeys /\ oiKeys \subseteq OiKeys(blocks, Len(blocks))
  /\ OiIndexExact' <=> /\ OiKeys(blocks', oiNext' - 1) \subseteq oiKeys'
                       /\ oiKeys' \subseteq OiKeys(blocks', Len(blocks'))
BY DEF OiIndexExact, EventsIn, Events, OiKeys

\* An event lies in a range of blocks when one of them, already mined, has it.
LEMMA EventIn ==
  ASSUME NEW bs, NEW from \in Int, NEW to \in Int, NEW t
  PROVE  t \in Events(bs, from, to) <=> \E k \in from..to : k < Len(bs) /\ t \in bs[k + 1]
BY DEF Events

\* Ranges that meet.
LEMMA EventsJoin ==
  ASSUME NEW bs, NEW from \in Int, NEW mid \in Int, NEW to \in Int, from <= mid, mid <= to + 1
  PROVE  Events(bs, from, to) = Events(bs, from, mid - 1) \cup Events(bs, mid, to)
<1>1. mid - 1 \in Int /\ \A k \in Int : k \in from..to <=> k \in from..mid - 1 \/ k \in mid..to
  OBVIOUS
<1>2. \A t : t \in Events(bs, from, to) <=> t \in Events(bs, from, mid - 1) \/ t \in Events(bs, mid, to)
  BY <1>1, EventIn
<1> QED BY <1>2

LEMMA EventsWithin ==
  ASSUME NEW bs, NEW from \in Int, NEW low \in Int, NEW high \in Int, low <= from,
         NEW to \in Int, to <= high
  PROVE  Events(bs, from, to) \subseteq Events(bs, low, high)
<1>1. \A k \in from..to : k \in low..high
  OBVIOUS
<1> QED BY <1>1, EventIn

\* A new block changes no range that ends before it.
LEMMA EventsMined ==
  ASSUME NEW bs \in Seq(SUBSET Touches), NEW touched \in SUBSET Touches,
         NEW from \in Nat, NEW to \in Int
  PROVE  LET cs == Append(bs, touched) IN
         /\ to < Len(bs) => Events(cs, from, to) = Events(bs, from, to)
         /\ Events(bs, from, to) \subseteq Events(cs, from, to)
         /\ Len(cs) = Len(bs) + 1 /\ cs \in Seq(SUBSET Touches) /\ Len(bs) \in Nat
<1> DEFINE cs == Append(bs, touched)
<1>1. /\ Len(cs) = Len(bs) + 1 /\ Len(bs) \in Nat /\ cs \in Seq(SUBSET Touches)
      /\ \A n \in 1..Len(bs) : cs[n] = bs[n]
  OBVIOUS
<1> HIDE DEF cs
<1>2. \A k \in from..to : k < Len(bs) => k < Len(cs) /\ cs[k + 1] = bs[k + 1]
  BY <1>1
<1>3. Events(bs, from, to) \subseteq Events(cs, from, to)
  BY <1>2, EventIn
<1>4. ASSUME to < Len(bs) PROVE Events(cs, from, to) \subseteq Events(bs, from, to)
  <2>1. \A k \in from..to : k < Len(bs)
    BY <1>1, <1>4
  <2> QED BY <1>2, <2>1, EventIn
<1> QED BY <1>1, <1>3, <1>4 DEF cs

-----------------------------------------------------------------------------
(* The keeper and the open interest index *)

\* Where the next scan starts is on the chain, or is the first block of all.
KeeperInv ==
  /\ blocks \in Seq(SUBSET Touches)
  /\ last_scanned \in Nat /\ StartBlock <= last_scanned
  /\ last_scanned = StartBlock \/ last_scanned <= Len(blocks)
  /\ oiNext \in Nat /\ oiNext <= Len(blocks)
  /\ KeeperKnowsAll /\ OiIndexExact

LEMMA KeeperStart == KeeperInit => KeeperInv
<1> SUFFICES ASSUME KeeperInit PROVE KeeperInv
  OBVIOUS
<1>1. blocks \in Seq(SUBSET Touches) /\ Len(blocks) = 0 /\ last_scanned = StartBlock /\ oiNext = 0
      /\ StartBlock \in Nat /\ portfolios = {} /\ oiKeys = {}
  BY KeepersAssumption DEF KeeperInit
<1>2. Events(blocks, StartBlock, StartBlock - 1) = {} /\ Events(blocks, 0, 0 - 1) = {}
  BY <1>1 DEF Events
<1>3. KeeperKnowsAll
  BY <1>1, <1>2, KnowsAllIs DEF Touched
<1>4. OiKeys(blocks, oiNext - 1) = {}
  BY <1>1, <1>2 DEF OiKeys
<1>5. OiIndexExact
  BY <1>1, <1>4, OiIs
<1> QED BY <1>1, <1>3, <1>5 DEF KeeperInv

LEMMA KeeperMine ==
  ASSUME KeeperInv, NEW touched \in SUBSET Touches, Mine(touched)
  PROVE  KeeperInv'
<1>1. /\ blocks' = Append(blocks, touched)
      /\ UNCHANGED <<portfolios, last_scanned, oiKeys, oiNext>>
  BY DEF Mine
<1>2. /\ blocks \in Seq(SUBSET Touches) /\ last_scanned \in Nat /\ oiNext \in Nat /\ StartBlock \in Nat
      /\ last_scanned - 1 \in Int /\ oiNext - 1 \in Int /\ 0 \in Nat
      /\ last_scanned = StartBlock \/ last_scanned <= Len(blocks)
      /\ oiNext <= Len(blocks)
  BY KeepersAssumption DEF KeeperInv
<1>3. Len(blocks') = Len(blocks) + 1 /\ blocks' \in Seq(SUBSET Touches) /\ Len(blocks) \in Nat
  BY <1>1, <1>2
<1>4. Events(blocks', StartBlock, last_scanned - 1) = Events(blocks, StartBlock, last_scanned - 1)
  <2>1. CASE last_scanned <= Len(blocks)
    <3>1. last_scanned - 1 < Len(blocks)
      BY <1>2, <1>3, <2>1
    <3> QED BY <1>1, <1>2, <3>1, EventsMined
  <2>2. CASE last_scanned = StartBlock
    <3>1. StartBlock..last_scanned - 1 = {}
      BY <1>2, <2>2
    <3> QED BY <3>1 DEF Events
  <2> QED BY <1>2, <2>1, <2>2
<1>5. Events(blocks', 0, oiNext - 1) = Events(blocks, 0, oiNext - 1)
  <2>1. oiNext - 1 < Len(blocks)
    BY <1>2, <1>3
  <2> QED BY <1>1, <1>2, <2>1, EventsMined
<1>6. Events(blocks, 0, Len(blocks)) \subseteq Events(blocks', 0, Len(blocks'))
  <2>1. Events(blocks, 0, Len(blocks)) \subseteq Events(blocks', 0, Len(blocks))
    BY <1>1, <1>2, <1>3, EventsMined
  <2>2. 0 \in Int /\ Len(blocks) \in Int /\ Len(blocks') \in Int /\ Len(blocks) <= Len(blocks') /\ 0 <= 0
    BY <1>3
  <2>3. Events(blocks', 0, Len(blocks)) \subseteq Events(blocks', 0, Len(blocks'))
    BY <2>2, EventsWithin
  <2> QED BY <2>1, <2>3
<1>7. KeeperKnowsAll'
  BY <1>1, <1>4, KnowsAllIs DEF KeeperInv, Touched
<1>8. OiIndexExact'
  <2>1. OiKeys(blocks', oiNext' - 1) = OiKeys(blocks, oiNext - 1)
    BY <1>1, <1>5 DEF OiKeys
  <2>2. OiKeys(blocks, Len(blocks)) \subseteq OiKeys(blocks', Len(blocks'))
    BY <1>6 DEF OiKeys
  <2> QED BY <1>1, <2>1, <2>2, OiIs DEF KeeperInv
<1>9. (last_scanned' = StartBlock \/ last_scanned' <= Len(blocks')) /\ oiNext' <= Len(blocks')
  BY <1>1, <1>2, <1>3
<1> QED BY <1>1, <1>3, <1>7, <1>8, <1>9 DEF KeeperInv

LEMMA KeeperScan ==
  ASSUME KeeperInv, NEW latest \in Latest, scan_new_events(latest)
  PROVE  KeeperInv' /\ ScanWithinCap
<1> DEFINE to == ScanTo(last_scanned, latest)
<1>1. /\ blocks \in Seq(SUBSET Touches) /\ last_scanned \in Nat /\ StartBlock \in Nat /\ StartBlock <= last_scanned
      /\ MAX_GET_LOGS_BLOCK_RANGE \in Nat \ {0} /\ latest \in Nat /\ latest < Len(blocks) /\ Len(blocks) \in Nat
  BY KeepersAssumption DEF KeeperInv, Latest
<1>2. UNCHANGED <<blocks, oiKeys, oiNext>>
  BY DEF scan_new_events
<1>3. OiIndexExact'
  BY <1>2, OiIs DEF KeeperInv
<1>4. CASE latest < last_scanned
  <2>1. UNCHANGED <<portfolios, last_scanned>>
    BY <1>4 DEF scan_new_events
  <2>2. KeeperKnowsAll'
    BY <1>2, <2>1, KnowsAllIs DEF KeeperInv
  <2>3. ScanWithinCap
    BY <1>1, <2>1 DEF ScanWithinCap
  <2> QED BY <1>2, <1>3, <2>1, <2>2, <2>3 DEF KeeperInv
<1>5. CASE ~(latest < last_scanned)
  <2>1. /\ portfolios' = portfolios \cup {t \in EventsIn(last_scanned, to) : t[2] \in KnownMarkets}
        /\ last_scanned' = to + 1
    BY <1>5 DEF scan_new_events, ResumeAt
  <2>2. to \in Int /\ last_scanned <= to /\ to <= latest /\ to <= last_scanned + MAX_GET_LOGS_BLOCK_RANGE - 1
    <3> DEFINE x == last_scanned + MAX_GET_LOGS_BLOCK_RANGE - 1
    <3>1. x \in Int /\ last_scanned <= x /\ latest \in Int /\ last_scanned <= latest
      BY <1>1, <1>5
    <3>2. to = Min({latest, x})
      BY DEF ScanTo
    <3> HIDE DEF x
    <3>3. Min({latest, x}) \in {latest, x} /\ Min({latest, x}) <= latest /\ Min({latest, x}) <= x
      BY <3>1, MinTwo
    <3> QED BY <3>1, <3>2, <3>3 DEF x
  <2> HIDE DEF to
  <2>3. Events(blocks, StartBlock, to) = Events(blocks, StartBlock, last_scanned - 1) \cup Events(blocks, last_scanned, to)
    BY <1>1, <2>2, EventsJoin
  <2>4. EventsIn(last_scanned, to) = Events(blocks, last_scanned, to)
    BY DEF EventsIn, Events
  <2>5. portfolios = {t \in Events(blocks, StartBlock, last_scanned - 1) : t[2] \in KnownMarkets}
    BY KnowsAllIs DEF KeeperInv, Touched
  <2>6. portfolios' = {t \in Events(blocks, StartBlock, to) : t[2] \in KnownMarkets}
    BY <2>1, <2>3, <2>4, <2>5
  <2>7. KeeperKnowsAll'
    <3>1. last_scanned' - 1 = to
      BY <2>1, <2>2
    <3> QED BY <1>2, <2>6, <3>1, KnowsAllIs DEF Touched
  <2>8. ScanWithinCap
    BY <1>1, <2>1, <2>2 DEF ScanWithinCap
  <2>9. last_scanned' \in Nat /\ StartBlock <= last_scanned' /\ last_scanned' <= Len(blocks)
    BY <1>1, <2>1, <2>2
  <2> QED BY <1>2, <1>3, <2>7, <2>8, <2>9 DEF KeeperInv
<1> QED BY <1>4, <1>5

LEMMA KeeperPoll ==
  ASSUME KeeperInv, NEW latest \in Latest, poll_open_interest(latest)
  PROVE  KeeperInv' /\ ScanWithinCap
<1>1. /\ blocks \in Seq(SUBSET Touches) /\ oiNext \in Nat /\ oiNext <= Len(blocks) /\ last_scanned \in Nat
      /\ latest \in Nat /\ latest < Len(blocks) /\ Len(blocks) \in Nat /\ 0 \in Int
      /\ MAX_GET_LOGS_BLOCK_RANGE \in Nat
  BY KeepersAssumption DEF KeeperInv, Latest
<1>2. /\ oiKeys' = oiKeys \cup {t[1] : t \in {e \in Events(blocks, oiNext, latest) : e[2] = OiMarket}}
      /\ oiNext' = latest + 1
      /\ UNCHANGED <<blocks, portfolios, last_scanned>>
  BY DEF poll_open_interest, OiResume, EventsIn, Events
<1>3. Events(blocks, 0, latest) \subseteq Events(blocks, 0, oiNext - 1) \cup Events(blocks, oiNext, latest)
  <2>1. CASE oiNext <= latest + 1
    BY <1>1, <2>1, EventsJoin
  <2>2. CASE ~(oiNext <= latest + 1)
    <3>1. latest <= oiNext - 1 /\ oiNext - 1 \in Int /\ latest \in Int /\ 0 <= 0
      BY <1>1, <2>2
    <3>2. Events(blocks, 0, latest) \subseteq Events(blocks, 0, oiNext - 1)
      BY <1>1, <3>1, EventsWithin
    <3> QED BY <3>2
  <2> QED BY <2>1, <2>2
<1>4. Events(blocks, oiNext, latest) \subseteq Events(blocks, 0, Len(blocks))
  BY <1>1, EventsWithin
<1>5. OiKeys(blocks, oiNext - 1) \subseteq oiKeys /\ oiKeys \subseteq OiKeys(blocks, Len(blocks))
  BY OiIs DEF KeeperInv
<1>6. OiKeys(blocks, latest) \subseteq oiKeys'
  BY <1>2, <1>3, <1>5 DEF OiKeys
<1>7. oiKeys' \subseteq OiKeys(blocks, Len(blocks))
  BY <1>2, <1>4, <1>5 DEF OiKeys
<1>8. OiIndexExact'
  <2>1. oiNext' - 1 = latest
    BY <1>1, <1>2
  <2> QED BY <1>2, <1>6, <1>7, <2>1, OiIs
<1>9. KeeperKnowsAll' /\ ScanWithinCap
  BY <1>1, <1>2, KnowsAllIs DEF KeeperInv, ScanWithinCap
<1>10. oiNext' \in Nat /\ oiNext' <= Len(blocks)
  BY <1>1, <1>2
<1> QED BY <1>2, <1>8, <1>9, <1>10 DEF KeeperInv

LEMMA KeeperAlone ==
  ASSUME KeeperInv, UNCHANGED <<blocks, portfolios, last_scanned, oiKeys, oiNext>>
  PROVE  KeeperInv' /\ ScanWithinCap
<1>1. KeeperKnowsAll' /\ OiIndexExact'
  BY KnowsAllIs, OiIs DEF KeeperInv
<1> QED BY <1>1, KeepersAssumption DEF KeeperInv, ScanWithinCap

LEMMA KeeperStep == KeeperInv /\ [KeeperNext]_keeperVars => KeeperInv' /\ ScanWithinCap
<1> SUFFICES ASSUME KeeperInv, [KeeperNext]_keeperVars PROVE KeeperInv' /\ ScanWithinCap
  OBVIOUS
<1>1. ASSUME NEW touched \in SUBSET Touches, Mine(touched) PROVE KeeperInv' /\ ScanWithinCap
  <2>1. ScanWithinCap
    BY <1>1, KeepersAssumption DEF Mine, KeeperInv, ScanWithinCap
  <2> QED BY <1>1, <2>1, KeeperMine
<1>2. ASSUME NEW p, check_and_liquidate(p) \/ Sinks(p) PROVE KeeperInv' /\ ScanWithinCap
  BY <1>2, KeeperAlone DEF check_and_liquidate, Sinks
<1>3. CASE NextTick \/ UNCHANGED keeperVars
  BY <1>3, KeeperAlone DEF NextTick, keeperVars
<1> QED BY <1>1, <1>2, <1>3, KeeperScan, KeeperPoll DEF KeeperNext

\* For every chain, every lag of the nodes and every cap: the keeper's scan
\* (keeper_liquidator.rs) knows exactly what was touched up to where it stands
\* and asks for no more blocks than allowed, and the index of open interest
\* (poll_open_interest) lacks no key before the block it reads next.
THEOREM ScannersNeverMiss == MCSpec => ScannersMissNothing
<1> DEFINE Misses == scenario = "keeper" => ScanWithinCap /\ KeeperKnowsAll' /\ OiIndexExact'
<1>1. MCInit => KeeperInv
  BY KeeperStart DEF MCInit
<1>2. [MCNext]_allVars => [KeeperNext]_keeperVars
  BY DEF MCNext, Only, allVars
<1>3. KeeperInv /\ [KeeperNext]_keeperVars => KeeperInv' /\ Misses
  BY KeeperStep DEF KeeperInv
<1> HIDE DEF Misses
<1>4. MCSpec => [][Misses]_keeperVars
  BY <1>1, <1>2, <1>3, PTL DEF MCSpec
<1> QED BY <1>4 DEF ScannersMissNothing, Misses

-----------------------------------------------------------------------------
(* The price pusher and its calendar *)

\* Weekdays and seconds of the day against the 48 hours after Friday 21:00.
LEMMA CalendarRight ==
  ASSUME NEW t \in Nat
  PROVE  fx_market_open_at(t) = InFxWeek(t)
<1> DEFINE day == t \div 8
           sec == t % 8
           week == day \div 7
           d == day % 7
           w == (day + 3) % 7
           x == (t - 15) % 56
<1>1. day \in Nat /\ sec \in 0..7 /\ t = 8 * day + sec
  OBVIOUS
<1> HIDE DEF day, sec
<1>2. week \in Nat /\ d \in 0..6 /\ day = 7 * week + d
  BY <1>1
<1>3. w = IF d < 4 THEN d + 3 ELSE d - 4
  BY <1>1, <1>2
<1> HIDE DEF week, d, w
<1>4. t - 15 = 56 * week + (8 * d + sec - 15)
  BY <1>1, <1>2
<1>5. x = IF 8 * d + sec < 15 THEN 8 * d + sec + 41 ELSE 8 * d + sec - 15
  BY <1>1, <1>2, <1>4
<1> HIDE DEF x
<1>6. InFxWeek(t) <=> x >= 16
  BY DEF InFxWeek, FirstClose, SECONDS_PER_DAY, FX_CLOSE_OPEN_UTC_SECONDS, x
<1>7. fx_market_open_at(t) <=> CASE w = 5 -> FALSE
                                 [] w = 4 -> sec < 7
                                 [] w = 6 -> sec >= 7
                                 [] OTHER -> TRUE
  BY DEF fx_market_open_at, Weekday, SECONDS_PER_DAY, FX_CLOSE_OPEN_UTC_SECONDS, w, day, sec
<1>8. fx_market_open_at(t) <=> InFxWeek(t)
  BY <1>1, <1>2, <1>3, <1>5, <1>6, <1>7
<1>9. fx_market_open_at(t) \in BOOLEAN /\ InFxWeek(t) \in BOOLEAN
  <2>1. fx_market_open_at(t) = TRUE \/ fx_market_open_at(t) = FALSE
    BY <1>1, <1>2, <1>3 DEF fx_market_open_at, Weekday, SECONDS_PER_DAY, FX_CLOSE_OPEN_UTC_SECONDS, w, day, sec
  <2>2. InFxWeek(t) = TRUE \/ InFxWeek(t) = FALSE
    BY DEF InFxWeek, FirstClose, SECONDS_PER_DAY, FX_CLOSE_OPEN_UTC_SECONDS
  <2> QED BY <2>1, <2>2
<1> QED BY <1>8, <1>9

\* A push knows when it began and what the calendar said then.
UnderWay(p) ==
  /\ p.step \in {"fetch", "send", "refresh"}
  /\ p.began \in Nat /\ p.began <= pushClock /\ p.open = fx_market_open_at(p.began)

\* What anchors a reference: a push that began in open hours, whose update, if
\* it landed, is on the chain by now.
Anchors(x) ==
  /\ x.began \in Nat /\ x.began <= pushClock /\ x.landed \in BOOLEAN
  /\ fx_market_open_at(x.began) /\ (x.landed => x.began <= onChain)

SoundAfloat(tx) ==
  \/ tx.call = "updatePriceFeeds" /\ tx.price \in Nat
  \/ tx.call = "refreshDiscoveryReference" /\ tx.market \in FxMarkets /\ Anchors(tx)

Anchored == [price : Nat, began : Nat, landed : BOOLEAN]

\* What a push carries from step to step was fetched after it began, and what is
\* afloat carries it on.
PushInv ==
  /\ pushClock \in Nat /\ onChain \in Nat \cup {Never}
  /\ push = NoPush \/ UnderWay(push)
  /\ push.step = "send" => push.price \in Nat /\ push.began <= push.price
  /\ push.step = "refresh" =>
       /\ push.landed \in BOOLEAN /\ (push.landed => push.began <= onChain)
       /\ push = [step |-> "refresh", began |-> push.began, open |-> push.open, landed |-> push.landed,
                  todo |-> push.todo]
  /\ \A tx \in afloat : SoundAfloat(tx)
  /\ reference \in [FxMarkets -> {Unanchored} \cup Anchored]
  /\ \A m \in FxMarkets : reference[m] # Unanchored =>
       /\ fx_market_open_at(reference[m].began)
       /\ reference[m].landed => reference[m].began <= reference[m].price
       /\ reference[m].began - MaxPriceAge <= reference[m].price

LEMMA PushStart == PushInit => PushInv
<1> SUFFICES ASSUME PushInit PROVE PushInv
  OBVIOUS
<1>1. \E t \in PushTimes : \A u \in PushTimes : t <= u
  BY PricePusherAssumption, LeastOf
<1>2. pushClock \in PushTimes
  BY <1>1 DEF PushInit
<1> QED BY <1>2, PricePusherAssumption DEF PushInit, PushInv, NoPush

\* Time passes and the price on chain gets newer: what is afloat stays sound.
LEMMA AfloatKept ==
  ASSUME PushInv, pushClock' \in Nat, pushClock <= pushClock', onChain' \in Nat \cup {Never}, onChain <= onChain',
         NEW tx, SoundAfloat(tx)
  PROVE  SoundAfloat(tx)'
<1>1. pushClock \in Nat /\ onChain \in Int /\ onChain' \in Int
  BY DEF PushInv, Never
<1> QED BY <1>1 DEF SoundAfloat, Anchors

LEMMA NewerIs ==
  ASSUME PushInv, NEW t \in Nat
  PROVE  Newer(t) \in Nat /\ onChain <= Newer(t) /\ t <= Newer(t)
BY DEF PushInv, Newer, Never

LEMMA PushElapses ==
  ASSUME PushInv, NEW t \in PushTimes, PushElapse(t)
  PROVE  PushInv'
<1>1. /\ t \in Nat /\ pushClock < t /\ pushClock' = t /\ UNCHANGED <<push, onChain, afloat, reference>>
  BY PricePusherAssumption DEF PushElapse
<1>2. \A tx \in afloat' : SoundAfloat(tx)'
  BY <1>1, AfloatKept DEF PushInv, Never
<1> QED BY <1>1, <1>2 DEF PushInv, UnderWay, NoPush

\* The push goes on without a transaction of its own.
LEMMA PushGoesOn ==
  ASSUME PushInv, BeginPush \/ FetchUpdate \/ EndPush
  PROVE  PushInv'
<1>1. UNCHANGED <<pushClock, onChain, afloat, reference>>
  BY DEF BeginPush, FetchUpdate, EndPush
<1>2. \A tx \in afloat' : SoundAfloat(tx)'
  BY <1>1 DEF PushInv, SoundAfloat, Anchors
<1>3. CASE BeginPush
  BY <1>1, <1>2, <1>3 DEF BeginPush, PushInv, UnderWay, NoPush
<1>4. CASE FetchUpdate
  BY <1>1, <1>2, <1>4 DEF FetchUpdate, PushInv, UnderWay, NoPush
<1>5. CASE EndPush
  BY <1>1, <1>2, <1>5 DEF EndPush, PushInv, UnderWay, NoPush
<1> QED BY <1>3, <1>4, <1>5

LEMMA PushSends ==
  ASSUME PushInv, SendUpdate
  PROVE  PushInv'
<1> DEFINE price == push.price
<1>1. /\ push.step = "send" /\ UNCHANGED <<pushClock, reference>>
      /\ price \in Nat /\ push.began <= price /\ UnderWay(push)
  BY DEF SendUpdate, PushInv, NoPush
<1> HIDE DEF price
<1>2. Newer(price) \in Nat /\ onChain <= Newer(price) /\ price <= Newer(price)
  BY <1>1, NewerIs
<1>3. onChain' \in Nat \cup {Never} /\ onChain <= onChain'
  BY <1>2 DEF SendUpdate, Receipt, PushInv, Never, price
<1>4. \A tx \in afloat : SoundAfloat(tx)'
  BY <1>1, <1>3, AfloatKept DEF PushInv
<1>5. \A tx \in afloat' : SoundAfloat(tx)'
  <2>1. afloat' = afloat \/ afloat' = afloat \cup {Update(push.price)}
    BY DEF SendUpdate, Receipt, Sent
  <2>2. ASSUME NEW p \in Nat, NEW tx, tx = Update(p) PROVE SoundAfloat(tx)'
    BY <2>2 DEF SoundAfloat, Update
  <2>3. push.price \in Nat
    BY <1>1 DEF price
  <2> QED BY <1>4, <2>1, <2>2, <2>3
<1>7. CASE push' = NoPush
  BY <1>1, <1>3, <1>5, <1>7 DEF PushInv, NoPush
<1>8. ASSUME NEW landed \in BOOLEAN, Receipt(landed), landed => onChain' = Newer(price) PROVE PushInv'
  <2>1. push' = [step |-> "refresh", began |-> push.began, open |-> push.open, landed |-> landed,
                 todo |-> FxMarkets]
    BY <1>8 DEF Receipt
  <2>2. landed => push.began <= onChain'
    BY <1>1, <1>2, <1>8 DEF UnderWay
  <2>3. /\ push'.step = "refresh" /\ push'.began = push.began /\ push'.open = push.open
        /\ push'.landed = landed /\ push'.todo = FxMarkets
    BY <2>1
  <2>4. UnderWay(push)'
    BY <1>1, <2>3 DEF UnderWay
  <2> QED BY <1>1, <1>3, <1>5, <2>1, <2>2, <2>3, <2>4 DEF PushInv
<1> QED BY <1>7, <1>8 DEF SendUpdate, price

LEMMA PushRefreshes ==
  ASSUME PushInv, NEW m \in FxMarkets, Refresh(m)
  PROVE  PushInv'
<1> DEFINE tx == Reanchor(m, push)
<1>1. /\ push.step = "refresh" /\ push.open /\ UnderWay(push) /\ UNCHANGED <<pushClock, onChain, reference>>
      /\ push.landed \in BOOLEAN /\ (push.landed => push.began <= onChain)
      /\ push = [step |-> "refresh", began |-> push.began, open |-> push.open, landed |-> push.landed,
                 todo |-> push.todo]
      /\ push' = [push EXCEPT !.todo = @ \ {m}]
      /\ afloat' \subseteq afloat \cup {tx}
  BY DEF Refresh, Refreshes, Sent, PushInv, NoPush
<1>2. SoundAfloat(tx)
  BY <1>1 DEF SoundAfloat, Anchors, Reanchor, UnderWay
<1> HIDE DEF tx
<1>3. \A x : SoundAfloat(x)' <=> SoundAfloat(x)
  BY <1>1 DEF SoundAfloat, Anchors
<1>4. push' = [step |-> "refresh", began |-> push.began, open |-> push.open, landed |-> push.landed,
               todo |-> push.todo \ {m}]
  BY <1>1
<1>5. UnderWay(push)' /\ push'.step = "refresh"
  BY <1>1, <1>4 DEF UnderWay
<1>6. \A x \in afloat' : SoundAfloat(x)'
  BY <1>1, <1>2, <1>3 DEF PushInv
<1> QED BY <1>1, <1>4, <1>5, <1>6 DEF PushInv

LEMMA UpdateLands ==
  ASSUME PushInv, NEW tx \in afloat, LandUpdate(tx)
  PROVE  PushInv'
<1>1. /\ tx.price \in Nat /\ afloat' = afloat \ {tx} /\ onChain' = Newer(tx.price)
      /\ UNCHANGED <<pushClock, push, reference>>
  BY DEF LandUpdate, PushInv, SoundAfloat
<1>2. onChain' \in Nat /\ onChain <= onChain'
  BY <1>1, NewerIs
<1>3. \A x \in afloat' : SoundAfloat(x)'
  BY <1>1, <1>2, AfloatKept DEF PushInv
<1>4. push.step = "refresh" /\ push.landed => push.began <= onChain'
  BY <1>2 DEF PushInv, UnderWay, NoPush, Never
<1> QED BY <1>1, <1>2, <1>3, <1>4 DEF PushInv, UnderWay

\* The reference moves to a price that the hub takes for live.
LEMMA RefreshLands ==
  ASSUME PushInv, NEW tx \in afloat, LandRefresh(tx)
  PROVE  PushInv'
<1> DEFINE anchor == [price |-> onChain, began |-> tx.began, landed |-> tx.landed]
           live == onChain # Never /\ ~(pushClock - onChain > MaxPriceAge)
<1>1. /\ tx.market \in FxMarkets /\ Anchors(tx) /\ afloat' = afloat \ {tx}
      /\ UNCHANGED <<pushClock, push, onChain>>
      /\ reference' = IF live THEN [reference EXCEPT ![tx.market] = anchor] ELSE reference
  BY DEF LandRefresh, PushInv, SoundAfloat
<1>2. \A x \in afloat' : SoundAfloat(x)'
  BY <1>1 DEF PushInv, SoundAfloat, Anchors
<1>3. live => /\ anchor \in Anchored /\ fx_market_open_at(anchor.began)
              /\ anchor.landed => anchor.began <= anchor.price
              /\ anchor.began - MaxPriceAge <= anchor.price
  BY <1>1, PricePusherAssumption DEF Anchors, Anchored, PushInv
<1> HIDE DEF anchor, live
<1>4. /\ reference' \in [FxMarkets -> {Unanchored} \cup Anchored]
      /\ \A m \in FxMarkets : reference'[m] # Unanchored =>
           /\ fx_market_open_at(reference'[m].began)
           /\ reference'[m].landed => reference'[m].began <= reference'[m].price
           /\ reference'[m].began - MaxPriceAge <= reference'[m].price
  BY <1>1, <1>3 DEF PushInv
<1> QED BY <1>1, <1>2, <1>4 DEF PushInv, UnderWay

LEMMA PushStep == PushInv /\ [PushNext]_pushVars => PushInv'
<1> SUFFICES ASSUME PushInv, [PushNext]_pushVars PROVE PushInv'
  OBVIOUS
<1>1. CASE UNCHANGED pushVars
  BY <1>1 DEF pushVars, PushInv, UnderWay, SoundAfloat, Anchors
<1> QED BY <1>1, PushElapses, PushGoesOn, PushSends, PushRefreshes, UpdateLands, RefreshLands DEF PushNext

\* At every time, on every set of markets and for every limit of staleness: the
\* calendar of market_hours.rs is the FX week, and the price keeper anchors a
\* reference only by a push that began in it, at a price fetched since, whichever
\* of its calls failed or landed late; after an update that was mined and
\* reverted, at one at most the limit older (push_once).
THEOREM ReferencesAnchored == MCSpec => []AnchoredInOpenHours
<1>1. MCInit => PushInv
  BY PushStart DEF MCInit
<1>2. [MCNext]_allVars => [PushNext]_pushVars
  BY DEF MCNext, Only, allVars
<1>3. PushInv => AnchoredInOpenHours
  <2> SUFFICES ASSUME PushInv PROVE CalendarExact /\ AnchoredByOpenPush
    BY DEF AnchoredInOpenHours
  <2>1. CalendarExact
    <3>1. \A t \in pushClock..pushClock + 14 * SECONDS_PER_DAY : t \in Nat
      BY DEF PushInv, SECONDS_PER_DAY
    <3> QED BY <3>1, CalendarRight DEF CalendarExact
  <2>2. ASSUME NEW m \in FxMarkets, reference[m] # Unanchored
        PROVE  /\ InFxWeek(reference[m].began)
               /\ reference[m].price >= IF reference[m].landed THEN reference[m].began
                                       ELSE reference[m].began - MaxPriceAge
    <3>1. reference[m] \in Anchored
      BY <2>2 DEF PushInv
    <3>2. /\ reference[m].price \in Nat /\ reference[m].began \in Nat /\ reference[m].landed \in BOOLEAN
          /\ fx_market_open_at(reference[m].began)
          /\ reference[m].landed => reference[m].began <= reference[m].price
          /\ reference[m].began - MaxPriceAge <= reference[m].price
      BY <2>2, <3>1 DEF PushInv, Anchored
    <3> QED BY <3>2, CalendarRight, PricePusherAssumption
  <2> QED BY <2>1, <2>2 DEF AnchoredByOpenPush
<1> QED BY <1>1, <1>2, <1>3, PushStep, PTL DEF MCSpec

-----------------------------------------------------------------------------
(* The attestations of one portfolio *)

Sizes == [m \in RiskMarkets |-> riskPosition[m]]

\* A task has read every market before it prices.
TaskOK(t) ==
  /\ t = [left |-> t.left, seen |-> t.seen, requirement |-> t.requirement]
  /\ t.left \subseteq RiskMarkets
  /\ t.seen = [m \in RiskMarkets |-> t.seen[m]]
  /\ t.requirement # Unread => t.left = {}

\* What the changes to a task come to.
LEMMA TaskChanges ==
  ASSUME NEW t, TaskOK(t), NEW x, NEW y
  PROVE  /\ [t EXCEPT !.left = x] = [left |-> x, seen |-> t.seen, requirement |-> t.requirement]
         /\ [t EXCEPT !.left = x, !.seen = y] = [left |-> x, seen |-> y, requirement |-> t.requirement]
         /\ [t EXCEPT !.requirement = x] = [left |-> t.left, seen |-> t.seen, requirement |-> x]
<1>1. PICK l, s, q : t = [left |-> l, seen |-> s, requirement |-> q]
  BY DEF TaskOK
<1>2. \A u : u = [t EXCEPT !.left = x] => u = [left |-> x, seen |-> s, requirement |-> q]
  BY <1>1
<1>3. \A u : u = [t EXCEPT !.left = x, !.seen = y] => u = [left |-> x, seen |-> y, requirement |-> q]
  <2> TAKE u
  <2> HAVE u = [t EXCEPT !.left = x, !.seen = y]
  <2> QED BY <1>1
<1>4. \A u : u = [t EXCEPT !.requirement = x] => u = [left |-> l, seen |-> s, requirement |-> x]
  BY <1>1
<1>5. t.left = l /\ t.seen = s /\ t.requirement = q
  BY <1>1
<1> QED BY <1>2, <1>3, <1>4, <1>5, Zenon

AttestTypes ==
  /\ fills \in Nat
  /\ DOMAIN attests \subseteq 1..fills
  /\ attests = [f \in DOMAIN attests |-> attests[f]]
  /\ \A f \in DOMAIN attests : TaskOK(attests[f])
  /\ attested.by \in 0..fills
  /\ riskPosition = Sizes /\ cached = [m \in RiskMarkets |-> cached[m]]
  /\ scenario # "attest" => fills = 0

\* A task is still to come for m, or nothing will attest what moved it.
Excused(m) == m \in unattested \/ Awaited(m)

\* The newest task, while it runs, has seen the positions as they are.
NewestRuns ==
  fills \in DOMAIN attests =>
    attestLost \/ \A m \in RiskMarkets \ attests[fills].left :
                    attests[fills].seen[m] = Held(m) \/ Excused(m)

\* Once it has ended, what stands is its own.
NewestEnded ==
  fills > 0 /\ fills \notin DOMAIN attests =>
    \/ attestLost
    \/ \A m \in RiskMarkets : Held(m) = 0 \/ Excused(m)
    \/ attested.by = fills /\ \A m \in RiskMarkets : attested.sizes[m] = Held(m) \/ Excused(m)

AttestInv == AttestTypes /\ NewestRuns /\ NewestEnded

LEMMA AttestStart == RiskInit /\ AttestInit => AttestInv
<1> SUFFICES ASSUME RiskInit, AttestInit PROVE AttestInv
  OBVIOUS
<1>1. DOMAIN attests = {} /\ fills = 0 /\ attested.by = 0 /\ attests = [f \in DOMAIN attests |-> attests[f]]
  BY DEF AttestInit
<1>2. riskPosition = Sizes /\ cached = [m \in RiskMarkets |-> cached[m]]
  BY DEF RiskInit, AttestInit, Nobody, Sizes
<1> QED BY <1>1, <1>2 DEF AttestInv, AttestTypes, NewestRuns, NewestEnded

LEMMA PositionsStay ==
  ASSUME UNCHANGED <<riskPosition, sweepVars>>
  PROVE  UNCHANGED cached /\ \A m : Held(m)' = Held(m) /\ Excused(m)' = Excused(m)
<1>1. UNCHANGED <<riskPosition, cached, sweeps, unattested>>
  BY DEF sweepVars
<1> QED BY <1>1 DEF Held, Excused, Awaited

\* The positions move under the tasks.
LEMMA AttestMoves ==
  ASSUME AttestInv, UNCHANGED <<scenario, taskVars>>,
         riskPosition' = Sizes', (cached = [m \in RiskMarkets |-> cached[m]])',
         \A m \in RiskMarkets : Held(m)' = Held(m) \/ Excused(m)',
         \A m \in RiskMarkets : Excused(m) => Excused(m)'
  PROVE  AttestInv'
<1>1. UNCHANGED <<scenario, attests, fills, attested, attestLost>>
  BY DEF taskVars
<1>2. AttestTypes'
  BY <1>1 DEF AttestInv, AttestTypes, TaskOK
<1>3. NewestRuns'
  <2> SUFFICES ASSUME fills \in DOMAIN attests, ~attestLost, NEW m \in RiskMarkets \ attests[fills].left
               PROVE  attests[fills].seen[m] = Held(m)' \/ Excused(m)'
    BY <1>1 DEF NewestRuns
  <2>1. attests[fills].seen[m] = Held(m) \/ Excused(m)
    BY DEF AttestInv, NewestRuns
  <2> QED BY <2>1
<1>4. NewestEnded'
  <2>1. CASE \A m \in RiskMarkets : Held(m) = 0 \/ Excused(m)
    <3>1. \A m \in RiskMarkets : Held(m)' = 0 \/ Excused(m)'
      BY <2>1
    <3> QED BY <3>1 DEF NewestEnded
  <2>2. CASE attested.by = fills /\ \A m \in RiskMarkets : attested.sizes[m] = Held(m) \/ Excused(m)
    <3>1. \A m \in RiskMarkets : attested.sizes[m] = Held(m)' \/ Excused(m)'
      BY <2>2
    <3> QED BY <1>1, <2>2, <3>1 DEF NewestEnded
  <2>3. CASE attestLost \/ fills \in DOMAIN attests \/ ~(fills > 0)
    BY <1>1, <2>3 DEF NewestEnded
  <2> QED BY <2>1, <2>2, <2>3 DEF AttestInv, NewestEnded
<1> QED BY <1>2, <1>3, <1>4 DEF AttestInv

\* A fold or a liquidation enters the cache.
LEMMA AttestFold ==
  ASSUME AttestInv, UNCHANGED scenario, NEW k \in RiskMarkets, NEW size \in FillSizes,
         Fold(k, size) \/ FoldLiquidation(k, size)
  PROVE  AttestInv'
<1>1. /\ cached' = [cached EXCEPT ![k] = size] /\ UNCHANGED <<riskPosition, taskVars>>
      /\ sweeps \subseteq sweeps' /\ unattested \subseteq unattested'
  BY DEF Fold, FoldLiquidation, riskVars
<1>2. Excused(k)'
  <2>1. CASE Fold(k, size)
    <3> DEFINE s == Sweep(folds', k, 0, "folded")
    <3>1. s \in sweeps' /\ s.market = k /\ s.stage = "folded"
      BY <2>1 DEF Fold, Sweep
    <3> QED BY <3>1 DEF Excused, Awaited
  <2>2. CASE FoldLiquidation(k, size)
    BY <2>2 DEF FoldLiquidation, Excused
  <2> QED BY <2>1, <2>2
<1>3. \A m \in RiskMarkets : Excused(m) => Excused(m)'
  BY <1>1 DEF Excused, Awaited
<1>4. (cached = [m \in RiskMarkets |-> cached[m]])' /\ riskPosition' = Sizes'
      /\ \A m \in RiskMarkets : m # k => cached'[m] = cached[m]
  BY <1>1 DEF AttestInv, AttestTypes, Sizes
<1>5. \A m \in RiskMarkets : Held(m)' = Held(m) \/ Excused(m)'
  BY <1>1, <1>2, <1>4 DEF Held
<1> QED BY <1>1, <1>3, <1>4, <1>5, AttestMoves

\* A settlement under way is sealed, dropped, mined or given up.
LEMMA AttestSweep ==
  ASSUME AttestInv, UNCHANGED scenario, NEW s \in sweeps,
         Seal(s) \/ Drop(s) \/ MineSweep(s) \/ FailedBroadcast(s)
  PROVE  AttestInv'
<1>1. /\ UNCHANGED taskVars /\ unattested \subseteq unattested'
      /\ \A t \in sweeps : t # s => t \in sweeps'
      /\ riskPosition' = riskPosition \/ riskPosition' = [riskPosition EXCEPT ![s.market] = s.size]
      /\ cached' = cached \/ cached' = [cached EXCEPT ![s.market] = 0]
  BY DEF Seal, Drop, MineSweep, FailedBroadcast, Becomes, riskVars
<1>2. s.market \in unattested' \/ (UNCHANGED <<riskPosition, cached>> /\ Awaited(s.market)') \/
      (UNCHANGED cached /\ Awaited(s.market)')
  <2>1. CASE Seal(s)
    <3> DEFINE t == Sweep(s.id, s.market, cached[s.market], "sealed")
    <3>1. t \in sweeps' /\ t.market = s.market /\ t.stage = "sealed" /\ UNCHANGED <<riskPosition, cached>>
      BY <2>1 DEF Seal, Becomes, Sweep, riskVars
    <3> QED BY <3>1 DEF Awaited
  <2>2. CASE MineSweep(s) /\ s.stage = "sealed"
    <3> DEFINE t == Restaged(s, "mined")
    <3>1. t \in sweeps' /\ t.market = s.market /\ t.stage = "mined" /\ UNCHANGED cached
      BY <2>2 DEF MineSweep, Becomes, Restaged, Sweep
    <3> QED BY <3>1 DEF Awaited
  <2>3. CASE MineSweep(s) /\ s.stage # "sealed"
    BY <2>3 DEF MineSweep
  <2>4. CASE Drop(s) \/ FailedBroadcast(s)
    BY <2>4 DEF Drop, FailedBroadcast
  <2> QED BY <2>1, <2>2, <2>3, <2>4
<1>3. Excused(s.market)'
  BY <1>2 DEF Excused
<1>4. ASSUME NEW m \in RiskMarkets, Excused(m) PROVE Excused(m)'
  <2>1. CASE m = s.market
    BY <1>3, <2>1
  <2>2. CASE m # s.market
    BY <1>1, <1>4, <2>2 DEF Excused, Awaited
  <2> QED BY <2>1, <2>2
<1>5. /\ (cached = [m \in RiskMarkets |-> cached[m]])' /\ riskPosition' = Sizes'
      /\ \A m \in RiskMarkets : m # s.market => cached'[m] = cached[m] /\ riskPosition'[m] = riskPosition[m]
  BY <1>1 DEF AttestInv, AttestTypes, Sizes
<1>6. \A m \in RiskMarkets : Held(m)' = Held(m) \/ Excused(m)'
  BY <1>3, <1>5 DEF Held
<1> QED BY <1>1, <1>4, <1>5, <1>6, AttestMoves

LEMMA AttestLanded ==
  ASSUME AttestInv, scenario' = "attest", NEW s \in sweeps, Landed(s)
  PROVE  AttestInv'
<1> DEFINE fresh == [left |-> RiskMarkets, seen |-> Nobody, requirement |-> Unread]
<1>1. /\ fills' = fills + 1 /\ UNCHANGED <<attested, riskPosition, cached>>
      /\ attests' = [f \in DOMAIN attests \cup {fills + 1} |-> IF f \in DOMAIN attests THEN attests[f] ELSE fresh]
  BY DEF Landed, riskVars
<1>2. TaskOK(fresh) /\ fresh.left = RiskMarkets
  BY DEF TaskOK, Nobody
<1> HIDE DEF fresh
<1>3. fills \in Nat /\ DOMAIN attests \subseteq 1..fills /\ attested.by \in 0..fills
  BY DEF AttestInv, AttestTypes
<1>4. /\ fills' \in Nat /\ fills' \notin DOMAIN attests
      /\ DOMAIN attests' = DOMAIN attests \cup {fills'} /\ DOMAIN attests' \subseteq 1..fills'
      /\ attested'.by \in 0..fills'
  BY <1>1, <1>3
<1>5. /\ attests' = [f \in DOMAIN attests' |-> attests'[f]] /\ attests'[fills'] = fresh
      /\ \A f \in DOMAIN attests' : TaskOK(attests'[f])
  BY <1>1, <1>2, <1>4 DEF AttestInv, AttestTypes
<1>6. riskPosition' = Sizes' /\ (cached = [m \in RiskMarkets |-> cached[m]])'
  BY <1>1 DEF AttestInv, AttestTypes, Sizes
<1>7. AttestTypes'
  BY <1>4, <1>5, <1>6 DEF AttestTypes, TaskOK
<1> QED BY <1>2, <1>4, <1>5, <1>7 DEF AttestInv, NewestRuns, NewestEnded

LEMMA AttestRead ==
  ASSUME AttestInv, UNCHANGED scenario, NEW f \in DOMAIN attests, NEW k \in RiskMarkets, ReadMarket(f, k)
  PROVE  AttestInv'
<1> DEFINE t == attests[f]
           rest == t.left \ {k}
           read == [t.seen EXCEPT ![k] = Held(k)]
           task == [left |-> rest, seen |-> read, requirement |-> t.requirement]
           skip == [left |-> rest, seen |-> t.seen, requirement |-> t.requirement]
<1>1. /\ k \in t.left /\ fills' = fills /\ attested' = attested /\ UNCHANGED <<riskPosition, sweepVars>>
      /\ attests = [g \in DOMAIN attests |-> attests[g]]
      /\ fills \in Nat /\ DOMAIN attests \subseteq 1..fills
  BY DEF ReadMarket, riskVars, AttestInv, AttestTypes
<1>0. UNCHANGED cached /\ \A m : Held(m)' = Held(m) /\ Excused(m)' = Excused(m)
  BY <1>1, PositionsStay
<1>2. TaskOK(t)
  BY DEF AttestInv, AttestTypes
<1>3. \/ attests' = [attests EXCEPT ![f] = task] /\ attestLost' = attestLost
      \/ attests' = [attests EXCEPT ![f] = skip] /\ attestLost' = (attestLost \/ f = fills)
  <2>1. CASE /\ attests' = [attests EXCEPT ![f].left = @ \ {k}, ![f].seen[k] = LoadMarket(k)]
             /\ UNCHANGED attestLost
    <3>1. [t EXCEPT !.left = rest, !.seen = read] = task
      BY <1>2, TaskChanges
    <3>2. attests' = [attests EXCEPT ![f] = [t EXCEPT !.left = rest, !.seen = read]]
      BY <1>1, <2>1 DEF LoadMarket
    <3>3. attests' = [attests EXCEPT ![f] = task]
      BY <3>1, <3>2
    <3> QED BY <2>1, <3>3
  <2>2. CASE /\ attests' = [attests EXCEPT ![f].left = @ \ {k}]
             /\ attestLost' = (attestLost \/ f = fills)
    <3>1. [t EXCEPT !.left = @ \ {k}] = skip
      BY <1>2, TaskChanges
    <3>2. attests' = [attests EXCEPT ![f] = skip]
      BY <2>2, <3>1
    <3> QED BY <2>2, <3>2
  <2> QED BY <2>1, <2>2 DEF ReadMarket
<1>4. TaskOK(task) /\ TaskOK(skip)
  BY <1>1, <1>2 DEF TaskOK
<1>5. /\ task.left = rest /\ task.seen[k] = Held(k)
      /\ \A m \in RiskMarkets \ {k} : task.seen[m] = t.seen[m]
  BY <1>2 DEF TaskOK
<1> HIDE DEF task, skip
<1>6. DOMAIN attests' = DOMAIN attests /\ attests' = [g \in DOMAIN attests' |-> attests'[g]]
      /\ \A g \in DOMAIN attests : g # f => attests'[g] = attests[g]
  BY <1>1, <1>3
<1>7. AttestTypes'
  <2>1. attests'[f] \in {task, skip}
    BY <1>1, <1>3
  <2>2. \A g \in DOMAIN attests' : TaskOK(attests'[g])
    BY <1>4, <1>6, <2>1 DEF AttestInv, AttestTypes
  <2>3. riskPosition' = Sizes'
    BY <1>1 DEF AttestInv, AttestTypes, Sizes
  <2> QED BY <1>0, <1>1, <1>6, <2>2, <2>3 DEF AttestInv, AttestTypes, TaskOK
<1>8. NewestRuns'
  <2> SUFFICES ASSUME fills \in DOMAIN attests, ~attestLost'
               PROVE  \A m \in RiskMarkets \ attests'[fills].left :
                        attests'[fills].seen[m] = Held(m) \/ Excused(m)
    BY <1>0, <1>1, <1>6 DEF NewestRuns
  <2>1. ~attestLost
    BY <1>3
  <2>2. \A m \in RiskMarkets \ attests[fills].left : attests[fills].seen[m] = Held(m) \/ Excused(m)
    BY <2>1 DEF AttestInv, NewestRuns
  <2>3. CASE f # fills
    BY <1>6, <2>2, <2>3
  <2>4. CASE f = fills
    <3>1. attests'[fills] = task
      BY <1>1, <1>3, <2>4
    <3> QED BY <1>5, <2>2, <2>4, <3>1
  <2> QED BY <2>3, <2>4
<1>9. NewestEnded'
  BY <1>0, <1>1, <1>3, <1>6 DEF AttestInv, NewestEnded
<1> QED BY <1>7, <1>8, <1>9 DEF AttestInv

\* A task ends: the others stay as they are.
LEMMA TaskEnds ==
  ASSUME AttestInv, UNCHANGED <<scenario, fills, riskPosition, cached>>, NEW f \in DOMAIN attests, Ended(f),
         attested'.by \in 0..fills
  PROVE  AttestTypes' /\ DOMAIN attests' = DOMAIN attests \ {f}
         /\ \A g \in DOMAIN attests \ {f} : attests'[g] = attests[g]
<1>1. attests' = [g \in DOMAIN attests \ {f} |-> attests[g]]
  BY DEF Ended
<1>2. DOMAIN attests' = DOMAIN attests \ {f} /\ attests' = [g \in DOMAIN attests' |-> attests'[g]]
      /\ \A g \in DOMAIN attests \ {f} : attests'[g] = attests[g]
  BY <1>1
<1>3. \A g \in DOMAIN attests' : TaskOK(attests'[g])
  BY <1>2 DEF AttestInv, AttestTypes
<1>4. riskPosition' = Sizes'
  BY DEF AttestInv, AttestTypes, Sizes
<1> QED BY <1>2, <1>3, <1>4 DEF AttestInv, AttestTypes, TaskOK

LEMMA AttestPrice ==
  ASSUME AttestInv, UNCHANGED scenario, NEW f \in DOMAIN attests, Price(f)
  PROVE  AttestInv'
<1> DEFINE t == attests[f]
           value == current_margin_requirement(t.seen, [m \in RiskMarkets |-> MarkOrEntry(m)])
           task == [left |-> t.left, seen |-> t.seen, requirement |-> value]
<1>1. /\ t.left = {} /\ UNCHANGED <<fills, attested, attestLost, riskPosition, sweepVars>>
      /\ TaskOK(t) /\ fills \in Nat /\ attested.by \in 0..fills /\ DOMAIN attests \subseteq 1..fills
      /\ attests = [g \in DOMAIN attests |-> attests[g]] /\ riskPosition = Sizes
  BY DEF Price, riskVars, AttestInv, AttestTypes
<1>0. UNCHANGED cached /\ \A m : Held(m)' = Held(m) /\ Excused(m)' = Excused(m)
  BY <1>1, PositionsStay
<1>2. CASE t.seen = Nobody
  <2>1. Ended(f)
    BY <1>2 DEF Price
  <2>2. AttestTypes' /\ DOMAIN attests' = DOMAIN attests \ {f}
        /\ \A g \in DOMAIN attests \ {f} : attests'[g] = attests[g]
    BY <1>0, <1>1, <2>1, TaskEnds
  <2>3. NewestRuns'
    BY <1>0, <1>1, <2>2 DEF AttestInv, NewestRuns
  <2>4. NewestEnded'
    <3>1. CASE f # fills
      BY <1>0, <1>1, <2>2, <3>1 DEF AttestInv, NewestEnded
    <3>2. CASE f = fills
      <4>1. attestLost \/ \A m \in RiskMarkets : Held(m) = 0 \/ Excused(m)
        BY <1>1, <1>2, <3>2 DEF AttestInv, NewestRuns, Nobody
      <4> QED BY <1>0, <1>1, <4>1 DEF NewestEnded
    <3> QED BY <3>1, <3>2
  <2> QED BY <2>2, <2>3, <2>4 DEF AttestInv
<1>3. CASE t.seen # Nobody
  <2>1. attests' = [attests EXCEPT ![f].requirement = value]
    BY <1>3 DEF Price
  <2> HIDE DEF value
  <2>2. [t EXCEPT !.requirement = value] = task
    BY <1>1, TaskChanges
  <2>3. attests' = [attests EXCEPT ![f] = task]
    BY <2>1, <2>2
  <2>4. TaskOK(task) /\ task.left = t.left /\ task.seen = t.seen
    BY <1>1 DEF TaskOK
  <2> HIDE DEF task
  <2>5. /\ DOMAIN attests' = DOMAIN attests /\ attests' = [g \in DOMAIN attests' |-> attests'[g]]
        /\ attests'[f] = task /\ \A g \in DOMAIN attests : g # f => attests'[g] = attests[g]
    BY <1>1, <2>3
  <2>6. \A g \in DOMAIN attests' : TaskOK(attests'[g])
    BY <2>4, <2>5 DEF AttestInv, AttestTypes
  <2>7. riskPosition' = Sizes'
    BY <1>1 DEF Sizes
  <2>8. AttestTypes'
    BY <1>0, <1>1, <2>5, <2>6, <2>7 DEF AttestInv, AttestTypes, TaskOK
  <2>9. \A g \in DOMAIN attests : attests'[g].left = attests[g].left /\ attests'[g].seen = attests[g].seen
    BY <2>4, <2>5
  <2>10. NewestRuns' /\ NewestEnded'
    BY <1>0, <1>1, <2>5, <2>9 DEF AttestInv, NewestRuns, NewestEnded
  <2> QED BY <2>8, <2>10 DEF AttestInv
<1> QED BY <1>2, <1>3

LEMMA AttestSubmit ==
  ASSUME AttestInv, UNCHANGED scenario, NEW f \in DOMAIN attests, SubmitMargin(f)
  PROVE  AttestInv'
<1>1. /\ attests[f].requirement # Unread /\ Ended(f) /\ UNCHANGED <<fills, riskPosition, sweepVars>>
      /\ TaskOK(attests[f]) /\ fills \in Nat /\ attested.by \in 0..fills /\ DOMAIN attests \subseteq 1..fills
  BY DEF SubmitMargin, riskVars, AttestInv, AttestTypes
<1>0. UNCHANGED cached /\ \A m : Held(m)' = Held(m) /\ Excused(m)' = Excused(m)
  BY <1>1, PositionsStay
<1>2. \/ attested'.by = f /\ attested'.sizes = attests[f].seen /\ attestLost' = (attestLost \/ f < attested.by)
      \/ attested' = attested /\ attestLost' = (attestLost \/ f = fills)
  BY DEF SubmitMargin
<1>3. AttestTypes' /\ DOMAIN attests' = DOMAIN attests \ {f}
      /\ \A g \in DOMAIN attests \ {f} : attests'[g] = attests[g]
  <2>1. attested'.by \in 0..fills
    BY <1>1, <1>2
  <2> QED BY <1>0, <1>1, <2>1, TaskEnds
<1>4. attestLost => attestLost'
  BY <1>2
<1>5. NewestRuns'
  BY <1>0, <1>1, <1>3, <1>4 DEF AttestInv, NewestRuns
<1>6. NewestEnded'
  <2> DEFINE Right == /\ attested'.by = fills
                      /\ \A m \in RiskMarkets : attested'.sizes[m] = Held(m) \/ Excused(m)
             Flat == \A m \in RiskMarkets : Held(m) = 0 \/ Excused(m)
  <2> SUFFICES ASSUME ~attestLost', fills > 0, fills \notin DOMAIN attests', ~Flat
               PROVE  Right
    BY <1>0, <1>1 DEF NewestEnded
  <2>1. CASE f = fills
    <3>1. attested'.by = f /\ attested'.sizes = attests[f].seen
      BY <1>2, <2>1
    <3>2. \A m \in RiskMarkets : attests[f].seen[m] = Held(m) \/ Excused(m)
      BY <1>1, <1>4, <2>1 DEF AttestInv, NewestRuns, TaskOK
    <3> QED BY <2>1, <3>1, <3>2
  <2>2. CASE f # fills
    <3>1. attested.by = fills /\ \A m \in RiskMarkets : attested.sizes[m] = Held(m) \/ Excused(m)
      BY <1>3, <1>4, <2>2 DEF AttestInv, NewestEnded
    <3>2. f < attested.by
      BY <1>1, <2>2, <3>1
    <3> QED BY <1>2, <3>1, <3>2
  <2> QED BY <2>1, <2>2
<1> QED BY <1>3, <1>5, <1>6 DEF AttestInv

\* Nothing of it moves, or only the positions before the first fill.
LEMMA AttestAlone ==
  ASSUME AttestInv, UNCHANGED <<scenario, attestVars>>,
         riskPosition' = Sizes', riskPosition' = riskPosition \/ scenario # "attest"
  PROVE  AttestInv'
<1>1. UNCHANGED <<cached, sweeps, unattested, attests, fills, attested, attestLost>>
  BY DEF attestVars, sweepVars, taskVars
<1>2. AttestTypes'
  BY <1>1 DEF AttestInv, AttestTypes, TaskOK
<1>3. CASE riskPosition' = riskPosition
  <2>1. \A m : Held(m)' = Held(m) /\ Excused(m)' = Excused(m)
    BY <1>1, <1>3 DEF Held, Excused, Awaited
  <2> QED BY <1>1, <1>2, <2>1 DEF AttestInv, NewestRuns, NewestEnded
<1>4. CASE scenario # "attest"
  <2>1. fills = 0 /\ DOMAIN attests = {}
    BY <1>4 DEF AttestInv, AttestTypes
  <2> QED BY <1>1, <1>2, <2>1 DEF AttestInv, NewestRuns, NewestEnded
<1> QED BY <1>3, <1>4

LEMMA AttestStep == AttestInv /\ [MCNext]_allVars => AttestInv'
<1> SUFFICES ASSUME AttestInv, [MCNext]_allVars PROVE AttestInv'
  OBVIOUS
<1>1. CASE scenario = "attest" /\ UNCHANGED scenario /\ AttestNext
  <2>1. ASSUME NEW m \in RiskMarkets, NEW n \in FillSizes, Fold(m, n) \/ FoldLiquidation(m, n) PROVE AttestInv'
    BY <1>1, <2>1, AttestFold
  <2>2. ASSUME NEW s \in sweeps, Seal(s) \/ Drop(s) \/ MineSweep(s) \/ FailedBroadcast(s) PROVE AttestInv'
    BY <1>1, <2>2, AttestSweep
  <2>3. ASSUME NEW s \in sweeps, Landed(s) PROVE AttestInv'
    BY <1>1, <2>3, AttestLanded
  <2>4. ASSUME NEW p, live_mark_prices(p) PROVE AttestInv'
    <3>1. UNCHANGED <<riskPosition, attestVars>>
      BY <2>4 DEF live_mark_prices, MarksMove
    <3>2. riskPosition' = Sizes'
      BY <3>1 DEF AttestInv, AttestTypes, Sizes
    <3> QED BY <1>1, <3>1, <3>2, AttestAlone
  <2> QED BY <1>1, <2>1, <2>2, <2>3, <2>4, AttestRead, AttestPrice, AttestSubmit DEF AttestNext
<1>2. CASE scenario = "risk" /\ UNCHANGED <<attestVars, scenario>> /\ RiskNext
  <2>1. riskPosition' = Sizes'
    <3>1. ASSUME NEW m, NEW n, Trade(m, n) PROVE riskPosition' = Sizes'
      BY <3>1 DEF Trade, AttestInv, AttestTypes, Sizes
    <3>2. ASSUME UNCHANGED riskPosition PROVE riskPosition' = Sizes'
      BY <3>2 DEF AttestInv, AttestTypes, Sizes
    <3> QED BY <1>2, <3>1, <3>2 DEF RiskNext, MarksMove, Deposit, Withdraw
  <2> QED BY <1>2, <2>1, AttestAlone
<1>3. CASE UNCHANGED <<riskVars, attestVars, scenario>>
  <2>1. riskPosition' = Sizes' /\ riskPosition' = riskPosition
    BY <1>3 DEF riskVars, AttestInv, AttestTypes, Sizes
  <2> QED BY <1>3, <2>1, AttestAlone
<1> QED BY <1>1, <1>2, <1>3 DEF MCNext, Only, allVars

\* For every number of markets and of folds, and every order in which broadcasts
\* land, fail, come late or are dropped and the tasks of successive landings read
\* cache and chain, price and submit: once they have ended, the requirement in
\* RiskMonitor.sol was computed from the positions as the matcher has them, except
\* where the code of attest_portfolio_margin leaves an older one.
THEOREM AttestationsCurrent == MCSpec => []AttestationCurrent
<1>1. MCInit => AttestInv
  BY AttestStart DEF MCInit
<1>2. AttestInv => AttestationCurrent
  <2>1. attests = [f \in {} |-> 0] => DOMAIN attests = {}
    OBVIOUS
  <2> QED BY <2>1 DEF AttestInv, AttestTypes, NewestEnded, Excused, AttestationCurrent
<1> QED BY <1>1, <1>2, AttestStep, PTL DEF MCSpec

-----------------------------------------------------------------------------
(* The native funding index *)

\* What the last w elements of a sequence are, and that dropping the ones before
\* them does not show once another is appended.
LEMMA LastOfIs ==
  ASSUME NEW s \in Seq(Int), NEW w \in Nat \ {0}
  PROVE  LET from == IF Len(s) <= w THEN 1 ELSE Len(s) - w + 1
         IN /\ LastOf(s, w) = SubSeq(s, from, Len(s))
            /\ LastOf(s, w) \in Seq(Int)
            /\ Len(LastOf(s, w)) = Len(s) - from + 1
            /\ \A i \in 1..Len(s) - from + 1 : LastOf(s, w)[i] = s[from + i - 1]
<1> DEFINE n == Len(s)
           from == IF n <= w THEN 1 ELSE n - w + 1
           one == 1
           m == Max({one, n - w + 1})
<1>1. n \in Nat /\ n - w + 1 \in Int /\ one \in Int /\ s \in [1..n -> Int]
  BY LenProperties
<1>2. m \in {one, n - w + 1} /\ one <= m /\ n - w + 1 <= m
  <2> HIDE DEF one, n
  <2> QED BY <1>1, MaxTwo
<1>3. m = from /\ from \in Int /\ from >= 1 /\ from <= n + 1
  BY <1>1, <1>2
<1>4. LastOf(s, w) = SubSeq(s, from, n)
  BY <1>3 DEF LastOf
<1>5. \A i \in from..n : s[i] \in Int
  BY <1>1, <1>3
<1> HIDE DEF from, n
<1>6. /\ SubSeq(s, from, n) \in Seq(Int)
      /\ Len(SubSeq(s, from, n)) = IF from <= n THEN n - from + 1 ELSE 0
      /\ \A i \in 1..n - from + 1 : SubSeq(s, from, n)[i] = s[from + i - 1]
  BY <1>1, <1>3, <1>5, SubSeqProperties
<1>7. (IF from <= n THEN n - from + 1 ELSE 0) = n - from + 1
  BY <1>1, <1>3
<1> QED BY <1>4, <1>6, <1>7 DEF from, n

LEMMA AppendIs ==
  ASSUME NEW s \in Seq(Int), NEW x \in Int
  PROVE  /\ Append(s, x) \in Seq(Int) /\ Len(Append(s, x)) = Len(s) + 1 /\ Append(s, x)[Len(s) + 1] = x
         /\ \A i \in 1..Len(s) : Append(s, x)[i] = s[i]
OBVIOUS

LEMMA LastOfAppend ==
  ASSUME NEW s \in Seq(Int), NEW w \in Nat \ {0}, NEW x \in Int
  PROVE  /\ LastOf(Append(LastOf(s, w), x), w) = LastOf(Append(s, x), w)
         /\ LastOf(Append(s, x), w) \in Seq(Int)
         /\ Len(LastOf(Append(s, x), w)) \in Nat \ {0}
<1> DEFINE n == Len(s)
           from == IF n <= w THEN 1 ELSE n - w + 1
           t == LastOf(s, w)
           ax == Append(s, x)
           tx == Append(t, x)
           fa == IF Len(ax) <= w THEN 1 ELSE Len(ax) - w + 1
           ft == IF Len(tx) <= w THEN 1 ELSE Len(tx) - w + 1
           l == LastOf(tx, w)
           r == LastOf(ax, w)
<1>1. n \in Nat /\ from \in Nat /\ from >= 1 /\ from <= n + 1
  BY LenProperties
<1>2. t \in Seq(Int) /\ Len(t) = n - from + 1 /\ \A i \in 1..n - from + 1 : t[i] = s[from + i - 1]
  BY LastOfIs
<1>3. ax \in Seq(Int) /\ Len(ax) = n + 1 /\ ax[n + 1] = x /\ \A i \in 1..n : ax[i] = s[i]
  BY AppendIs
<1>4. tx \in Seq(Int) /\ Len(tx) = Len(t) + 1 /\ tx[Len(t) + 1] = x /\ \A i \in 1..Len(t) : tx[i] = t[i]
  BY <1>2, AppendIs
<1>5. r \in Seq(Int) /\ Len(r) = Len(ax) - fa + 1 /\ \A i \in 1..Len(ax) - fa + 1 : r[i] = ax[fa + i - 1]
  BY <1>3, LastOfIs
<1>6. l \in Seq(Int) /\ Len(l) = Len(tx) - ft + 1 /\ \A i \in 1..Len(tx) - ft + 1 : l[i] = tx[ft + i - 1]
  BY <1>4, LastOfIs
<1> HIDE DEF t, ax, tx, l, r, n
<1>7. /\ n + 1 <= w => from = 1 /\ fa = 1 /\ ft = 1
      /\ ~(n + 1 <= w) => from = n - w + 1 /\ fa = n - w + 2 /\ ft = 2
  <2>1. n \in Nat /\ Len(ax) = n + 1 /\ Len(tx) = n - from + 2
    BY <1>1, <1>2, <1>3, <1>4
  <2>2. /\ n + 1 <= w => from = 1 /\ fa = 1
        /\ ~(n + 1 <= w) => from = n - w + 1 /\ fa = n - w + 2
    BY <2>1
  <2>3. /\ n + 1 <= w => ft = 1
        /\ ~(n + 1 <= w) => ft = 2
    BY <2>1, <2>2
  <2> QED BY <2>1, <2>2, <2>3
<1> HIDE DEF from, fa, ft
<1>8. Len(l) = Len(r) /\ Len(r) \in Nat \ {0} /\ fa \in Nat \ {0} /\ ft \in Nat \ {0} /\ fa = ft + from - 1
  <2>1. /\ Len(ax) = n + 1 /\ Len(t) = n - from + 1 /\ Len(tx) = Len(t) + 1
        /\ Len(r) = Len(ax) - fa + 1 /\ Len(l) = Len(tx) - ft + 1
    BY <1>2, <1>3, <1>4, <1>5, <1>6
  <2>2. CASE n + 1 <= w
    BY <1>1, <1>7, <2>1, <2>2
  <2>3. CASE ~(n + 1 <= w)
    BY <1>1, <1>7, <2>1, <2>3
  <2> QED BY <2>2, <2>3
<1>9. ASSUME NEW i \in 1..Len(l) PROVE l[i] = r[i]
  <2>1. /\ i \in 1..Len(tx) - ft + 1 /\ i \in 1..Len(ax) - fa + 1
        /\ l[i] = tx[ft + i - 1] /\ r[i] = ax[fa + i - 1]
    BY <1>5, <1>6, <1>8
  <2>0. Len(t) = n - from + 1 /\ i \in Nat
    BY <1>2, <2>1
  <2>2. CASE ft + i - 1 = Len(t) + 1
    <3>1. fa + i - 1 = n + 1
      BY <1>1, <1>8, <2>0, <2>2
    <3> QED BY <2>1, <2>2, <3>1, <1>3, <1>4
  <2>3. CASE ft + i - 1 # Len(t) + 1
    <3> DEFINE j == ft + i - 1
    <3>0. Len(tx) = Len(t) + 1 /\ i <= Len(tx) - ft + 1 /\ Len(t) \in Nat
      BY <1>1, <1>4, <2>0, <2>1
    <3>1. j \in 1..Len(t) /\ j \in 1..n - from + 1
      BY <1>8, <2>0, <2>3, <3>0
    <3>2. from + j - 1 = fa + i - 1 /\ fa + i - 1 \in 1..n
      BY <1>1, <1>8, <3>1
    <3> QED BY <1>2, <1>3, <1>4, <2>1, <3>1, <3>2
  <2> QED BY <2>2, <2>3
<1>10. l = r
  BY <1>5, <1>6, <1>8, <1>9, SeqEqual
<1> QED BY <1>5, <1>8, <1>10 DEF l, r, t, ax, tx, n

\* The clamp of f64.
LEMMA ClampIs ==
  ASSUME NEW x \in Int, NEW most \in Nat
  PROVE  /\ ClampRate(x, most) = IF x > most THEN most ELSE IF x < -most THEN -most ELSE x
         /\ ClampRate(x, most) \in Int /\ -most <= ClampRate(x, most) /\ ClampRate(x, most) <= most
<1> DEFINE low == 0 - most
           m == Min({x, most})
           c == Max({low, m})
<1>1. low \in Int /\ low = -most /\ low <= 0
  OBVIOUS
<1>2. m \in {x, most} /\ m <= x /\ m <= most
  BY MinTwo
<1> HIDE DEF low, m
<1>3. m \in Int
  BY <1>2
<1>4. c \in {low, m} /\ low <= c /\ m <= c
  BY <1>1, <1>3, MaxTwo
<1>5. ClampRate(x, most) = c
  BY <1>1 DEF ClampRate, m
<1> HIDE DEF c
<1> QED BY <1>1, <1>2, <1>3, <1>4, <1>5

MostRate == FUNDING_RATE_CLAMP_BPS * RATE_UNIT
MostMid == Max(BookMids)

\* The caps are naturals and no middle is above the highest.
LEMMA Mosts ==
  /\ MostRate \in Nat /\ MostMid \in Nat /\ MostRate * MostMid \in Nat
  /\ \A mid \in BookMids \cup {NoMid} : mid \in 0..MostMid
<1>1. MostRate \in Nat
  BY FundingAssumption DEF MostRate
<1>2. PICK x \in BookMids : \A y \in BookMids : y <= x
  BY FundingAssumption, GreatestOf, Zenon
<1>3. \E z \in BookMids : \A y \in BookMids : z >= y
  BY <1>2, FundingAssumption
<1>4. MostMid \in BookMids /\ \A y \in BookMids : MostMid >= y
  BY <1>3, Zenon DEF MostMid, Max
<1>5. MostMid \in Nat /\ \A mid \in BookMids \cup {NoMid} : mid \in 0..MostMid
  BY <1>4, FundingAssumption DEF NoMid
<1> QED BY <1>1, <1>5

\* The smoothed rate is the clamped mean, and an integer within the clamp.
LEMMA SmoothedIs ==
  ASSUME NEW s \in Seq(Int), Len(s) \in Nat \ {0}
  PROVE  /\ Smoothed(s) = LET mean == (SumOf(s) * RATE_UNIT) \div Len(s)
                          IN IF mean > MostRate THEN MostRate ELSE IF mean < -MostRate THEN -MostRate ELSE mean
         /\ Smoothed(s) \in Int /\ -MostRate <= Smoothed(s) /\ Smoothed(s) <= MostRate
<1> DEFINE sum == SumOf(s)
           mean == (sum * RATE_UNIT) \div Len(s)
<1>1. sum \in Int
  <2>1. s \in [1..Len(s) -> Int] /\ DOMAIN s = 1..Len(s)
    BY LenProperties
  <2>2. IsFiniteSet(1..Len(s)) /\ \A i \in 1..Len(s) : s[i] \in Int
    BY <2>1, FS_Interval
  <2>3. SumFunctionOnSet(s, 1..Len(s)) \in Int
    BY <2>2, SumInt, Zenon
  <2> QED BY <2>1, <2>3 DEF SumOf, SumFunction
<1>2. Smoothed(s) = ClampRate(mean, MostRate)
  BY DEF Smoothed, MostRate
<1> HIDE DEF sum
<1>3. sum * RATE_UNIT \in Int
  BY <1>1, FundingAssumption
<1>4. mean \in Int
  BY <1>3
<1> HIDE DEF mean
<1>5. /\ ClampRate(mean, MostRate) = IF mean > MostRate THEN MostRate ELSE IF mean < -MostRate THEN -MostRate ELSE mean
      /\ ClampRate(mean, MostRate) \in Int
      /\ -MostRate <= ClampRate(mean, MostRate) /\ ClampRate(mean, MostRate) <= MostRate
  BY <1>4, Mosts, ClampIs
<1> QED BY <1>2, <1>5 DEF mean, sum

Entries == [index : Int, at : Int, rate : Int]

Since(entry) == IF entry = NoIndex THEN 0 ELSE entry.at
Owed(entry, opened) == entry.index - opened.index

\* Floor division of naturals, without the division.
LEMMA FlooredIs ==
  ASSUME NEW n \in Nat, NEW d \in Nat \ {0}
  PROVE  n \div d \in Nat /\ (n \div d) * d <= n /\ n < (n \div d) * d + d
OBVIOUS

\* What is rounded is off by at most half a unit.
LEMMA RoundedNear ==
  ASSUME NEW x \in Int, NEW y \in Nat \ {0}
  PROVE  /\ Rounded(x, y) \in Int /\ Rounded(x, y) * y \in Int /\ (x >= 0 => Rounded(x, y) \in Nat)
         /\ 2 * (Rounded(x, y) * y - x) <= y /\ 2 * (x - Rounded(x, y) * y) <= y
<1> DEFINE n == IF x >= 0 THEN x ELSE -x
           d == 2 * y
           q == (2 * n + y) \div d
<1>1. n \in Nat /\ d \in Nat \ {0} /\ 2 * n + y \in Nat
  OBVIOUS
<1>2. Rounded(x, y) = IF x >= 0 THEN q ELSE -q
  BY DEF Rounded
<1>3. q \in Nat /\ q * d <= 2 * n + y /\ 2 * n + y < q * d + d
  <2> HIDE DEF n, d
  <2> QED BY <1>1, FlooredIs
<1>4. n = IF x >= 0 THEN x ELSE -x
  OBVIOUS
<1> HIDE DEF q, n
<1> DEFINE p == q * y
<1>5. p \in Nat /\ q * d = 2 * p /\ (-q) * y = -p
  BY <1>3
<1> HIDE DEF p
<1>6. 2 * p <= 2 * n + y /\ 2 * n + y < 2 * p + 2 * y
  BY <1>3, <1>5
<1>7. Rounded(x, y) * y = IF x >= 0 THEN p ELSE -p
  BY <1>2, <1>5 DEF p
<1> QED BY <1>1, <1>2, <1>3, <1>4, <1>5, <1>6, <1>7

\* premiums is the tail of all readings; the rate in force comes from it; what a
\* position owes is within the clamp for the time since it opened.
NativeInv ==
  /\ hermes.stage = "answered" => hermes.price \in PythPrices \cup {NoBody}
  /\ bookMid \in BookMids \cup {NoMid}
  /\ fundingClock \in Nat
  /\ readings \in Seq(Int) /\ premiums = LastOf(readings, FUNDING_PREMIUM_WINDOW)
  /\ native \in Entries /\ openedWith \in Entries /\ -MostRate <= native.rate /\ native.rate <= MostRate
  /\ readings = <<>> => native = NoIndex
  /\ readings # <<>> => native.at \in 0..fundingClock /\ native.rate = Smoothed(premiums)
  /\ openedWith = NoIndex \/ openedWith.at \in 0..native.at
  /\ entry_funding_index = Rounded(openedWith.index, INDEX_UNIT)
  /\ native # NoIndex =>
       /\ Owed(native, openedWith) <= MostRate * MostMid * (native.at - Since(openedWith))
       /\ -Owed(native, openedWith) <= MostRate * MostMid * (native.at - Since(openedWith))

LEMMA NativeStart == NativeInit => NativeInv
<1> SUFFICES ASSUME NativeInit PROVE NativeInv
  OBVIOUS
<1> DEFINE none == <<>>
<1>1. none \in Seq(Int) /\ Len(none) = 0
  OBVIOUS
<1>2. LastOf(none, FUNDING_PREMIUM_WINDOW) \in Seq(Int) /\ Len(LastOf(none, FUNDING_PREMIUM_WINDOW)) = 0
  <2>1. FUNDING_PREMIUM_WINDOW \in Nat \ {0}
    BY FundingAssumption
  <2> HIDE DEF none
  <2> DEFINE from == IF Len(none) <= FUNDING_PREMIUM_WINDOW THEN 1 ELSE Len(none) - FUNDING_PREMIUM_WINDOW + 1
             l == LastOf(none, FUNDING_PREMIUM_WINDOW)
  <2>2. l \in Seq(Int) /\ Len(l) = Len(none) - from + 1
    BY <1>1, <2>1, LastOfIs
  <2>3. from = 1
    BY <1>1, <2>1
  <2> HIDE DEF l, from
  <2> QED BY <1>1, <2>2, <2>3 DEF l
<1>3. LastOf(none, FUNDING_PREMIUM_WINDOW) = none
  BY <1>2
<1>4. NoIndex \in Entries
  BY DEF NoIndex, Entries
<1>5. NoIndex.rate = 0 /\ MostRate \in Nat
  BY Mosts DEF NoIndex
<1>6. Rounded(NoIndex.index, INDEX_UNIT) = 0
  <2>1. /\ Rounded(0, INDEX_UNIT) \in Nat /\ 2 * (Rounded(0, INDEX_UNIT) * INDEX_UNIT - 0) <= INDEX_UNIT
        /\ INDEX_UNIT \in Nat \ {0}
    BY RoundedNear, FundingAssumption
  <2> DEFINE z == Rounded(0, INDEX_UNIT)
  <2> HIDE DEF z
  <2>2. z > 0 => z * INDEX_UNIT >= INDEX_UNIT
    BY <2>1 DEF z
  <2>3. z = 0
    BY <2>1, <2>2 DEF z
  <2> QED BY <2>3 DEF z, NoIndex
<1> QED BY <1>1, <1>3, <1>4, <1>5, <1>6 DEF NativeInit, NativeInv, Waiting, NoMid

LEMMA OracleTick ==
  ASSUME NEW price \in Int
  PROVE  pyth_price_to_tick(price) \in Nat
<1>1. CASE price <= 0
  BY <1>1 DEF pyth_price_to_tick
<1>2. CASE price > 0
  BY <1>2, RoundedNear, FundingAssumption DEF pyth_price_to_tick
<1> QED BY <1>1, <1>2

LEMMA PremiumInt ==
  ASSUME NEW oracle \in Nat \ {0}, bookMid \in Nat
  PROVE  raw_premium_bps(oracle) \in Int
<1> DEFINE x == (bookMid - oracle) * FUNDING_BPS
<1>1. x \in Int
  BY DEF FUNDING_BPS
<1> HIDE DEF x
<1>2. x \div oracle \in Int /\ (-x) \div oracle \in Int
  BY <1>1
<1> QED BY <1>2 DEF raw_premium_bps, Trunc, x

\* A poll charges what elapsed at the rate before, within the clamp, and smooths
\* over the last readings with the new one among them.
LEMMA PollKeeps ==
  ASSUME NativeInv, poll_funding_native
  PROVE  NativeInv'
<1> DEFINE oracle == IF hermes.price = NoBody THEN 0 ELSE pyth_price_to_tick(hermes.price)
           premium == raw_premium_bps(oracle)
           samples == LastOf(Append(premiums, premium), FUNDING_PREMIUM_WINDOW)
           rate == Smoothed(samples)
<1>0. /\ hermes.stage = "answered" /\ hermes' = Waiting
      /\ UNCHANGED <<bookMid, fundingClock, position>>
  BY DEF poll_funding_native
<1>1. hermes'.stage # "answered"
  BY <1>0 DEF Waiting
<1>2. hermes.price \in PythPrices \cup {NoBody} /\ oracle \in Nat
  <2>1. hermes.price \in PythPrices \cup {NoBody}
    BY <1>0 DEF NativeInv
  <2>2. hermes.price # NoBody => hermes.price \in Int
    BY <2>1, FundingAssumption
  <2> QED BY <2>1, <2>2, OracleTick
<1> HIDE DEF oracle
<1>3. CASE oracle = 0 \/ bookMid = NoMid
  <2>1. UNCHANGED <<premiums, native, readings>>
    BY <1>3 DEF poll_funding_native, oracle
  <2> QED BY <1>0, <1>1, <2>1 DEF NativeInv, position
<1>4. CASE ~(oracle = 0 \/ bookMid = NoMid)
  <2>1. bookMid \in Nat /\ bookMid \in 0..MostMid /\ premium \in Int
    <3>1. bookMid \in Nat /\ bookMid \in 0..MostMid
      BY Mosts DEF NativeInv
    <3> QED BY <1>2, <1>4, <3>1, PremiumInt
  <2>2. /\ premiums' = samples /\ readings' = Append(readings, premium)
        /\ native' = IF native = NoIndex THEN [index |-> 0, at |-> fundingClock, rate |-> rate]
                     ELSE Accrued(native, rate)
    BY <1>4 DEF poll_funding_native, oracle
  <2> HIDE DEF premium
  <2>3. /\ samples = LastOf(Append(readings, premium), FUNDING_PREMIUM_WINDOW)
        /\ samples \in Seq(Int) /\ Len(samples) \in Nat \ {0}
    BY <2>1, FundingAssumption, LastOfAppend DEF NativeInv
  <2> HIDE DEF samples
  <2>4. rate \in Int /\ -MostRate <= rate /\ rate <= MostRate
    BY <2>3, SmoothedIs
  <2>5. readings' \in Seq(Int) /\ readings' # <<>> /\ premiums' = LastOf(readings', FUNDING_PREMIUM_WINDOW)
    BY <2>1, <2>2, <2>3 DEF NativeInv
  <2>6. rate = Smoothed(premiums')
    BY <2>2
  <2> HIDE DEF rate
  <2>7. /\ native' \in Entries /\ native'.at = fundingClock /\ native'.rate = rate
        /\ openedWith = NoIndex \/ openedWith.at \in 0..fundingClock
        /\ Owed(native', openedWith) <= MostRate * MostMid * (fundingClock - Since(openedWith))
        /\ -Owed(native', openedWith) <= MostRate * MostMid * (fundingClock - Since(openedWith))
    <3>1. CASE native = NoIndex
      <4>1. openedWith = NoIndex
        BY <3>1 DEF NativeInv, NoIndex
      <4>2. native' = [index |-> 0, at |-> fundingClock, rate |-> rate]
        BY <2>2, <3>1
      <4>3. Owed(native', openedWith) = 0 /\ Since(openedWith) = 0
        BY <4>1, <4>2 DEF Owed, Since, NoIndex
      <4>4. MostRate * MostMid * (fundingClock - 0) >= 0
        <5> DEFINE most == MostRate * MostMid
        <5>1. most \in Nat /\ fundingClock \in Nat
          BY Mosts DEF NativeInv
        <5> HIDE DEF most
        <5>2. most * (fundingClock - 0) >= 0
          BY <5>1
        <5> QED BY <5>2 DEF most
      <4>5. fundingClock \in Nat
        BY DEF NativeInv
      <4> QED BY <2>4, <4>1, <4>2, <4>3, <4>4, <4>5 DEF Entries
    <3>2. CASE native # NoIndex
      <4>1. native' = Accrued(native, rate)
        BY <2>2, <3>2
      <4>2. /\ native.at \in 0..fundingClock /\ native.rate = Smoothed(premiums)
            /\ native \in Entries /\ openedWith \in Entries /\ fundingClock \in Nat
            /\ openedWith = NoIndex \/ openedWith.at \in 0..native.at
            /\ -MostRate <= native.rate /\ native.rate <= MostRate
            /\ Owed(native, openedWith) <= MostRate * MostMid * (native.at - Since(openedWith))
            /\ -Owed(native, openedWith) <= MostRate * MostMid * (native.at - Since(openedWith))
        BY <3>2 DEF NativeInv
      <4> DEFINE most == MostRate * MostMid
                 r == native.rate * bookMid
                 n == fundingClock - native.at
                 k == native.at - Since(openedWith)
                 d == Owed(native, openedWith)
      <4>3. native.rate \in Int /\ native.index \in Int /\ openedWith.index \in Int
        BY <4>2 DEF Entries
      <4>4. most \in Nat /\ r \in Int /\ -most <= r /\ r <= most
        <5>1. MostRate \in Nat /\ MostMid \in Nat
          BY Mosts
        <5> QED BY <2>1, <4>2, <4>3, <5>1, ProductWithin
      <4>5. n \in Nat /\ k \in Nat /\ d \in Int /\ n + k = fundingClock - Since(openedWith)
        BY <4>2, <4>3 DEF Owed, Since
      <4>6. native'.at = fundingClock /\ native'.rate = rate /\ native'.index = native.index + r * n
        BY <4>1 DEF Accrued
      <4>7. native' = [index |-> native.index + r * n, at |-> fundingClock, rate |-> rate]
        BY <4>1 DEF Accrued
      <4> HIDE DEF most, r, n, k
      <4>8. d <= most * k /\ -d <= most * k
        BY <4>2 DEF most, k
      <4> HIDE DEF d
      <4>9. d + r * n <= most * (n + k) /\ -(d + r * n) <= most * (n + k) /\ r * n \in Int
        BY <4>4, <4>5, <4>8, CapsAdd
      <4>10. Owed(native', openedWith) = d + r * n
        BY <4>3, <4>6, <4>9 DEF Owed, d
      <4>11. native' \in Entries
        BY <2>4, <4>2, <4>3, <4>7, <4>9 DEF Entries
      <4>12. openedWith = NoIndex \/ openedWith.at \in 0..fundingClock
        BY <4>2
      <4> QED BY <4>5, <4>6, <4>9, <4>10, <4>11, <4>12 DEF most
    <3> QED BY <3>1, <3>2
  <2>8. native' # NoIndex
    BY <2>7 DEF NoIndex, NativeInv
  <2>9. UNCHANGED <<bookMid, fundingClock, openedWith, entry_funding_index>>
    BY <1>0 DEF position
  <2> QED BY <1>1, <2>4, <2>5, <2>6, <2>7, <2>8, <2>9 DEF NativeInv
<1> QED BY <1>3, <1>4

\* A position that opens owes nothing yet.
LEMMA OpenKeeps ==
  ASSUME NativeInv, OpenAtIndex
  PROVE  NativeInv'
<1>1. /\ openedWith' = native /\ UNCHANGED <<hermes, premiums, native, bookMid, fundingClock, readings>>
      /\ entry_funding_index' = Rounded(openedWith'.index, INDEX_UNIT)
  BY DEF OpenAtIndex, funding_index_for
<1>2. native \in Entries
  BY DEF NativeInv
<1>3. native = NoIndex \/ native.at \in 0..native.at
  <2>1. native # NoIndex => native.at \in 0..fundingClock
    BY DEF NativeInv
  <2> QED BY <2>1 DEF NativeInv
<1>4. native # NoIndex =>
        /\ Owed(native, native) <= MostRate * MostMid * (native.at - Since(native))
        /\ -Owed(native, native) <= MostRate * MostMid * (native.at - Since(native))
  <2> SUFFICES ASSUME native # NoIndex
               PROVE  /\ Owed(native, native) <= MostRate * MostMid * (native.at - Since(native))
                      /\ -Owed(native, native) <= MostRate * MostMid * (native.at - Since(native))
    OBVIOUS
  <2> DEFINE most == MostRate * MostMid
  <2>1. Owed(native, native) = 0 /\ native.at - Since(native) = 0 /\ most \in Nat
    BY <1>2, Mosts DEF Owed, Since, Entries
  <2> HIDE DEF most
  <2>2. most * (native.at - Since(native)) = 0
    BY <2>1
  <2> QED BY <2>1, <2>2 DEF most
<1> QED BY <1>1, <1>2, <1>3, <1>4 DEF NativeInv

LEMMA FetchKeeps ==
  ASSUME NativeInv, fetch_hermes_body
  PROVE  NativeInv'
<1>1. /\ hermes' \in {Answered(p) : p \in PythPrices \cup {NoBody}} \cup
                     {IF hermes.stage = "reqwest" THEN Trying(hermes.attempt, "curl")
                      ELSE IF hermes.attempt < MAX_ATTEMPTS THEN Trying(hermes.attempt + 1, "reqwest")
                      ELSE Answered(NoBody)}
      /\ UNCHANGED <<premiums, native, bookMid, fundingClock, readings, position>>
  BY DEF fetch_hermes_body
<1>2. hermes'.stage = "answered" => hermes'.price \in PythPrices \cup {NoBody}
  BY <1>1 DEF Answered, Trying
<1> QED BY <1>1, <1>2 DEF NativeInv, position

\* The invariant is inductive.
LEMMA NativeStep ==
  ASSUME NativeInv, [NativeNext]_nativeVars
  PROVE  NativeInv'
<1>1. CASE StartPoll
  <2>1. hermes'.stage # "answered"
    BY <1>1 DEF StartPoll, Trying
  <2> QED BY <1>1, <2>1 DEF StartPoll, position, NativeInv
<1>2. ASSUME NEW mid \in BookMids \cup {NoMid}, BookMoves(mid) PROVE NativeInv'
  BY <1>2 DEF BookMoves, position, NativeInv
<1>3. CASE FundingElapse
  <2>1. fundingClock' = fundingClock + 1 /\ UNCHANGED <<hermes, premiums, native, bookMid, readings, position>>
    BY <1>3 DEF FundingElapse
  <2>2. fundingClock \in Nat /\ (readings # <<>> => native.at \in 0..fundingClock)
    BY DEF NativeInv
  <2>3. fundingClock' \in Nat /\ (readings # <<>> => native.at \in 0..fundingClock')
    BY <2>1, <2>2
  <2> QED BY <2>1, <2>3 DEF NativeInv, position
<1>4. CASE UNCHANGED nativeVars
  BY <1>4 DEF nativeVars, position, NativeInv
<1> QED BY <1>1, <1>2, <1>3, <1>4, PollKeeps, OpenKeeps, FetchKeeps DEF NativeNext

\* The invariant implies both properties.
LEMMA NativeEnough ==
  ASSUME NativeInv
  PROVE  RateIsRecentMean /\ FundingOwedCapped
<1>1. RateIsRecentMean
  <2> SUFFICES ASSUME readings # <<>> PROVE RateIsRecentMean
    BY DEF RateIsRecentMean
  <2> DEFINE window == LastOf(readings, FUNDING_PREMIUM_WINDOW)
             mean == (SumOf(window) * RATE_UNIT) \div Len(window)
  <2>1. native.rate = Smoothed(window) /\ native.at \in 0..fundingClock /\ readings \in Seq(Int)
    BY DEF NativeInv
  <2>2. native # NoIndex
    BY <2>1 DEF NoIndex, NativeInv
  <2>3. /\ get_funding.known
        /\ 2 * (get_funding.rate_1h_bps * RATE_UNIT - 100 * native.rate) \in -RATE_UNIT..RATE_UNIT
    <3> DEFINE x == 100 * native.rate
               z == Rounded(x, RATE_UNIT)
    <3>1. x \in Int /\ RATE_UNIT \in Nat \ {0}
      BY FundingAssumption DEF NativeInv, Entries
    <3>2. get_funding.known /\ get_funding.rate_1h_bps = z
      BY <2>2 DEF get_funding
    <3> HIDE DEF x
    <3>3. z * RATE_UNIT \in Int /\ 2 * (z * RATE_UNIT - x) <= RATE_UNIT /\ 2 * (x - z * RATE_UNIT) <= RATE_UNIT
      BY <3>1, RoundedNear
    <3> HIDE DEF z
    <3> QED BY <3>1, <3>2, <3>3 DEF x
  <2>4. window \in Seq(Int) /\ Len(window) \in Nat \ {0}
    <3>1. Len(readings) \in Nat \ {0} /\ FUNDING_PREMIUM_WINDOW \in Nat \ {0}
      BY <2>1, FundingAssumption
    <3> DEFINE from == IF Len(readings) <= FUNDING_PREMIUM_WINDOW THEN 1
                       ELSE Len(readings) - FUNDING_PREMIUM_WINDOW + 1
    <3>2. window \in Seq(Int) /\ Len(window) = Len(readings) - from + 1
      BY <2>1, <3>1, LastOfIs
    <3> HIDE DEF window
    <3> QED BY <3>1, <3>2
  <2> HIDE DEF window
  <2>5. Smoothed(window) = IF mean > MostRate THEN MostRate ELSE IF mean < -MostRate THEN -MostRate ELSE mean
    BY <2>4, SmoothedIs
  <2> HIDE DEF mean
  <2> QED BY <2>1, <2>3, <2>5 DEF RateIsRecentMean, window, mean, MostRate
<1>2. FundingOwedCapped
  <2> SUFFICES ASSUME native # NoIndex PROVE FundingOwedCapped
    BY DEF FundingOwedCapped
  <2> DEFINE cap == MostRate * MostMid * (native.at - Since(openedWith))
             owed == Owed(native, openedWith)
  <2>1. owed <= cap /\ -owed <= cap /\ native \in Entries /\ openedWith \in Entries
    BY DEF NativeInv
  <2>2. owed \in Int
    BY <2>1 DEF Owed, Entries
  <2>3. cap \in Int
    <3> DEFINE most == MostRate * MostMid
               k == native.at - Since(openedWith)
    <3>1. most \in Nat /\ k \in Int
      BY <2>1, Mosts DEF Entries, Since
    <3> HIDE DEF most, k
    <3>2. most * k \in Int
      BY <3>1
    <3> QED BY <3>2 DEF most, k
  <2> DEFINE now == Rounded(native.index, INDEX_UNIT)
             then == Rounded(openedWith.index, INDEX_UNIT)
  <2>4. /\ now \in Int /\ now * INDEX_UNIT \in Int /\ then \in Int /\ then * INDEX_UNIT \in Int
        /\ 2 * (now * INDEX_UNIT - native.index) <= INDEX_UNIT
        /\ 2 * (native.index - now * INDEX_UNIT) <= INDEX_UNIT
        /\ 2 * (then * INDEX_UNIT - openedWith.index) <= INDEX_UNIT
        /\ 2 * (openedWith.index - then * INDEX_UNIT) <= INDEX_UNIT
        /\ INDEX_UNIT \in Nat /\ native.index \in Int /\ openedWith.index \in Int
    <3>1. native.index \in Int /\ openedWith.index \in Int /\ INDEX_UNIT \in Nat \ {0}
      BY <2>1, FundingAssumption DEF Entries
    <3> QED BY <3>1, RoundedNear
  <2> HIDE DEF now, then
  <2>5. (now - then) * INDEX_UNIT = now * INDEX_UNIT - then * INDEX_UNIT
    BY <2>4
  <2>6. owed = native.index - openedWith.index
    BY DEF Owed
  <2> HIDE DEF cap, owed
  <2>7. (now - then) * INDEX_UNIT \in -(cap + INDEX_UNIT)..cap + INDEX_UNIT
    BY <2>1, <2>2, <2>3, <2>4, <2>5, <2>6
  <2>8. funding_index_for = now /\ entry_funding_index = then
    BY DEF funding_index_for, now, then, NativeInv
  <2> QED BY <2>7, <2>8 DEF FundingOwedCapped, cap, Since, MostRate, MostMid
<1> QED BY <1>1, <1>2

\* For every window, clamp, set of prices and middles, and any number of polls
\* that fail or find no middle: the rate in force is the clamped mean of the last
\* readings, told to half of a hundredth, and no position owes more than the clamp
\* allows for the time from the last poll before it opened to the last poll, and
\* one unit for the rounding of the index (poll_funding_native, funding_index_for).
THEOREM NativeFundingAlwaysSound == MCSpec => []NativeFundingSound
<1>1. MCInit => NativeInv
  BY NativeStart DEF MCInit
<1>2. [MCNext]_allVars => [NativeNext]_nativeVars
  BY DEF MCNext, Only, allVars
<1>3. NativeInv /\ [NativeNext]_nativeVars => NativeInv'
  BY NativeStep
<1>4. NativeInv => NativeFundingSound
  BY NativeEnough DEF NativeFundingSound
<1> QED BY <1>1, <1>2, <1>3, <1>4, PTL DEF MCSpec

-----------------------------------------------------------------------------
(* The trade tape *)

Prints == [timestamp : Nat, price : Nat, qty : Nat]

\* The tape is what was recorded from the k-th print on, and each print before
\* it is older than the window before another one.
TapeFrom(part, all, m, k) ==
  /\ part = SubSeq(all, k + 1, m)
  /\ \A i \in 1..k : \E j \in 1..m : all[i].timestamp < all[j].timestamp - TapeWindow

OnTape(part, all, m) == \E k \in 0..m : TapeFrom(part, all, m, k)

\* The inductive invariant of the tape.
TapeInv ==
  /\ tape \in Seq(Prints) /\ recorded \in Seq(Prints)
  /\ tapeClock \in Nat
  /\ orderNow \in [TapeHandlers -> Nat \cup {NotTrading}]
  /\ OnTape(tape, recorded, Len(recorded))

LEMMA TapeBegins == TapeInit => TapeInv
<1> SUFFICES ASSUME TapeInit PROVE TapeInv
  OBVIOUS
<1>1. tape = <<>> /\ recorded = <<>> /\ tapeClock = TapeStart /\ orderNow = [h \in TapeHandlers |-> NotTrading]
  BY DEF TapeInit
<1>2. <<>> \in Seq(Prints) /\ Len(<<>>) = 0 /\ SubSeq(<<>>, 1, 0) = <<>>
  OBVIOUS
<1>3. TapeFrom(<<>>, <<>>, 0, 0)
  BY <1>2 DEF TapeFrom
<1>4. OnTape(tape, recorded, Len(recorded))
  BY <1>1, <1>2, <1>3 DEF OnTape
<1> QED BY <1>1, <1>2, <1>4, TapeAssumption DEF TapeInv

\* The least of a nonempty set of naturals is in it and below the others.
LEMMA MinOf ==
  ASSUME NEW S, S \subseteq Nat, S # {}
  PROVE  Min(S) \in S /\ \A y \in S : Min(S) <= y
<1>1. PICK x \in S : \A y \in S : x <= y
  BY LeastOf
<1> DEFINE P(z) == \A y \in S : z <= y
<1>2. Min(S) = CHOOSE z \in S : P(z)
  BY DEF Min
<1>3. \E z \in S : P(z)
  BY <1>1
<1> HIDE DEF P
<1>4. Min(S) \in S /\ P(Min(S))
  BY <1>2, <1>3
<1> QED BY <1>4 DEF P

LEMMA MaxOfNats ==
  ASSUME NEW S, IsFiniteSet(S), S \subseteq Nat, S # {}
  PROVE  Max(S) \in S /\ \A y \in S : y <= Max(S)
<1>1. PICK x \in S : \A y \in S : y <= x
  BY GreatestOf
<1> DEFINE P(z) == \A y \in S : z >= y
<1>2. Max(S) = CHOOSE z \in S : P(z)
  BY DEF Max
<1>3. \E z \in S : P(z)
  BY <1>1
<1> HIDE DEF P
<1>4. Max(S) \in S /\ P(Max(S))
  BY <1>2, <1>3
<1>5. \A y \in S : y <= Max(S)
  BY <1>4 DEF P
<1> QED BY <1>4, <1>5

LEMMA CutIs ==
  ASSUME NEW V, NEW s \in Seq(V), NEW i \in Nat \ {0}, NEW j \in Nat, j <= Len(s), i <= j + 1
  PROVE  /\ SubSeq(s, i, j) \in Seq(V) /\ Len(SubSeq(s, i, j)) = j - i + 1
         /\ \A x \in 1..j - i + 1 : SubSeq(s, i, j)[x] = s[i + x - 1]
<1>1. \A x \in i..j : s[x] \in V
  OBVIOUS
<1>2. /\ SubSeq(s, i, j) \in Seq(V)
      /\ Len(SubSeq(s, i, j)) = IF i <= j THEN j - i + 1 ELSE 0
      /\ \A x \in 1..j - i + 1 : SubSeq(s, i, j)[x] = s[i + x - 1]
  BY <1>1, SubSeqProperties
<1>3. (IF i <= j THEN j - i + 1 ELSE 0) = j - i + 1
  OBVIOUS
<1> QED BY <1>2, <1>3

\* Recording the next print drops only prints that are too old for it.
LEMMA RecordKeeps ==
  ASSUME NEW all \in Seq(Prints), NEW m \in Nat, m + 1 <= Len(all), NEW part, OnTape(part, all, m)
  PROVE  record(part, all[m + 1]) \in Seq(Prints) /\ OnTape(record(part, all[m + 1]), all, m + 1)
<1> DEFINE p == all[m + 1]
           more == Append(part, p)
           zero == 0
           cut == Max({zero, p.timestamp - TapeWindow})
           kept == {i \in DOMAIN more : more[i].timestamp >= cut}
<1>1. PICK k \in 0..m : TapeFrom(part, all, m, k)
  BY DEF OnTape
<1>2. \A i \in 1..m + 1 : i \in 1..Len(all) /\ all[i] \in Prints /\ all[i].timestamp \in Nat
  <2> TAKE i \in 1..m + 1
  <2>1. i \in 1..Len(all) /\ all[i] \in Prints
    OBVIOUS
  <2> QED BY <2>1 DEF Prints
<1>3. p \in Prints /\ p.timestamp \in Nat /\ TapeWindow \in Nat
  BY <1>2, TapeAssumption
<1>4. part \in Seq(Prints) /\ Len(part) = m - k /\ \A i \in 1..m - k : part[i] = all[k + i]
  <2>1. part = SubSeq(all, k + 1, m)
    BY <1>1 DEF TapeFrom
  <2>2. k + 1 \in Nat \ {0} /\ m <= Len(all) /\ k + 1 <= m + 1
    OBVIOUS
  <2>3. SubSeq(all, k + 1, m) \in Seq(Prints) /\ Len(SubSeq(all, k + 1, m)) = m - (k + 1) + 1
        /\ \A i \in 1..m - (k + 1) + 1 : SubSeq(all, k + 1, m)[i] = all[k + 1 + i - 1]
    BY <2>2, CutIs
  <2>4. m - (k + 1) + 1 = m - k /\ \A i \in 1..m - k : k + 1 + i - 1 = k + i
    OBVIOUS
  <2> QED BY <2>1, <2>3, <2>4
<1>5. more \in Seq(Prints) /\ Len(more) = m - k + 1 /\ \A i \in 1..m - k + 1 : more[i] = all[k + i]
  <2>1. more \in Seq(Prints) /\ Len(more) = Len(part) + 1 /\ more[Len(part) + 1] = p /\ \A i \in 1..Len(part) : more[i] = part[i]
    <3> HIDE DEF p
    <3> QED BY <1>3, <1>4
  <2>2. \A i \in 1..m - k + 1 : i = m - k + 1 \/ i \in 1..m - k
    OBVIOUS
  <2>3. k + (m - k + 1) = m + 1
    OBVIOUS
  <2> HIDE DEF more
  <2> QED BY <1>4, <2>1, <2>2, <2>3
<1> HIDE DEF more
<1>6. cut \in Nat /\ cut <= p.timestamp /\ (cut = 0 \/ cut = p.timestamp - TapeWindow)
  <2> DEFINE x == p.timestamp - TapeWindow
  <2>1. x \in Int /\ zero \in Int
    BY <1>3
  <2> HIDE DEF x, zero
  <2>2. Max({zero, x}) \in {zero, x} /\ zero <= Max({zero, x})
    BY <2>1, MaxTwo
  <2> QED BY <1>3, <2>2 DEF x, zero
<1> HIDE DEF cut
<1>7. DOMAIN more = 1..m - k + 1 /\ m - k + 1 \in kept /\ kept \subseteq Nat /\ kept # {}
  <2>1. DOMAIN more = 1..m - k + 1
    BY <1>5
  <2>2. m - k + 1 \in 1..m - k + 1 /\ k + (m - k + 1) = m + 1
    OBVIOUS
  <2>3. m - k + 1 \in kept
    BY <1>3, <1>5, <1>6, <2>1, <2>2
  <2> QED BY <2>1, <2>3
<1> DEFINE f == Min(kept)
<1>8. f \in kept /\ \A y \in kept : f <= y
  <2> HIDE DEF kept
  <2> QED BY <1>7, MinOf
<1>9. record(part, p) = SubSeq(more, f, Len(more))
  BY <1>7 DEF record, prune, cut, more
<1> DEFINE g == k + f - 1
<1>10. f \in 1..m - k + 1 /\ g \in 0..m
  BY <1>7, <1>8
<1>11. SubSeq(more, f, Len(more)) = SubSeq(all, g + 1, m + 1)
  <2> DEFINE a == SubSeq(more, f, m - k + 1)
             b == SubSeq(all, g + 1, m + 1)
  <2>0. /\ f \in Nat \ {0} /\ f \in 1..m - k + 1 /\ g = k + f - 1 /\ g + 1 \in Nat \ {0}
        /\ f <= (m - k + 1) + 1 /\ g + 1 <= (m + 1) + 1 /\ m - k + 1 \in Nat
    BY <1>10
  <2> HIDE DEF f, g
  <2>1. a \in Seq(Prints) /\ Len(a) = m - k + 1 - f + 1 /\ \A i \in 1..m - k + 1 - f + 1 : a[i] = more[f + i - 1]
    <3> DEFINE n == m - k + 1
    <3>1. f \in Nat \ {0} /\ n \in Nat /\ n <= Len(more) /\ f <= n + 1 /\ more \in Seq(Prints)
      BY <1>5, <2>0
    <3> HIDE DEF n
    <3>2. /\ SubSeq(more, f, n) \in Seq(Prints) /\ Len(SubSeq(more, f, n)) = n - f + 1
          /\ \A i \in 1..n - f + 1 : SubSeq(more, f, n)[i] = more[f + i - 1]
      BY <3>1, CutIs
    <3> QED BY <3>2 DEF n
  <2>2. b \in Seq(Prints) /\ Len(b) = m + 1 - (g + 1) + 1 /\ \A i \in 1..m + 1 - (g + 1) + 1 : b[i] = all[g + 1 + i - 1]
    BY <2>0, CutIs
  <2> HIDE DEF a, b
  <2>3. Len(a) = Len(b)
    BY <2>0, <2>1, <2>2
  <2>4. ASSUME NEW i \in 1..Len(a) PROVE a[i] = b[i]
    <3>1. f + i - 1 \in 1..m - k + 1 /\ k + (f + i - 1) = g + 1 + i - 1
      BY <2>0, <2>1
    <3>2. a[i] = all[k + (f + i - 1)]
      BY <1>5, <2>1, <3>1
    <3> QED BY <2>2, <2>3, <3>1, <3>2
  <2>5. a = b
    BY <2>1, <2>2, <2>3, <2>4, SeqEqual
  <2> QED BY <1>5, <2>5 DEF a, b
<1>12. ASSUME NEW i \in 1..g PROVE \E j \in 1..m + 1 : all[i].timestamp < all[j].timestamp - TapeWindow
  <2>1. CASE i \in 1..k
    <3>1. PICK j \in 1..m : all[i].timestamp < all[j].timestamp - TapeWindow
      BY <1>1, <2>1 DEF TapeFrom
    <3>2. j \in 1..m + 1
      OBVIOUS
    <3> QED BY <3>1, <3>2
  <2>2. CASE i \notin 1..k
    <3> DEFINE l == i - k
    <3>1. l \in 1..m - k + 1 /\ l < f /\ k + l = i /\ i \in 1..m + 1 /\ m + 1 \in 1..m + 1
      BY <1>10, <2>2
    <3>2. more[l].timestamp < cut
      <4>1. l \notin kept
        <5> HIDE DEF kept, l
        <5>1. f \in Nat /\ l \in Nat
          BY <1>10, <3>1
        <5> HIDE DEF f
        <5> QED BY <1>8, <3>1, <5>1
      <4>2. more[l] = all[i] /\ l \in DOMAIN more
        BY <1>5, <1>7, <3>1
      <4> QED BY <1>2, <1>6, <3>1, <4>1, <4>2
    <3>3. all[i].timestamp < cut /\ all[i].timestamp \in Nat
      BY <1>2, <1>5, <3>1, <3>2
    <3>4. cut = p.timestamp - TapeWindow
      BY <1>6, <3>3
    <3> QED BY <3>1, <3>3, <3>4
  <2> QED BY <2>1, <2>2
<1>13. TapeFrom(record(part, p), all, m + 1, g)
  BY <1>9, <1>11, <1>12 DEF TapeFrom
<1>14. SubSeq(all, g + 1, m + 1) \in Seq(Prints)
  <2> HIDE DEF g
  <2>1. g + 1 \in Nat \ {0} /\ g + 1 <= (m + 1) + 1
    BY <1>10
  <2> QED BY <2>1, CutIs
<1>15. g \in 0..m + 1
  BY <1>10
<1> HIDE DEF g
<1> QED BY <1>9, <1>11, <1>13, <1>14, <1>15 DEF OnTape

LEMMA PruneTyped ==
  ASSUME NEW part \in Seq(Prints), NEW p \in Prints
  PROVE  record(part, p) \in Seq(Prints)
<1> DEFINE more == Append(part, p)
           zero == 0
           cut == Max({zero, p.timestamp - TapeWindow})
           kept == {i \in DOMAIN more : more[i].timestamp >= cut}
<1>1. more \in Seq(Prints)
  OBVIOUS
<1>2. record(part, p) = IF kept = {} THEN <<>> ELSE SubSeq(more, Min(kept), Len(more))
  BY DEF record, prune
<1> HIDE DEF more, cut
<1>3. DOMAIN more = 1..Len(more) /\ Len(more) \in Nat
  BY <1>1
<1>4. kept # {} => Min(kept) \in 1..Len(more)
  <2> HAVE kept # {}
  <2>1. kept \subseteq Nat /\ kept \subseteq 1..Len(more)
    BY <1>3
  <2> HIDE DEF kept
  <2> QED BY <2>1, MinOf
<1> DEFINE f == Min(kept)
<1> HIDE DEF kept
<1>5. kept # {} => SubSeq(more, f, Len(more)) \in Seq(Prints)
  <2> HAVE kept # {}
  <2>1. f \in Nat \ {0} /\ f <= Len(more) + 1 /\ Len(more) <= Len(more)
    BY <1>3, <1>4
  <2> HIDE DEF f
  <2> QED BY <1>1, <1>3, <2>1, CutIs
<1>6. <<>> \in Seq(Prints)
  OBVIOUS
<1> QED BY <1>2, <1>5, <1>6

RecordFold(base, prints, g) ==
  g = [s \in SUBSET DOMAIN prints |-> IF s = {} THEN base ELSE record(g[s \ {Max(s)}], prints[Max(s)])]

\* Prints recorded one after another, as a run.
LEMMA RecordRuns ==
  ASSUME NEW base \in Seq(Prints), NEW prints \in Seq(Prints)
  PROVE  \E run : /\ run \in [0..Len(prints) -> Seq(Prints)] /\ run[0] = base
                  /\ \A n \in 1..Len(prints) : run[n] = record(run[n - 1], prints[n])
                  /\ FoldLeft(record, base, prints) = run[Len(prints)]
<1> DEFINE V == Seq(Prints)
           D == DOMAIN prints
           N == Len(prints)
           step == [p \in V \X (1..N) |-> record(p[1], prints[p[2]])]
           it == CHOOSE g : RecordFold(base, prints, g)
<1>1. N \in Nat /\ D = 1..N /\ \A n \in 1..N : prints[n] \in Prints
  OBVIOUS
<1>2. FoldLeft(record, base, prints) = it[D]
  BY Zenon DEF FoldLeft, MapThenFoldSet, RecordFold
<1> HIDE DEF D, N
<1>3. \A part \in V, n \in 1..N : record(part, prints[n]) \in V
  BY <1>1, PruneTyped
<1>4. step \in StepsOf(V, N) /\ base \in V
  BY <1>3 DEF StepsOf
<1>5. \A x \in V, n \in 1..N : step[<<x, n>>] = record(x, prints[n])
  OBVIOUS
<1> HIDE DEF V, step
<1>6. PICK g : FoldsUp(g, V, N, base, step)
  BY <1>1, <1>4, FoldExists
<1>7. \A s \in SUBSET (1..N) : s # {} => /\ Max(s) \in 1..N /\ s \ {Max(s)} \in SUBSET (1..N)
  <2> TAKE s \in SUBSET (1..N)
  <2> HAVE s # {}
  <2>1. Max(s) \in s
    BY <1>1, MaxOf
  <2> QED BY <2>1
<1>8. \E h : RecordFold(base, prints, h)
  <2>1. \A s \in SUBSET (1..N) : g[s] = IF s = {} THEN base ELSE record(g[s \ {Max(s)}], prints[Max(s)])
    <3> TAKE s \in SUBSET (1..N)
    <3>1. g[s] = IF s = {} THEN base ELSE step[<<g[s \ {Max(s)}], Max(s)>>]
      BY <1>6 DEF FoldsUp
    <3>2. CASE s = {}
      BY <3>1, <3>2
    <3>3. CASE s # {}
      <4>1. Max(s) \in 1..N /\ g[s \ {Max(s)}] \in V
        BY <1>6, <1>7, <3>3 DEF FoldsUp
      <4> QED BY <1>5, <3>1, <3>3, <4>1
    <3> QED BY <3>2, <3>3
  <2>2. g = [s \in SUBSET (1..N) |-> g[s]]
    BY <1>6 DEF FoldsUp
  <2>3. RecordFold(base, prints, g)
    BY <1>1, <2>1, <2>2 DEF RecordFold, D
  <2> QED BY <2>3
<1>9. RecordFold(base, prints, it)
  BY <1>8
<1> HIDE DEF it
<1>10. \A s \in SUBSET (1..N) : it[s] = IF s = {} THEN base ELSE record(it[s \ {Max(s)}], prints[Max(s)])
  BY <1>1, <1>9 DEF RecordFold, D
<1>11. it[{}] = base
  <2>1. {} \in SUBSET (1..N)
    OBVIOUS
  <2> QED BY <1>10, <2>1
<1>12. \A s \in SUBSET (1..N) :
         s # {} /\ it[s \ {Max(s)}] \in V => it[s] = step[<<it[s \ {Max(s)}], Max(s)>>]
  BY <1>5, <1>7, <1>10
<1> DEFINE run == [n \in 0..N |-> it[1..n]]
<1>13. RunOf(run, V, N, base, step)
  BY <1>1, <1>4, <1>11, <1>12, FoldRuns
<1>14. run[N] = it[D]
  BY <1>1
<1> HIDE DEF run
<1>15. \A n \in 1..N : run[n] = record(run[n - 1], prints[n])
  <2> TAKE n \in 1..N
  <2>1. n - 1 \in 0..N
    BY <1>1
  <2> QED BY <1>5, <1>13, <2>1 DEF RunOf
<1> QED BY <1>2, <1>13, <1>14, <1>15 DEF RunOf, V, N

\* Prints recorded on a tape leave it a tape of all that was recorded.
LEMMA RecordAll ==
  ASSUME NEW all \in Seq(Prints), NEW m \in Nat, NEW part \in Seq(Prints), OnTape(part, all, m),
         NEW prints \in Seq(Prints), Len(all) = m + Len(prints),
         \A i \in 1..Len(prints) : all[m + i] = prints[i]
  PROVE  /\ FoldLeft(record, part, prints) \in Seq(Prints)
         /\ OnTape(FoldLeft(record, part, prints), all, Len(all))
<1> DEFINE N == Len(prints)
<1>1. PICK run : /\ run \in [0..N -> Seq(Prints)] /\ run[0] = part
                 /\ \A n \in 1..N : run[n] = record(run[n - 1], prints[n])
                 /\ FoldLeft(record, part, prints) = run[N]
  BY RecordRuns
<1>2. N \in Nat /\ Len(all) = m + N /\ \A i \in 1..N : all[m + i] = prints[i]
  OBVIOUS
<1> HIDE DEF N
<1> DEFINE Good(n) == OnTape(run[n], all, m + n)
           G == {n \in Nat : n <= N => Good(n)}
<1>3. 0 \in G
  <2>1. m + 0 = m
    OBVIOUS
  <2> QED BY <1>1, <2>1
<1>4. \A n \in Nat : n \in G => n + 1 \in G
  <2> SUFFICES ASSUME NEW n \in Nat, n + 1 <= N, Good(n) PROVE Good(n + 1)
    <3> HIDE DEF Good
    <3> QED BY <1>2
  <2>1. n + 1 \in 1..N /\ n + 1 - 1 = n /\ m + n \in Nat /\ (m + n) + 1 = m + (n + 1) /\ (m + n) + 1 <= Len(all)
    BY <1>2
  <2>2. run[n + 1] = record(run[n], all[(m + n) + 1])
    <3>1. run[n + 1] = record(run[n], prints[n + 1])
      BY <1>1, <2>1
    <3>2. all[m + (n + 1)] = prints[n + 1]
      BY <1>2, <2>1
    <3> QED BY <2>1, <3>1, <3>2
  <2> DEFINE l == m + n
  <2>3. OnTape(run[n], all, l) /\ l \in Nat /\ l + 1 <= Len(all)
    BY <2>1
  <2> HIDE DEF l
  <2>4. OnTape(record(run[n], all[l + 1]), all, l + 1)
    BY <2>3, RecordKeeps
  <2> QED BY <2>1, <2>2, <2>4 DEF l
<1> HIDE DEF G
<1>5. Nat \subseteq G
  BY <1>3, <1>4, Induction
<1>6. Good(N)
  <2>1. N \in G /\ N <= N
    BY <1>2, <1>5
  <2> QED BY <2>1 DEF G
<1>7. run[N] \in Seq(Prints) /\ OnTape(run[N], all, Len(all))
  <2>1. N \in 0..N
    BY <1>2
  <2>2. OnTape(run[N], all, m + N)
    BY <1>6
  <2> QED BY <1>1, <1>2, <2>1, <2>2
<1>8. FoldLeft(record, part, prints) = run[N]
  BY <1>1
<1> HIDE DEF Good
<1> QED BY <1>7, <1>8, Zenon

\* What was recorded can only get longer.
LEMMA OnTapeLonger ==
  ASSUME NEW all \in Seq(Prints), NEW longer \in Seq(Prints), NEW part, OnTape(part, all, Len(all)),
         Len(all) <= Len(longer), \A i \in 1..Len(all) : longer[i] = all[i]
  PROVE  OnTape(part, longer, Len(all))
<1> DEFINE m == Len(all)
<1>1. m \in Nat /\ m <= Len(longer) /\ \A i \in 1..m : longer[i] = all[i]
  OBVIOUS
<1>2. PICK k \in 0..m : TapeFrom(part, all, m, k)
  BY DEF OnTape
<1> HIDE DEF m
<1>3. SubSeq(all, k + 1, m) = SubSeq(longer, k + 1, m)
  <2> DEFINE a == SubSeq(all, k + 1, m)
             b == SubSeq(longer, k + 1, m)
  <2>1. k + 1 \in Nat \ {0} /\ k + 1 <= m + 1 /\ m <= Len(all)
    BY <1>1 DEF m
  <2>2. a \in Seq(Prints) /\ Len(a) = m - (k + 1) + 1 /\ \A i \in 1..m - (k + 1) + 1 : a[i] = all[k + 1 + i - 1]
    BY <1>1, <2>1, CutIs
  <2>3. b \in Seq(Prints) /\ Len(b) = m - (k + 1) + 1 /\ \A i \in 1..m - (k + 1) + 1 : b[i] = longer[k + 1 + i - 1]
    BY <1>1, <2>1, CutIs
  <2>4. \A i \in 1..m - (k + 1) + 1 : k + 1 + i - 1 \in 1..m
    BY <1>1
  <2> HIDE DEF a, b
  <2>5. \A i \in 1..Len(a) : a[i] = b[i]
    BY <1>1, <2>2, <2>3, <2>4
  <2>6. a = b
    BY <2>2, <2>3, <2>5, SeqEqual
  <2> QED BY <2>6 DEF a, b
<1>4. ASSUME NEW i \in 1..k PROVE \E j \in 1..m : longer[i].timestamp < longer[j].timestamp - TapeWindow
  <2>1. PICK j \in 1..m : all[i].timestamp < all[j].timestamp - TapeWindow
    BY <1>2 DEF TapeFrom
  <2>2. i \in 1..m
    BY <1>1
  <2> QED BY <1>1, <2>1, <2>2
<1>5. TapeFrom(part, longer, m, k)
  BY <1>2, <1>3, <1>4 DEF TapeFrom
<1> QED BY <1>5 DEF OnTape, m

\* What a handler records is stamped with the time it read.
LEMMA RecordFillsKeeps ==
  ASSUME TapeInv, NEW h \in TapeHandlers, NEW fs \in Fills, RecordFills(h, fs)
  PROVE  TapeInv'
<1> DEFINE now == orderNow[h]
           prints == [k \in DOMAIN fs |-> Stamped(fs[k], now)]
<1>1. PICK n \in 1..2 : fs \in [1..n -> TapeFills]
  BY DEF Fills
<1>2. /\ now \in Nat
      /\ tape' = FoldLeft(record, tape, prints)
      /\ recorded' = recorded \o prints
      /\ orderNow' = [orderNow EXCEPT ![h] = NotTrading]
      /\ tapeClock' = tapeClock
  BY DEF RecordFills, TapeInv
<1> HIDE DEF now
<1>3. \A f \in TapeFills : Stamped(f, now) \in Prints
  BY <1>2, TapeAssumption DEF Stamped, Prints
<1>4. prints \in Seq(Prints) /\ Len(prints) = n
  <2>1. prints \in [1..n -> Prints]
    BY <1>1, <1>3
  <2> QED BY <2>1
<1> HIDE DEF prints
<1> DEFINE all == recorded \o prints
           m == Len(recorded)
<1>5. recorded \in Seq(Prints) /\ tape \in Seq(Prints) /\ OnTape(tape, recorded, m) /\ m \in Nat
  BY DEF TapeInv
<1>6. /\ all \in Seq(Prints) /\ Len(all) = m + Len(prints)
      /\ \A i \in 1..m : all[i] = recorded[i]
      /\ \A i \in 1..Len(prints) : all[m + i] = prints[i]
  BY <1>4, <1>5, ConcatProperties
<1> HIDE DEF all
<1>7. OnTape(tape, all, m)
  <2>1. Len(recorded) <= Len(all)
    BY <1>4, <1>5, <1>6
  <2> QED BY <1>5, <1>6, <2>1, OnTapeLonger
<1> HIDE DEF m
<1>8. tape' \in Seq(Prints) /\ OnTape(tape', all, Len(all))
  <2>1. /\ FoldLeft(record, tape, prints) \in Seq(Prints)
        /\ OnTape(FoldLeft(record, tape, prints), all, Len(all))
    BY <1>4, <1>5, <1>6, <1>7, RecordAll
  <2> QED BY <1>2, <2>1
<1>9. recorded' = all
  BY <1>2 DEF all
<1>10. orderNow' \in [TapeHandlers -> Nat \cup {NotTrading}] /\ tapeClock' \in Nat
  BY <1>2 DEF TapeInv
<1>11. OnTape(tape', recorded', Len(recorded'))
  BY <1>8, <1>9
<1>12. OnTape(tape, recorded, Len(recorded))'
  BY <1>11 DEF OnTape, TapeFrom
<1> QED BY <1>6, <1>8, <1>9, <1>10, <1>12 DEF TapeInv

LEMMA SeedKeeps ==
  ASSUME TapeInv, NEW span \in SeedSpans, NEW price \in TapePrices, NEW older \in TapePrices,
         SeedHistory(span, price, older)
  PROVE  TapeInv'
<1> DEFINE all == Backfill(span, price, older)
           zero == 0
           first == Max({zero, tapeClock - span})
           n == tapeClock - first + 1
<1>1. /\ tape' = FoldLeft(record, <<>>, all) /\ recorded' = all
      /\ tapeClock' = tapeClock /\ orderNow' = orderNow
  BY DEF SeedHistory
<1>2. span \in Nat /\ price \in Nat /\ older \in Nat /\ tapeClock \in Nat
  BY TapeAssumption DEF TapeInv
<1>3. first \in Nat /\ first <= tapeClock
  <2> DEFINE x == tapeClock - span
  <2>1. x \in Int /\ zero \in Int /\ x <= tapeClock
    BY <1>2
  <2> HIDE DEF x, zero
  <2>2. Max({zero, x}) \in {zero, x} /\ zero <= Max({zero, x})
    BY <2>1, MaxTwo
  <2> QED BY <1>2, <2>1, <2>2 DEF x, zero
<1>4. all = [k \in 1..n |->
               [timestamp |-> first + k - 1, qty |-> 1, price |-> IF first + k - 1 = tapeClock THEN price ELSE older]]
  BY DEF Backfill
<1> HIDE DEF all, first
<1>5. all \in Seq(Prints)
  <2> DEFINE at(k) == first + k - 1
             paid(k) == IF at(k) = tapeClock THEN price ELSE older
  <2>1. \A k \in 1..n : at(k) \in Nat
    BY <1>2, <1>3
  <2>2. \A k : paid(k) \in Nat
    BY <1>2
  <2>3. all = [k \in 1..n |-> [timestamp |-> at(k), qty |-> 1, price |-> paid(k)]]
    BY <1>4
  <2> HIDE DEF at, paid, n
  <2>4. all \in [1..n -> Prints]
    BY <2>1, <2>2, <2>3 DEF Prints
  <2>5. n \in Nat
    BY <1>2, <1>3 DEF n
  <2> QED BY <2>4, <2>5
<1> HIDE DEF n
<1>6. OnTape(<<>>, all, 0) /\ <<>> \in Seq(Prints)
  <2>1. SubSeq(all, 1, 0) = <<>>
    BY <1>5
  <2>2. TapeFrom(<<>>, all, 0, 0)
    BY <2>1 DEF TapeFrom
  <2> QED BY <2>2 DEF OnTape
<1>7. Len(all) = 0 + Len(all) /\ \A i \in 1..Len(all) : all[0 + i] = all[i]
  BY <1>5
<1>8. FoldLeft(record, <<>>, all) \in Seq(Prints) /\ OnTape(FoldLeft(record, <<>>, all), all, Len(all))
  BY <1>5, <1>6, <1>7, RecordAll
<1>9. tape' \in Seq(Prints) /\ OnTape(tape', recorded', Len(recorded'))
  BY <1>1, <1>8
<1>10. OnTape(tape, recorded, Len(recorded))'
  BY <1>9 DEF OnTape, TapeFrom
<1>11. tapeClock' \in Nat /\ orderNow' \in [TapeHandlers -> Nat \cup {NotTrading}]
  BY <1>1 DEF TapeInv
<1> QED BY <1>1, <1>5, <1>9, <1>10, <1>11 DEF TapeInv

LEMMA TapeStep ==
  ASSUME TapeInv, [TapeNext]_tapeVars
  PROVE  TapeInv'
<1>1. CASE TapeElapse
  BY <1>1 DEF TapeElapse, TapeInv, OnTape, TapeFrom
<1>2. ASSUME NEW h \in TapeHandlers, ReadClock(h) PROVE TapeInv'
  BY <1>2 DEF ReadClock, TapeInv, OnTape, TapeFrom
<1>3. CASE UNCHANGED tapeVars
  BY <1>3 DEF tapeVars, TapeInv, OnTape, TapeFrom
<1> QED BY <1>1, <1>2, <1>3, RecordFillsKeeps, SeedKeeps DEF TapeNext

\* The prints that left the tape are all too old, so no young one left it.
LEMMA YoungKept ==
  ASSUME TapeInv
  PROVE  TapeKeepsYoung
<1> SUFFICES ASSUME NEW x \in Elements(recorded),
                    \A y \in Elements(recorded) : x.timestamp >= y.timestamp - TapeWindow
             PROVE  Count(tape, x) = Count(recorded, x)
  BY DEF TapeKeepsYoung
<1> DEFINE m == Len(recorded)
           T == {i \in DOMAIN tape : tape[i] = x}
           R == {i \in DOMAIN recorded : recorded[i] = x}
<1>1. tape \in Seq(Prints) /\ recorded \in Seq(Prints) /\ m \in Nat /\ OnTape(tape, recorded, m)
  BY DEF TapeInv
<1>2. DOMAIN tape = 1..Len(tape) /\ DOMAIN recorded = 1..m /\ Len(tape) \in Nat
  BY <1>1
<1> HIDE DEF m
<1>3. PICK k \in 0..m : TapeFrom(tape, recorded, m, k)
  BY <1>1 DEF OnTape
<1>4. Len(tape) = m - k /\ \A i \in 1..m - k : tape[i] = recorded[k + i]
  <2>1. k + 1 \in Nat \ {0} /\ k + 1 <= m + 1 /\ m <= Len(recorded) /\ tape = SubSeq(recorded, k + 1, m)
    BY <1>1, <1>3 DEF TapeFrom, m
  <2>2. /\ Len(SubSeq(recorded, k + 1, m)) = m - (k + 1) + 1
        /\ \A i \in 1..m - (k + 1) + 1 : SubSeq(recorded, k + 1, m)[i] = recorded[k + 1 + i - 1]
    BY <1>1, <2>1, CutIs
  <2>3. m - (k + 1) + 1 = m - k /\ \A i \in 1..m - k : k + 1 + i - 1 = k + i
    BY <1>1
  <2> QED BY <2>1, <2>2, <2>3
<1>5. \A i \in 1..k : recorded[i] # x
  <2> TAKE i \in 1..k
  <2>1. PICK j \in 1..m : recorded[i].timestamp < recorded[j].timestamp - TapeWindow
    BY <1>3 DEF TapeFrom
  <2>2. recorded[i] \in Prints /\ recorded[j] \in Prints /\ recorded[j] \in Elements(recorded)
    BY <1>1, <1>2 DEF Elements, m
  <2>3. recorded[i].timestamp \in Nat /\ recorded[j].timestamp \in Nat /\ TapeWindow \in Nat
    BY <2>2, TapeAssumption DEF Prints
  <2> QED BY <2>1, <2>2, <2>3
<1>6. \E f : f \in Bijection(T, R)
  <2> DEFINE f == [i \in T |-> k + i]
  <2>1. \A i \in T : i \in 1..m - k /\ k + i \in R
    BY <1>1, <1>2, <1>4
  <2>2. \A j \in R : j - k \in T /\ k + (j - k) = j
    <3> TAKE j \in R
    <3>1. j \in 1..m /\ j \notin 1..k
      BY <1>2, <1>5
    <3>2. j - k \in 1..m - k /\ k + (j - k) = j
      BY <1>1, <3>1
    <3> QED BY <1>2, <1>4, <3>2
  <2>3. f \in [T -> R]
    BY <2>1
  <2>4. \A a, b \in T : f[a] = f[b] => a = b
    BY <1>1, <2>1
  <2>5. \A j \in R : \E i \in T : f[i] = j
    BY <2>2
  <2> HIDE DEF f, T, R
  <2>6. f \in Bijection(T, R)
    BY <2>3, <2>4, <2>5 DEF Bijection, Injection, Surjection, IsInjective
  <2> QED BY <2>6
<1>7. IsFiniteSet(T) /\ IsFiniteSet(R)
  <2>1. IsFiniteSet(1..Len(tape)) /\ IsFiniteSet(1..m)
    BY <1>1, <1>2, FS_Interval
  <2>2. T \subseteq 1..Len(tape) /\ R \subseteq 1..m
    BY <1>2
  <2> HIDE DEF T, R
  <2> QED BY <2>1, <2>2, FS_Subset
<1> HIDE DEF T, R
<1>8. Cardinality(T) = Cardinality(R)
  BY <1>6, <1>7, FS_Bijection DEF ExistsBijection
<1> QED BY <1>8 DEF Count, T, R

LEMMA ClampIsMost ==
  ASSUME NEW n \in Nat \ {0}, NEW most \in Nat \ {0}
  PROVE  Clamp(n, most) = IF n < most THEN n ELSE most
<1> DEFINE one == 1
           l == Min({n, most})
<1>1. l = IF n < most THEN n ELSE most
  <2>1. l \in {n, most} /\ l <= n /\ l <= most
    BY MinTwo
  <2> QED BY <2>1
<1> HIDE DEF l
<1>2. l \in Nat \ {0} /\ one \in Int /\ l \in Int
  BY <1>1
<1>3. Max({one, l}) \in {one, l} /\ l <= Max({one, l})
  <2> HIDE DEF one
  <2> QED BY <1>2, MaxTwo
<1>4. Max({one, l}) = l
  BY <1>2, <1>3
<1> QED BY <1>1, <1>4 DEF Clamp, l

LEMMA ValuesFinite ==
  ASSUME NEW S, IsFiniteSet(S), NEW f
  PROVE  IsFiniteSet({f[x] : x \in S})
<1> DEFINE T == {f[x] : x \in S}
           g == [x \in S |-> f[x]]
<1>1. g \in [S -> T] /\ \A t \in T : \E x \in S : g[x] = t
  OBVIOUS
<1> HIDE DEF g, T
<1>2. g \in Surjection(S, T)
  BY <1>1 DEF Surjection
<1>3. IsFiniteSet(T)
  BY <1>2, FS_Surjection DEF ExistsSurjection
<1> QED BY <1>3 DEF T

\* The day holds the last print, so its figures enclose it.
LEMMA LastInDay ==
  ASSUME TapeInv
  PROVE  SnapshotHoldsLast
<1> SUFFICES ASSUME tape # <<>>
             PROVE  LET s == snapshot(tape) IN
                    /\ s.low <= s.last_price /\ s.last_price <= s.high
                    /\ s.volume >= Last(tape).qty
                    /\ get_trades(1)[1].price = s.last_price
  BY DEF SnapshotHoldsLast
<1> DEFINE n == Len(tape)
           last == tape[n]
           day == {k \in DOMAIN tape : tape[k].timestamp >= WindowStart(tape)}
           prices == {tape[k].price : k \in day}
           qtys == [k \in DOMAIN tape |-> tape[k].qty]
           volume == SumFunctionOnSet(qtys, day)
           s == snapshot(tape)
<1>1. tape \in Seq(Prints) /\ n \in Nat \ {0} /\ DOMAIN tape = 1..n
  BY DEF TapeInv
<1> HIDE DEF n
<1>2. \A k \in 1..n : tape[k].timestamp \in Nat /\ tape[k].price \in Nat /\ tape[k].qty \in Nat
  <2> TAKE k \in 1..n
  <2>1. tape[k] \in Prints
    BY <1>1
  <2> QED BY <2>1 DEF Prints
<1>3. n \in day
  <2> DEFINE zero == 0
             x == last.timestamp - TapeDay
  <2>1. n \in 1..n /\ last.timestamp \in Nat /\ TapeDay \in Nat
    BY <1>1, <1>2, TapeAssumption
  <2>2. x \in Int /\ zero \in Int /\ x <= last.timestamp /\ zero <= last.timestamp
    BY <2>1
  <2>3. WindowStart(tape) = Max({zero, x})
    BY DEF WindowStart, Last, n
  <2> HIDE DEF x, zero
  <2>4. Max({zero, x}) \in {zero, x}
    BY <2>2, MaxTwo
  <2>5. last.timestamp >= WindowStart(tape)
    BY <2>2, <2>3, <2>4
  <2> QED BY <1>1, <2>1, <2>5
<1>4. day \subseteq 1..n /\ IsFiniteSet(day)
  <2>1. IsFiniteSet(1..n) /\ day \subseteq 1..n
    BY <1>1, FS_Interval
  <2> HIDE DEF day
  <2> QED BY <2>1, FS_Subset
<1>5. s = [last_price |-> last.price, high |-> Max(prices), low |-> Min(prices), volume |-> volume]
  <2>1. day # {} /\ tape # <<>>
    BY <1>3
  <2> QED BY <2>1 DEF snapshot, Last, n
<1> HIDE DEF day, s
<1>6. IsFiniteSet(prices) /\ prices \subseteq Nat /\ last.price \in prices
  <2>1. IsFiniteSet(prices)
    <3> DEFINE price == [k \in day |-> tape[k].price]
    <3>1. prices = {price[k] : k \in day}
      OBVIOUS
    <3> HIDE DEF price, prices
    <3> QED BY <1>4, <3>1, ValuesFinite
  <2> QED BY <1>2, <1>3, <1>4, <2>1
<1>7. Min(prices) <= last.price /\ last.price <= Max(prices)
  <2> HIDE DEF prices, last
  <2>1. prices # {}
    BY <1>6
  <2> QED BY <1>6, <2>1, MinOf, MaxOfNats
<1>8. volume >= last.qty
  <2>1. \A k \in day : qtys[k] \in Nat /\ qtys[k] \in Int
    BY <1>1, <1>2, <1>4
  <2>2. qtys[n] = last.qty
    BY <1>1
  <2> HIDE DEF qtys
  <2>3. SumFunctionOnSet(qtys, day) = qtys[n] + SumFunctionOnSet(qtys, day \ {n})
    BY <1>3, <1>4, <2>1, SumRemove
  <2>4. SumFunctionOnSet(qtys, day \ {n}) \in Nat
    <3>1. IsFiniteSet(day \ {n})
      BY <1>4, FS_Subset
    <3> QED BY <2>1, <3>1, SumNat
  <2>5. last.qty \in Nat
    BY <1>3, <1>2, <1>4
  <2> QED BY <2>2, <2>3, <2>4, <2>5
<1>9. get_trades(1)[1].price = last.price
  <2> DEFINE one == 1
             r == Reverse(tape)
             l == Min({one, n})
  <2>1. Clamp(one, MAX_TRADES_LIMIT) = one
    <3>1. MAX_TRADES_LIMIT = 200
      BY DEF MAX_TRADES_LIMIT
    <3>2. MAX_TRADES_LIMIT \in Nat \ {0} /\ one \in Nat \ {0} /\ one < MAX_TRADES_LIMIT
      BY <3>1
    <3> HIDE DEF one
    <3> QED BY <3>2, ClampIsMost
  <2>2. r \in Seq(Prints) /\ Len(r) = n /\ r[1] = last
    <3>1. r = [i \in 1..n |-> tape[(n - i) + 1]]
      BY DEF Reverse, n
    <3>2. \A i \in 1..n : tape[(n - i) + 1] \in Prints
      <4> TAKE i \in 1..n
      <4>1. (n - i) + 1 \in 1..n
        BY <1>1
      <4> QED BY <1>1, <4>1
    <3> HIDE DEF r
    <3>3. r \in [1..n -> Prints]
      BY <3>1, <3>2
    <3>4. 1 \in 1..n /\ (n - 1) + 1 = n
      BY <1>1
    <3> QED BY <1>1, <3>1, <3>3, <3>4
  <2>3. l = 1
    <3>1. one \in Int /\ n \in Int /\ one <= n
      BY <1>1
    <3>2. l \in {one, n} /\ l <= one
      <4> HIDE DEF one
      <4> QED BY <3>1, MinTwo
    <3> QED BY <3>1, <3>2
  <2>4. get_trades(1) = SubSeq(r, 1, l)
    BY <2>1 DEF get_trades, recent, n
  <2> HIDE DEF r, l
  <2>5. SubSeq(r, 1, 1)[1] = r[1]
    <3>1. 1 <= Len(r)
      BY <1>1, <2>2
    <3> QED BY <2>2, <3>1
  <2> QED BY <2>2, <2>3, <2>4, <2>5
<1> QED BY <1>5, <1>7, <1>8, <1>9 DEF Last, n, s

-----------------------------------------------------------------------------
(* Candles *)

Bars == [open_time : Nat, open : Nat, high : Nat, low : Nat, close : Nat, volume : Nat]

\* A print that goes into a bar.
LEMMA IntoBarIs ==
  ASSUME NEW bar \in Bars, NEW t \in Prints
  PROVE  LET new == IntoBar(bar, t)
         IN /\ new \in Bars /\ new.open_time = bar.open_time
            /\ new.volume = bar.volume + t.qty
            /\ new.high \in {bar.high, t.price} /\ bar.high <= new.high /\ t.price <= new.high
            /\ new.low \in {bar.low, t.price} /\ new.low <= bar.low /\ new.low <= t.price
<1> DEFINE h == bar.high
           l == bar.low
           p == t.price
           high == Max({h, p})
           low == Min({l, p})
           v == bar.volume + t.qty
           one == [bar EXCEPT !.high = high]
           two == [one EXCEPT !.low = low]
           three == [two EXCEPT !.close = p]
           four == [three EXCEPT !.volume = v]
           rec == [open_time |-> bar.open_time, open |-> bar.open, high |-> high, low |-> low,
                   close |-> p, volume |-> v]
<1>1. /\ h \in Nat /\ l \in Nat /\ p \in Nat /\ v \in Nat /\ h \in Int /\ l \in Int /\ p \in Int
      /\ bar.open_time \in Nat /\ bar.open \in Nat
  BY DEF Bars, Prints
<1>2. /\ high \in {h, p} /\ h <= high /\ p <= high
      /\ low \in {l, p} /\ low <= l /\ low <= p
  <2> HIDE DEF h, l, p
  <2> QED BY <1>1, MaxTwo, MinTwo
<1>3. IntoBar(bar, t) = four
  BY DEF IntoBar
<1> HIDE DEF high, low, v, h, l, p
<1>4. bar = [open_time |-> bar.open_time, open |-> bar.open, high |-> bar.high, low |-> bar.low,
             close |-> bar.close, volume |-> bar.volume]
  BY DEF Bars
<1>5. one = [open_time |-> bar.open_time, open |-> bar.open, high |-> high, low |-> bar.low,
             close |-> bar.close, volume |-> bar.volume]
  BY <1>4
<1> HIDE DEF one
<1>6. two = [open_time |-> bar.open_time, open |-> bar.open, high |-> high, low |-> low,
             close |-> bar.close, volume |-> bar.volume]
  BY <1>5
<1> HIDE DEF two
<1>7. three = [open_time |-> bar.open_time, open |-> bar.open, high |-> high, low |-> low,
               close |-> p, volume |-> bar.volume]
  BY <1>6
<1> HIDE DEF three
<1>8. four = rec
  BY <1>7
<1> HIDE DEF four
<1>9. high \in Nat /\ low \in Nat
  BY <1>1, <1>2
<1>10. rec \in Bars
  BY <1>1, <1>9 DEF Bars
<1>11. /\ rec.open_time = bar.open_time /\ rec.volume = v /\ rec.high = high /\ rec.low = low
  OBVIOUS
<1> HIDE DEF rec
<1> QED BY <1>2, <1>3, <1>8, <1>10, <1>11 DEF h, l, p, v

LEMMA BucketIs ==
  ASSUME NEW t \in Prints, NEW u \in Prints, NEW length \in Nat \ {0}
  PROVE  /\ Bucket(t, length) \in Nat
         /\ t.timestamp <= u.timestamp => Bucket(t, length) <= Bucket(u, length)
<1> DEFINE x == t.timestamp
           y == u.timestamp
           p == x \div length
           q == y \div length
<1>1. x \in Nat /\ y \in Nat
  BY DEF Prints
<1> HIDE DEF x, y
<1>2. p \in Nat /\ q \in Nat /\ (x <= y => p <= q)
  BY <1>1, QuotientGrows
<1>3. Bucket(t, length) = p * length /\ Bucket(u, length) = q * length
  BY DEF Bucket, x, y
<1> HIDE DEF p, q
<1>4. p * length \in Nat
  BY <1>2
<1>5. p <= q => p * length <= q * length
  <2> HAVE p <= q
  <2> DEFINE m == q - p
  <2>1. m \in Nat /\ q = p + m
    BY <1>2
  <2> HIDE DEF m
  <2>2. q * length = p * length + m * length /\ m * length \in Nat
    BY <1>2, <2>1
  <2> QED BY <1>4, <2>2
<1> QED BY <1>2, <1>3, <1>4, <1>5 DEF x, y

LEMMA NewBarIs ==
  ASSUME NEW t \in Prints, NEW length \in Nat \ {0}
  PROVE  LET new == NewBar(t, length)
         IN /\ new \in Bars /\ new.open_time = Bucket(t, length)
            /\ new.volume = t.qty /\ new.high = t.price /\ new.low = t.price
<1>1. Bucket(t, length) \in Nat /\ t.price \in Nat /\ t.qty \in Nat
  BY BucketIs DEF Prints
<1> QED BY <1>1 DEF NewBar, Bars

Joins(bars, t, length) == bars # <<>> /\ bars[Len(bars)].open_time = Bucket(t, length)

\* The bars after a print: the newest one changed, or one more.
LEMMA IntoBarsIs ==
  ASSUME NEW bars \in Seq(Bars), NEW t \in Prints, NEW length \in Nat \ {0}
  PROVE  LET new == IntoBars(bars, t, length)
             n   == Len(bars)
         IN /\ new \in Seq(Bars)
            /\ Joins(bars, t, length) =>
                 /\ n \in Nat \ {0} /\ Len(new) = n /\ new[n] = IntoBar(bars[n], t)
                 /\ \A i \in 1..n - 1 : new[i] = bars[i]
            /\ ~ Joins(bars, t, length) =>
                 /\ Len(new) = n + 1 /\ new[n + 1] = NewBar(t, length)
                 /\ \A i \in 1..n : new[i] = bars[i]
<1> DEFINE n == Len(bars)
           new == IntoBars(bars, t, length)
<1>1. n \in Nat /\ (bars # <<>> => n # 0) /\ \A i \in 1..n : bars[i] \in Bars
  OBVIOUS
<1>2. CASE Joins(bars, t, length)
  <2> DEFINE front == SubSeq(bars, 1, n - 1)
             bar == IntoBar(bars[n], t)
  <2>1. new = Append(front, bar)
    BY <1>2 DEF Joins, IntoBars, Continues, Last, Front
  <2>2. n \in Nat \ {0} /\ n \in 1..n
    BY <1>1, <1>2 DEF Joins
  <2>3. bar \in Bars
    <3>1. bars[n] \in Bars
      BY <1>1, <2>2
    <3> HIDE DEF n
    <3> QED BY <3>1, IntoBarIs
  <2>4. front \in Seq(Bars) /\ Len(front) = n - 1 /\ \A i \in 1..n - 1 : front[i] = bars[i]
    <3>1. 1 \in Nat \ {0} /\ n - 1 \in Nat /\ n - 1 <= Len(bars) /\ 1 <= (n - 1) + 1
      BY <1>1, <2>2
    <3>2. n - 1 - 1 + 1 = n - 1 /\ \A i \in 1..n - 1 : 1 + i - 1 = i
      BY <1>1
    <3> DEFINE m == n - 1
    <3>3. m - 1 + 1 = m /\ m \in Nat /\ m <= Len(bars) /\ 1 <= m + 1
      BY <3>1
    <3> HIDE DEF m
    <3>4. /\ SubSeq(bars, 1, m) \in Seq(Bars) /\ Len(SubSeq(bars, 1, m)) = m - 1 + 1
          /\ \A x \in 1..m - 1 + 1 : SubSeq(bars, 1, m)[x] = bars[1 + x - 1]
      BY <3>1, <3>3, CutIs
    <3>5. \A x \in 1..m : 1 + x - 1 = x
      BY <3>3
    <3> QED BY <3>3, <3>4, <3>5 DEF m
  <2> HIDE DEF front, bar
  <2>5. /\ Append(front, bar) \in Seq(Bars) /\ Len(Append(front, bar)) = Len(front) + 1
        /\ Append(front, bar)[Len(front) + 1] = bar
        /\ \A i \in 1..Len(front) : Append(front, bar)[i] = front[i]
    BY <2>3, <2>4
  <2>6. (n - 1) + 1 = n
    BY <2>2
  <2>7. /\ new \in Seq(Bars) /\ Len(new) = n /\ new[n] = bar /\ \A i \in 1..n - 1 : new[i] = bars[i]
    BY <2>1, <2>4, <2>5, <2>6
  <2> QED BY <1>2, <2>2, <2>7 DEF bar
<1>3. CASE ~ Joins(bars, t, length)
  <2> DEFINE bar == NewBar(t, length)
  <2>1. new = Append(bars, bar)
    BY <1>3 DEF Joins, IntoBars, Continues, Last
  <2>2. bar \in Bars
    BY NewBarIs
  <2> HIDE DEF bar
  <2>3. /\ Append(bars, bar) \in Seq(Bars) /\ Len(Append(bars, bar)) = n + 1
        /\ Append(bars, bar)[n + 1] = bar
        /\ \A i \in 1..n : Append(bars, bar)[i] = bars[i]
    BY <2>2
  <2> QED BY <1>3, <2>1, <2>3 DEF bar
<1> QED BY <1>2, <1>3

At(bars, b) == {k \in 1..Len(bars) : bars[k].open_time = b}
Volumes(bars) == [k \in DOMAIN bars |-> bars[k].volume]
TradesOf(trades, m, b, length) == {k \in 1..m : Bucket(trades[k], length) = b}
QtysOf(trades) == [k \in DOMAIN trades |-> trades[k].qty]

\* The bars at b hold the first m prints of that interval.
Holds(bars, trades, m, length, b) ==
  /\ SumFunctionOnSet(Volumes(bars), At(bars, b)) = SumFunctionOnSet(QtysOf(trades), TradesOf(trades, m, b, length))
  /\ \A k \in At(bars, b) : /\ \E i \in TradesOf(trades, m, b, length) : bars[k].high = trades[i].price
                            /\ \E i \in TradesOf(trades, m, b, length) : bars[k].low = trades[i].price
  /\ \A i \in TradesOf(trades, m, b, length) :
       /\ \E k \in At(bars, b) : trades[i].price <= bars[k].high
       /\ \E k \in At(bars, b) : bars[k].low <= trades[i].price

\* The newest bar is that of the last print.
EndsAt(bars, trades, m, length) ==
  /\ bars \in Seq(Bars) /\ Len(bars) <= m
  /\ bars # <<>> => m # 0 /\ bars[Len(bars)].open_time = Bucket(trades[m], length)

\* The bars ascend if the first m prints do.
Climbs(bars, trades, m) ==
  (\A k \in 1..m - 1 : trades[k].timestamp <= trades[k + 1].timestamp) => Ascending(bars)

LEMMA TradeIs ==
  ASSUME NEW trades \in Seq(Prints), NEW i \in 1..Len(trades)
  PROVE  /\ trades[i] \in Prints /\ trades[i].price \in Nat /\ trades[i].qty \in Nat /\ trades[i].timestamp \in Nat
         /\ QtysOf(trades)[i] = trades[i].qty
<1>1. trades[i] \in Prints /\ DOMAIN trades = 1..Len(trades)
  OBVIOUS
<1> QED BY <1>1 DEF Prints, QtysOf

LEMMA BarIs ==
  ASSUME NEW bars \in Seq(Bars), NEW k \in 1..Len(bars)
  PROVE  /\ bars[k] \in Bars /\ bars[k].open_time \in Nat /\ bars[k].high \in Nat /\ bars[k].low \in Nat
         /\ bars[k].volume \in Nat /\ Volumes(bars)[k] = bars[k].volume
<1>1. bars[k] \in Bars /\ DOMAIN bars = 1..Len(bars)
  OBVIOUS
<1> QED BY <1>1 DEF Bars, Volumes

LEMMA AtFinite ==
  ASSUME NEW bars \in Seq(Bars), NEW b
  PROVE  IsFiniteSet(At(bars, b)) /\ At(bars, b) \subseteq 1..Len(bars)
<1>1. IsFiniteSet(1..Len(bars))
  BY FS_Interval
<1>2. At(bars, b) \subseteq 1..Len(bars)
  BY DEF At
<1> QED BY <1>1, <1>2, FS_Subset

LEMMA MineFinite ==
  ASSUME NEW trades, NEW m \in Nat, NEW length, NEW b
  PROVE  IsFiniteSet(TradesOf(trades, m, b, length)) /\ TradesOf(trades, m, b, length) \subseteq 1..m
<1>1. IsFiniteSet(1..m)
  BY FS_Interval
<1>2. TradesOf(trades, m, b, length) \subseteq 1..m
  BY DEF TradesOf
<1> QED BY <1>1, <1>2, FS_Subset

\* A print of another interval changes nothing at b.
LEMMA ElsewhereHolds ==
  ASSUME NEW trades \in Seq(Prints), NEW m \in Nat, m + 1 <= Len(trades), NEW length \in Nat \ {0},
         NEW bars \in Seq(Bars), NEW b, b # Bucket(trades[m + 1], length), Holds(bars, trades, m, length, b)
  PROVE  Holds(IntoBars(bars, trades[m + 1], length), trades, m + 1, length, b)
<1> DEFINE t == trades[m + 1]
           new == IntoBars(bars, t, length)
           n == Len(bars)
<1>1. t \in Prints /\ n \in Nat
  BY TradeIs
<1>2. /\ new \in Seq(Bars)
      /\ Joins(bars, t, length) =>
           /\ n \in Nat \ {0} /\ Len(new) = n /\ new[n] = IntoBar(bars[n], t)
           /\ \A i \in 1..n - 1 : new[i] = bars[i]
      /\ ~ Joins(bars, t, length) =>
           /\ Len(new) = n + 1 /\ new[n + 1] = NewBar(t, length)
           /\ \A i \in 1..n : new[i] = bars[i]
  BY <1>1, IntoBarsIs
<1> HIDE DEF new
<1>3. TradesOf(trades, m + 1, b, length) = TradesOf(trades, m, b, length)
  <2>1. \A i \in 1..m + 1 : i = m + 1 \/ i \in 1..m
    OBVIOUS
  <2>2. \A i \in 1..m : i \in 1..m + 1
    OBVIOUS
  <2> QED BY <2>1, <2>2 DEF TradesOf
<1>4. At(new, b) = At(bars, b) /\ \A k \in At(bars, b) : new[k] = bars[k]
  <2>1. CASE Joins(bars, t, length)
    <3>1. new[n].open_time = bars[n].open_time /\ bars[n].open_time # b
      <4>1. bars[n] \in Bars
        BY <1>1, <1>2, <2>1, BarIs
      <4>2. IntoBar(bars[n], t).open_time = bars[n].open_time
        BY <1>1, <4>1, IntoBarIs
      <4> QED BY <1>2, <2>1, <4>2 DEF Joins
    <3>2. \A i \in 1..n : i = n \/ i \in 1..n - 1
      BY <1>1
    <3> QED BY <1>2, <2>1, <3>1, <3>2 DEF At
  <2>2. CASE ~ Joins(bars, t, length)
    <3>1. new[n + 1].open_time # b
      <4>1. NewBar(t, length).open_time = Bucket(t, length)
        BY <1>1, NewBarIs
      <4> QED BY <1>2, <2>2, <4>1
    <3>2. \A i \in 1..n + 1 : i = n + 1 \/ i \in 1..n
      BY <1>1
    <3>3. \A i \in 1..n : i \in 1..n + 1
      BY <1>1
    <3> QED BY <1>2, <2>2, <3>1, <3>2, <3>3 DEF At
  <2> QED BY <2>1, <2>2
<1>5. SumFunctionOnSet(Volumes(new), At(bars, b)) = SumFunctionOnSet(Volumes(bars), At(bars, b))
  <2>1. \A k \in At(bars, b) : Volumes(bars)[k] \in Int /\ Volumes(new)[k] = Volumes(bars)[k]
    <3> TAKE k \in At(bars, b)
    <3>1. k \in 1..Len(bars) /\ k \in 1..Len(new)
      BY <1>4 DEF At
    <3> QED BY <1>2, <1>4, <3>1, BarIs
  <2>2. IsFiniteSet(At(bars, b))
    BY AtFinite
  <2> QED BY <2>1, <2>2, SumSame
<1> DEFINE less == TradesOf(trades, m, b, length)
           more == TradesOf(trades, m + 1, b, length)
           its == At(bars, b)
<1>6. /\ SumFunctionOnSet(Volumes(bars), its) = SumFunctionOnSet(QtysOf(trades), less)
      /\ \A k \in its : (\E i \in less : bars[k].high = trades[i].price) /\ (\E i \in less : bars[k].low = trades[i].price)
      /\ \A i \in less : (\E k \in its : trades[i].price <= bars[k].high) /\ (\E k \in its : bars[k].low <= trades[i].price)
  BY DEF Holds
<1>7. At(new, b) = its /\ more = less /\ \A k \in its : new[k] = bars[k]
  BY <1>3, <1>4
<1>8. SumFunctionOnSet(Volumes(new), its) = SumFunctionOnSet(QtysOf(trades), more)
  BY <1>5, <1>6, <1>7
<1> HIDE DEF less, more, its, t
<1>9. \A k \in its : (\E i \in more : new[k].high = trades[i].price) /\ (\E i \in more : new[k].low = trades[i].price)
  <2> TAKE k \in its
  <2>1. new[k] = bars[k] /\ more = less
    BY <1>7
  <2>2. \E i \in more : bars[k].high = trades[i].price
    BY <1>6, <2>1
  <2>3. \E i \in more : bars[k].low = trades[i].price
    BY <1>6, <2>1
  <2> QED BY <2>1, <2>2, <2>3
<1>10. \A i \in more : (\E k \in its : trades[i].price <= new[k].high) /\ (\E k \in its : new[k].low <= trades[i].price)
  <2> TAKE i \in more
  <2>1. PICK j \in its : trades[i].price <= bars[j].high
    BY <1>6, <1>7
  <2>2. PICK k \in its : bars[k].low <= trades[i].price
    BY <1>6, <1>7
  <2> QED BY <1>7, <2>1, <2>2
<1> QED BY <1>7, <1>8, <1>9, <1>10 DEF Holds, more, new, t

\* A print of the interval at b is added to what its bars hold.
LEMMA HereHolds ==
  ASSUME NEW trades \in Seq(Prints), NEW m \in Nat, m + 1 <= Len(trades), NEW length \in Nat \ {0},
         NEW bars \in Seq(Bars), NEW b, b = Bucket(trades[m + 1], length), Holds(bars, trades, m, length, b)
  PROVE  Holds(IntoBars(bars, trades[m + 1], length), trades, m + 1, length, b)
<1> DEFINE t == trades[m + 1]
           new == IntoBars(bars, t, length)
           n == Len(bars)
           mine == TradesOf(trades, m, b, length)
           more == TradesOf(trades, m + 1, b, length)
           its == At(bars, b)
           q == QtysOf(trades)
           v == Volumes(bars)
           w == Volumes(new)
<1>1. m + 1 \in 1..Len(trades) /\ n \in Nat
  OBVIOUS
<1>2. t \in Prints /\ t.price \in Nat /\ t.qty \in Nat /\ q[m + 1] = t.qty
  BY <1>1, TradeIs
<1>3. /\ new \in Seq(Bars)
      /\ Joins(bars, t, length) =>
           /\ n \in Nat \ {0} /\ Len(new) = n /\ new[n] = IntoBar(bars[n], t)
           /\ \A i \in 1..n - 1 : new[i] = bars[i]
      /\ ~ Joins(bars, t, length) =>
           /\ Len(new) = n + 1 /\ new[n + 1] = NewBar(t, length)
           /\ \A i \in 1..n : new[i] = bars[i]
  BY <1>2, IntoBarsIs
<1>4. more = mine \cup {m + 1} /\ m + 1 \notin mine
  <2>1. \A i \in 1..m + 1 : i = m + 1 \/ i \in 1..m
    OBVIOUS
  <2>2. m + 1 \in 1..m + 1 /\ m + 1 \notin 1..m /\ \A i \in 1..m : i \in 1..m + 1
    OBVIOUS
  <2> QED BY <2>1, <2>2 DEF TradesOf
<1>5. IsFiniteSet(mine) /\ mine \subseteq 1..m /\ IsFiniteSet(its) /\ its \subseteq 1..n
  BY MineFinite, AtFinite
<1>6. \A i \in mine : q[i] \in Int /\ trades[i].price \in Nat
  <2> TAKE i \in mine
  <2>1. i \in 1..Len(trades)
    BY <1>1, <1>5
  <2> QED BY <2>1, TradeIs
<1>7. \A k \in its : v[k] = bars[k].volume /\ v[k] \in Int /\ bars[k].high \in Nat /\ bars[k].low \in Nat
  BY <1>5, BarIs
<1>8. SumFunctionOnSet(q, more) = SumFunctionOnSet(q, mine) + t.qty
  <2> HIDE DEF mine, q, t, more
  <2> DEFINE e == m + 1
  <2>1. IsFiniteSet(mine) /\ e \notin mine /\ (\A i \in mine : q[i] \in Int) /\ q[e] \in Int
    BY <1>2, <1>4, <1>5, <1>6
  <2> HIDE DEF e
  <2>2. SumFunctionOnSet(q, mine \cup {e}) = SumFunctionOnSet(q, mine) + q[e]
    BY <2>1, SumAdd
  <2> QED BY <1>2, <1>4, <2>2 DEF e
<1>9. /\ SumFunctionOnSet(v, its) = SumFunctionOnSet(q, mine)
      /\ \A k \in its : (\E i \in mine : bars[k].high = trades[i].price) /\ (\E i \in mine : bars[k].low = trades[i].price)
      /\ \A i \in mine : (\E k \in its : trades[i].price <= bars[k].high) /\ (\E k \in its : bars[k].low <= trades[i].price)
  BY DEF Holds
<1> HIDE DEF mine, more, its, q, v, w, new, t
<1>10. CASE Joins(bars, t, length)
  <2> DEFINE old == bars[n]
             bar == new[n]
  <2>1. n \in 1..n /\ n \in its /\ Len(new) = n
    <3>1. n \in 1..n /\ Len(new) = n
      BY <1>3, <1>10
    <3>2. bars[n].open_time = b
      BY <1>10 DEF Joins, t
    <3> QED BY <3>1, <3>2 DEF its, At
  <2>2. /\ bar \in Bars /\ bar.open_time = old.open_time /\ bar.volume = old.volume + t.qty
        /\ bar.high \in {old.high, t.price} /\ old.high <= bar.high /\ t.price <= bar.high
        /\ bar.low \in {old.low, t.price} /\ bar.low <= old.low /\ bar.low <= t.price
    <3>1. old \in Bars /\ bar = IntoBar(old, t)
      BY <1>3, <1>10, <2>1, BarIs
    <3> HIDE DEF old, bar
    <3> QED BY <1>2, <3>1, IntoBarIs
  <2>3. \A k \in its : k # n => new[k] = bars[k]
    <3> TAKE k \in its
    <3> HAVE k # n
    <3>1. k \in 1..n - 1
      BY <1>1, <1>5
    <3> QED BY <1>3, <1>10, <3>1
  <2>4. At(new, b) = its
    <3>1. \A k \in 1..n : new[k].open_time = bars[k].open_time
      <4> TAKE k \in 1..n
      <4>1. k = n \/ k \in 1..n - 1
        BY <1>1
      <4> QED BY <1>3, <1>10, <2>2, <4>1
    <3> QED BY <2>1, <3>1 DEF At, its
  <2>5. SumFunctionOnSet(w, its) = SumFunctionOnSet(v, its) + t.qty
    <3>1. \A k \in its : w[k] = new[k].volume
      <4> TAKE k \in its
      <4>1. k \in 1..Len(new)
        BY <1>5, <2>1
      <4> QED BY <1>3, <4>1, BarIs DEF w
    <3>2. \A k \in its \ {n} : w[k] = v[k]
      BY <1>7, <2>3, <3>1
    <3>3. w[n] = v[n] + t.qty /\ w[n] \in Int /\ v[n] \in Int
      BY <1>2, <1>7, <2>1, <2>2, <3>1
    <3>4. SumFunctionOnSet(w, its) = SumFunctionOnSet(v, its) + w[n] - v[n]
      <4>1. IsFiniteSet(its) /\ n \in its /\ (\A k \in its : v[k] \in Int)
        BY <1>5, <1>7, <2>1
      <4> HIDE DEF n
      <4> QED BY <3>2, <3>3, <4>1, SumChange
    <3>5. SumFunctionOnSet(v, its) \in Int
      BY <1>5, <1>7, SumInt
    <3> QED BY <1>2, <3>3, <3>4, <3>5
  <2> HIDE DEF old, bar
  <2>6. trades[m + 1] = t
    BY DEF t
  <2>7. ASSUME NEW k \in its
        PROVE  (\E i \in more : new[k].high = trades[i].price) /\ (\E i \in more : new[k].low = trades[i].price)
    <3>1. CASE k # n
      <4>1. PICK i \in mine : bars[k].high = trades[i].price
        BY <1>9
      <4>2. PICK j \in mine : bars[k].low = trades[j].price
        BY <1>9
      <4>3. new[k] = bars[k] /\ i \in more /\ j \in more
        BY <1>4, <2>3, <3>1
      <4> QED BY <4>1, <4>2, <4>3
    <3>2. CASE k = n
      <4>1. \E i \in more : bar.high = trades[i].price
        BY <1>4, <1>9, <2>1, <2>2, <2>6 DEF old
      <4>2. \E i \in more : bar.low = trades[i].price
        BY <1>4, <1>9, <2>1, <2>2, <2>6 DEF old
      <4> QED BY <3>2, <4>1, <4>2 DEF bar
    <3> QED BY <3>1, <3>2
  <2>8. \A k \in its : bars[k].high <= new[k].high /\ new[k].low <= bars[k].low /\ new[k].high \in Nat /\ new[k].low \in Nat
    <3> TAKE k \in its
    <3>1. CASE k # n
      BY <1>7, <2>3, <3>1
    <3>2. CASE k = n
      BY <1>7, <2>2, <3>2 DEF old, bar, Bars
    <3> QED BY <3>1, <3>2
  <2>9. ASSUME NEW i \in more
        PROVE  (\E k \in its : trades[i].price <= new[k].high) /\ (\E k \in its : new[k].low <= trades[i].price)
    <3>1. CASE i = m + 1
      BY <2>1, <2>2, <2>6, <3>1 DEF bar
    <3>2. CASE i \in mine
      <4>1. PICK j \in its : trades[i].price <= bars[j].high
        BY <1>9, <3>2
      <4>2. PICK k \in its : bars[k].low <= trades[i].price
        BY <1>9, <3>2
      <4>3. trades[i].price <= new[j].high
        BY <1>6, <1>7, <2>8, <3>2, <4>1
      <4>4. new[k].low <= trades[i].price
        BY <1>6, <1>7, <2>8, <3>2, <4>2
      <4> QED BY <4>3, <4>4
    <3> QED BY <1>4, <3>1, <3>2
  <2>10. SumFunctionOnSet(w, its) = SumFunctionOnSet(q, more)
    BY <1>8, <1>9, <2>5
  <2> QED BY <2>4, <2>7, <2>9, <2>10 DEF Holds, w, more, q, new, t
<1>11. CASE ~ Joins(bars, t, length)
  <2> DEFINE bar == new[n + 1]
             all == its \cup {n + 1}
  <2>1. bar.open_time = b /\ bar.volume = t.qty /\ bar.high = t.price /\ bar.low = t.price /\ Len(new) = n + 1
    <3>1. bar = NewBar(t, length)
      BY <1>3, <1>11
    <3> HIDE DEF bar
    <3>2. /\ NewBar(t, length).open_time = Bucket(t, length)
          /\ NewBar(t, length).volume = t.qty /\ NewBar(t, length).high = t.price /\ NewBar(t, length).low = t.price
      BY <1>2, NewBarIs
    <3> QED BY <1>3, <1>11, <3>1, <3>2 DEF t
  <2>2. \A k \in its : new[k] = bars[k]
    BY <1>3, <1>5, <1>11
  <2>3. At(new, b) = all
    <3>1. \A k \in 1..n + 1 : k = n + 1 \/ k \in 1..n
      BY <1>1
    <3>2. \A k \in 1..n : k \in 1..n + 1 /\ new[k] = bars[k]
      BY <1>1, <1>3, <1>11
    <3>3. n + 1 \in 1..n + 1
      BY <1>1
    <3> QED BY <2>1, <3>1, <3>2, <3>3 DEF At, its
  <2>4. SumFunctionOnSet(w, all) = SumFunctionOnSet(v, its) + t.qty
    <3>1. \A k \in all : w[k] = new[k].volume
      <4> TAKE k \in all
      <4>1. k \in 1..Len(new)
        BY <1>1, <1>5, <2>1
      <4> QED BY <1>3, <4>1, BarIs DEF w
    <3>2. \A k \in its : w[k] = v[k]
      BY <1>7, <2>2, <3>1
    <3>3. w[n + 1] = t.qty /\ w[n + 1] \in Int /\ n + 1 \notin its
      BY <1>1, <1>2, <1>5, <2>1, <3>1
    <3> QED BY <1>5, <1>7, <3>2, <3>3, SumAdd
  <2>5. trades[m + 1] = t
    BY DEF t
  <2>6. ASSUME NEW k \in all
        PROVE  (\E i \in more : new[k].high = trades[i].price) /\ (\E i \in more : new[k].low = trades[i].price)
    <3>1. CASE k \in its
      <4>1. PICK i \in mine : bars[k].high = trades[i].price
        BY <1>9, <3>1
      <4>2. PICK j \in mine : bars[k].low = trades[j].price
        BY <1>9, <3>1
      <4>3. new[k] = bars[k] /\ i \in more /\ j \in more
        BY <1>4, <2>2, <3>1
      <4> QED BY <4>1, <4>2, <4>3
    <3>2. CASE k = n + 1
      BY <1>4, <2>1, <2>5, <3>2
    <3> QED BY <3>1, <3>2
  <2>7. ASSUME NEW i \in more
        PROVE  (\E k \in all : trades[i].price <= new[k].high) /\ (\E k \in all : new[k].low <= trades[i].price)
    <3>1. CASE i = m + 1
      BY <1>2, <2>1, <2>5, <3>1
    <3>2. CASE i \in mine
      <4>1. PICK j \in its : trades[i].price <= bars[j].high
        BY <1>9, <3>2
      <4>2. PICK k \in its : bars[k].low <= trades[i].price
        BY <1>9, <3>2
      <4> QED BY <2>2, <4>1, <4>2
    <3> QED BY <1>4, <3>1, <3>2
  <2>8. SumFunctionOnSet(w, all) = SumFunctionOnSet(q, more)
    BY <1>8, <1>9, <2>4
  <2> QED BY <2>3, <2>6, <2>7, <2>8 DEF Holds, w, more, q, new, t
<1> QED BY <1>10, <1>11

LEMMA EndsAtNext ==
  ASSUME NEW trades \in Seq(Prints), NEW m \in Nat, m + 1 <= Len(trades), NEW length \in Nat \ {0},
         NEW bars, EndsAt(bars, trades, m, length)
  PROVE  EndsAt(IntoBars(bars, trades[m + 1], length), trades, m + 1, length)
<1> DEFINE t == trades[m + 1]
           new == IntoBars(bars, t, length)
           n == Len(bars)
<1>1. t \in Prints
  BY TradeIs
<1>2. bars \in Seq(Bars) /\ n \in Nat /\ n <= m
  BY DEF EndsAt
<1>3. /\ new \in Seq(Bars)
      /\ Joins(bars, t, length) =>
           /\ n \in Nat \ {0} /\ Len(new) = n /\ new[n] = IntoBar(bars[n], t)
           /\ \A i \in 1..n - 1 : new[i] = bars[i]
      /\ ~ Joins(bars, t, length) =>
           /\ Len(new) = n + 1 /\ new[n + 1] = NewBar(t, length)
           /\ \A i \in 1..n : new[i] = bars[i]
  BY <1>1, <1>2, IntoBarsIs
<1> HIDE DEF new
<1>4. Len(new) <= m + 1 /\ new[Len(new)].open_time = Bucket(t, length)
  <2>1. CASE Joins(bars, t, length)
    <3>1. bars[n] \in Bars /\ bars[n].open_time = Bucket(t, length)
      BY <1>2, <1>3, <2>1 DEF Joins
    <3>2. IntoBar(bars[n], t).open_time = bars[n].open_time
      BY <1>1, <3>1, IntoBarIs
    <3>3. n <= m + 1
      BY <1>2
    <3> QED BY <1>3, <2>1, <3>1, <3>2, <3>3
  <2>2. CASE ~ Joins(bars, t, length)
    <3>1. NewBar(t, length).open_time = Bucket(t, length)
      BY <1>1, NewBarIs
    <3>2. n + 1 <= m + 1
      BY <1>2
    <3> QED BY <1>3, <2>2, <3>1, <3>2
  <2> QED BY <2>1, <2>2
<1>5. m + 1 # 0
  OBVIOUS
<1> QED BY <1>3, <1>4, <1>5 DEF EndsAt, new, t

\* A print no older than the one before joins the newest bar or opens a later one.
LEMMA ClimbsNext ==
  ASSUME NEW trades \in Seq(Prints), NEW m \in Nat, m + 1 <= Len(trades), NEW length \in Nat \ {0},
         NEW bars, EndsAt(bars, trades, m, length), Climbs(bars, trades, m)
  PROVE  Climbs(IntoBars(bars, trades[m + 1], length), trades, m + 1)
<1> DEFINE t == trades[m + 1]
           new == IntoBars(bars, t, length)
           n == Len(bars)
<1> SUFFICES ASSUME \A k \in 1..(m + 1) - 1 : trades[k].timestamp <= trades[k + 1].timestamp
             PROVE  Ascending(new)
  BY DEF Climbs
<1>1. t \in Prints
  BY TradeIs
<1>2. /\ bars \in Seq(Bars) /\ n \in Nat /\ n <= m
      /\ bars # <<>> => m # 0 /\ bars[n].open_time = Bucket(trades[m], length)
  BY DEF EndsAt
<1>3. \A k \in 1..n - 1 : bars[k].open_time < bars[k + 1].open_time
  <2>1. \A k \in 1..m - 1 : k \in 1..(m + 1) - 1
    OBVIOUS
  <2> QED BY <2>1 DEF Climbs, Ascending
<1>4. /\ new \in Seq(Bars)
      /\ Joins(bars, t, length) =>
           /\ n \in Nat \ {0} /\ Len(new) = n /\ new[n] = IntoBar(bars[n], t)
           /\ \A i \in 1..n - 1 : new[i] = bars[i]
      /\ ~ Joins(bars, t, length) =>
           /\ Len(new) = n + 1 /\ new[n + 1] = NewBar(t, length)
           /\ \A i \in 1..n : new[i] = bars[i]
  BY <1>1, <1>2, IntoBarsIs
<1> HIDE DEF new
<1>5. CASE Joins(bars, t, length)
  <2>1. new[n].open_time = bars[n].open_time
    <3>1. bars[n] \in Bars /\ new[n] = IntoBar(bars[n], t)
      BY <1>2, <1>4, <1>5
    <3>2. IntoBar(bars[n], t).open_time = bars[n].open_time
      BY <1>1, <3>1, IntoBarIs
    <3> QED BY <3>1, <3>2
  <2>2. \A k \in 1..n : new[k].open_time = bars[k].open_time
    <3>1. \A k \in 1..n : k = n \/ k \in 1..n - 1
      BY <1>2
    <3> QED BY <1>4, <1>5, <2>1, <3>1
  <2>3. \A k \in 1..n - 1 : k \in 1..n /\ k + 1 \in 1..n
    BY <1>2
  <2> QED BY <1>3, <1>4, <1>5, <2>2, <2>3 DEF Ascending
<1>6. CASE ~ Joins(bars, t, length)
  <2>1. new[n + 1].open_time = Bucket(t, length)
    BY <1>1, <1>4, <1>6, NewBarIs
  <2>2. n # 0 => bars[n].open_time < new[n + 1].open_time
    <3> HAVE n # 0
    <3>1. bars # <<>> /\ m \in 1..(m + 1) - 1 /\ m \in 1..Len(trades)
      BY <1>2
    <3>2. trades[m] \in Prints /\ trades[m].timestamp <= t.timestamp
      BY <3>1, TradeIs
    <3>3. Bucket(trades[m], length) <= Bucket(t, length)
      BY <1>1, <3>2, BucketIs
    <3>4. Bucket(trades[m], length) \in Nat /\ Bucket(t, length) \in Nat
      BY <1>1, <3>2, BucketIs
    <3>5. bars[n].open_time = Bucket(trades[m], length) /\ bars[n].open_time # Bucket(t, length)
      BY <1>2, <1>6, <3>1 DEF Joins
    <3> HIDE DEF t
    <3> QED BY <2>1, <3>3, <3>4, <3>5
  <2>3. ASSUME NEW k \in 1..(n + 1) - 1 PROVE new[k].open_time < new[k + 1].open_time
    <3>1. CASE k = n
      <4>1. n # 0 /\ n \in 1..n
        BY <1>2, <3>1
      <4>2. new[n] = bars[n]
        BY <1>4, <1>6, <4>1
      <4> QED BY <2>2, <3>1, <4>1, <4>2
    <3>2. CASE k # n
      <4>1. k \in 1..n /\ k + 1 \in 1..n /\ k \in 1..n - 1
        BY <1>2, <3>2
      <4> QED BY <1>3, <1>4, <1>6, <4>1
    <3> QED BY <3>1, <3>2
  <2> QED BY <1>4, <1>6, <2>3 DEF Ascending
<1> QED BY <1>5, <1>6

AllBars(trades, length) == FoldLeft(LAMBDA acc, t : IntoBars(acc, t, length), <<>>, trades)

CandleFold(trades, length, g) ==
  g = [s \in SUBSET DOMAIN trades |->
         IF s = {} THEN <<>> ELSE IntoBars(g[s \ {Max(s)}], trades[Max(s)], length)]

\* The bars after each print, as a run.
LEMMA CandleRuns ==
  ASSUME NEW trades \in Seq(Prints), NEW length \in Nat \ {0}
  PROVE  \E run : /\ run \in [0..Len(trades) -> Seq(Bars)] /\ run[0] = <<>>
                  /\ \A n \in 1..Len(trades) : run[n] = IntoBars(run[n - 1], trades[n], length)
                  /\ AllBars(trades, length) = run[Len(trades)]
<1> DEFINE V == Seq(Bars)
           D == DOMAIN trades
           N == Len(trades)
           step == [p \in V \X (1..N) |-> IntoBars(p[1], trades[p[2]], length)]
           it == CHOOSE g : CandleFold(trades, length, g)
           base == <<>>
<1>1. N \in Nat /\ D = 1..N /\ \A n \in 1..N : trades[n] \in Prints
  OBVIOUS
<1>2. AllBars(trades, length) = it[D]
  BY Zenon DEF AllBars, FoldLeft, MapThenFoldSet, CandleFold
<1> HIDE DEF D, N
<1>3. \A bars \in V, n \in 1..N : IntoBars(bars, trades[n], length) \in V
  BY <1>1, IntoBarsIs
<1>4. step \in StepsOf(V, N) /\ base \in V
  BY <1>3 DEF StepsOf
<1>5. \A x \in V, n \in 1..N : step[<<x, n>>] = IntoBars(x, trades[n], length)
  OBVIOUS
<1> HIDE DEF V, step
<1>6. PICK g : FoldsUp(g, V, N, base, step)
  BY <1>1, <1>4, FoldExists
<1>7. \A s \in SUBSET (1..N) : s # {} => /\ Max(s) \in 1..N /\ s \ {Max(s)} \in SUBSET (1..N)
  <2> TAKE s \in SUBSET (1..N)
  <2> HAVE s # {}
  <2>1. Max(s) \in s
    BY <1>1, MaxOf
  <2> QED BY <2>1
<1>8. \E h : CandleFold(trades, length, h)
  <2>1. \A s \in SUBSET (1..N) : g[s] = IF s = {} THEN base ELSE IntoBars(g[s \ {Max(s)}], trades[Max(s)], length)
    <3> TAKE s \in SUBSET (1..N)
    <3>1. g[s] = IF s = {} THEN base ELSE step[<<g[s \ {Max(s)}], Max(s)>>]
      BY <1>6 DEF FoldsUp
    <3>2. CASE s = {}
      BY <3>1, <3>2
    <3>3. CASE s # {}
      <4>1. Max(s) \in 1..N /\ g[s \ {Max(s)}] \in V
        BY <1>6, <1>7, <3>3 DEF FoldsUp
      <4> QED BY <1>5, <3>1, <3>3, <4>1
    <3> QED BY <3>2, <3>3
  <2>2. g = [s \in SUBSET (1..N) |-> g[s]]
    BY <1>6 DEF FoldsUp
  <2>3. CandleFold(trades, length, g)
    BY <1>1, <2>1, <2>2 DEF CandleFold, D
  <2> QED BY <2>3
<1>9. CandleFold(trades, length, it)
  BY <1>8
<1> HIDE DEF it
<1>10. \A s \in SUBSET (1..N) : it[s] = IF s = {} THEN base ELSE IntoBars(it[s \ {Max(s)}], trades[Max(s)], length)
  BY <1>1, <1>9 DEF CandleFold, D
<1>11. it[{}] = base
  <2>1. {} \in SUBSET (1..N)
    OBVIOUS
  <2> QED BY <1>10, <2>1
<1>12. \A s \in SUBSET (1..N) :
         s # {} /\ it[s \ {Max(s)}] \in V => it[s] = step[<<it[s \ {Max(s)}], Max(s)>>]
  BY <1>5, <1>7, <1>10
<1> DEFINE run == [n \in 0..N |-> it[1..n]]
<1>13. RunOf(run, V, N, base, step)
  <2> HIDE DEF base
  <2> QED BY <1>1, <1>4, <1>11, <1>12, FoldRuns
<1>14. run[N] = it[D]
  BY <1>1
<1> HIDE DEF run
<1>15. \A n \in 1..N : run[n] = IntoBars(run[n - 1], trades[n], length)
  <2> TAKE n \in 1..N
  <2>1. n - 1 \in 0..N
    BY <1>1
  <2> QED BY <1>5, <1>13, <2>1 DEF RunOf
<1> QED BY <1>2, <1>13, <1>14, <1>15 DEF RunOf, V, N, base

\* The bars of a tape: the newest is that of its last print, they ascend if the
\* prints do, and those of each interval hold its prints.
LEMMA BarsOfTape ==
  ASSUME NEW trades \in Seq(Prints), NEW length \in Nat \ {0}
  PROVE  LET bars == AllBars(trades, length) IN
         /\ EndsAt(bars, trades, Len(trades), length)
         /\ Climbs(bars, trades, Len(trades))
         /\ \A b \in Nat : Holds(bars, trades, Len(trades), length, b)
<1> DEFINE N == Len(trades)
<1>1. PICK run : /\ run \in [0..N -> Seq(Bars)] /\ run[0] = <<>>
                 /\ \A n \in 1..N : run[n] = IntoBars(run[n - 1], trades[n], length)
                 /\ AllBars(trades, length) = run[N]
  BY CandleRuns
<1>2. N \in Nat /\ N <= Len(trades)
  OBVIOUS
<1> HIDE DEF N
<1> DEFINE Sound(n) == /\ EndsAt(run[n], trades, n, length)
                       /\ Climbs(run[n], trades, n)
                       /\ \A b \in Nat : Holds(run[n], trades, n, length, b)
           G == {n \in Nat : n <= N => Sound(n)}
<1>3. 0 \in G
  <2> DEFINE none == <<>>
  <2>1. run[0] = none /\ none \in Seq(Bars) /\ Len(none) = 0
    BY <1>1
  <2>2. EndsAt(none, trades, 0, length)
    BY DEF EndsAt
  <2>3. Climbs(none, trades, 0)
    BY DEF Climbs, Ascending
  <2>4. ASSUME NEW b \in Nat PROVE Holds(none, trades, 0, length, b)
    <3>1. At(none, b) = {} /\ TradesOf(trades, 0, b, length) = {}
      BY DEF At, TradesOf
    <3> HIDE DEF none
    <3>2. SumFunctionOnSet(Volumes(none), {}) = 0 /\ SumFunctionOnSet(QtysOf(trades), {}) = 0
      BY SumEmpty
    <3> QED BY <3>1, <3>2 DEF Holds
  <2> HIDE DEF none
  <2> QED BY <2>1, <2>2, <2>3, <2>4
<1>4. \A n \in Nat : n \in G => n + 1 \in G
  <2> SUFFICES ASSUME NEW n \in Nat, n + 1 <= N, Sound(n) PROVE Sound(n + 1)
    <3> HIDE DEF Sound
    <3> QED BY <1>2
  <2> DEFINE bars == run[n]
             new == IntoBars(bars, trades[n + 1], length)
  <2>1. n + 1 \in 1..N /\ n + 1 - 1 = n /\ n + 1 <= Len(trades) /\ n \in 0..N
    BY <1>2
  <2>2. run[n + 1] = new
    BY <1>1, <2>1
  <2>3. bars \in Seq(Bars) /\ EndsAt(bars, trades, n, length) /\ Climbs(bars, trades, n)
    BY <1>1, <2>1
  <2>4. \A b \in Nat : Holds(bars, trades, n, length, b)
    OBVIOUS
  <2> HIDE DEF bars
  <2>5. EndsAt(new, trades, n + 1, length)
    BY <2>1, <2>3, EndsAtNext
  <2>6. Climbs(new, trades, n + 1)
    BY <2>1, <2>3, ClimbsNext
  <2>7. ASSUME NEW b \in Nat PROVE Holds(new, trades, n + 1, length, b)
    <3>1. Holds(bars, trades, n, length, b)
      BY <2>4
    <3>2. CASE b = Bucket(trades[n + 1], length)
      BY <2>1, <2>3, <3>1, <3>2, HereHolds
    <3>3. CASE b # Bucket(trades[n + 1], length)
      BY <2>1, <2>3, <3>1, <3>3, ElsewhereHolds
    <3> QED BY <3>2, <3>3
  <2> QED BY <2>2, <2>5, <2>6, <2>7
<1> HIDE DEF G
<1>5. Nat \subseteq G
  BY <1>3, <1>4, Induction
<1>6. Sound(N)
  <2>1. N \in G /\ N <= N
    BY <1>2, <1>5
  <2> QED BY <2>1 DEF G
<1> QED BY <1>1, <1>6 DEF N

LEMMA IntervalsAre ==
  ASSUME NEW i \in DOMAIN interval_to_seconds
  PROVE  interval_to_seconds[i] \in Nat \ {0}
<1>1. i \in {"1m", "5m", "15m", "30m", "1h", "4h", "1d"}
  BY DEF interval_to_seconds
<1>2. interval_to_seconds[i] \in {1, 5, 15, 30, 60, 240, 1440}
  BY <1>1 DEF interval_to_seconds
<1> QED BY <1>2

\* As many bars as there are prints are all the bars.
LEMMA AllCandles ==
  ASSUME NEW trades \in Seq(Prints), NEW length \in Nat \ {0}
  PROVE  candles(trades, length, Len(trades)) = AllBars(trades, length)
<1> DEFINE bars == AllBars(trades, length)
           n == Len(bars)
           one == 1
           x == n - Len(trades) + 1
<1>1. bars \in Seq(Bars) /\ n <= Len(trades) /\ n \in Nat
  BY BarsOfTape DEF EndsAt
<1>2. candles(trades, length, Len(trades)) = SubSeq(bars, Max({one, x}), n)
  BY Zenon DEF candles, AllBars
<1> HIDE DEF bars
<1>3. x \in Int /\ x <= one /\ one \in Int
  BY <1>1
<1>4. Max({one, x}) = 1
  <2>1. Max({one, x}) \in {one, x} /\ one <= Max({one, x})
    <3> HIDE DEF one, x
    <3> QED BY <1>3, MaxTwo
  <2> QED BY <1>3, <2>1
<1> HIDE DEF x, one
<1>5. SubSeq(bars, 1, n) = bars
  <2> DEFINE s == SubSeq(bars, 1, n)
  <2>1. s \in Seq(Bars) /\ Len(s) = n - 1 + 1 /\ \A i \in 1..n - 1 + 1 : s[i] = bars[1 + i - 1]
    <3>1. 1 \in Nat \ {0} /\ 1 <= n + 1 /\ n <= Len(bars)
      BY <1>1
    <3> QED BY <1>1, <3>1, CutIs
  <2>2. n - 1 + 1 = n /\ \A i \in 1..n : 1 + i - 1 = i
    BY <1>1
  <2> HIDE DEF s
  <2>3. Len(s) = Len(bars) /\ \A i \in 1..Len(s) : s[i] = bars[i]
    BY <1>1, <2>1, <2>2
  <2>4. s = bars
    BY <1>1, <2>1, <2>3, SeqEqual
  <2> QED BY <2>4 DEF s
<1> QED BY <1>2, <1>4, <1>5 DEF bars

\* The bars of an interval and its prints have one volume, one high and one low.
LEMMA TapeAddsUp ==
  ASSUME TapeInv
  PROVE  CandlesAddUp
<1> SUFFICES ASSUME NEW interval \in DOMAIN interval_to_seconds
             PROVE  LET length == interval_to_seconds[interval]
                        bars   == candles(tape, length, Len(tape))
                    IN \A b \in {Bucket(t, length) : t \in Elements(tape)} :
                         LET mine == {k \in DOMAIN tape : Bucket(tape[k], length) = b}
                             its  == {k \in DOMAIN bars : bars[k].open_time = b}
                         IN /\ SumFunctionOnSet([k \in DOMAIN bars |-> bars[k].volume], its)
                                 = SumFunctionOnSet([k \in DOMAIN tape |-> tape[k].qty], mine)
                            /\ Max({bars[k].high : k \in its}) = Max({tape[k].price : k \in mine})
                            /\ Min({bars[k].low : k \in its}) = Min({tape[k].price : k \in mine})
  BY DEF CandlesAddUp
<1> DEFINE length == interval_to_seconds[interval]
           bars == candles(tape, length, Len(tape))
           m == Len(tape)
<1>1. tape \in Seq(Prints) /\ m \in Nat /\ DOMAIN tape = 1..m
  BY DEF TapeInv
<1>2. length \in Nat \ {0}
  BY IntervalsAre
<1>3. bars = AllBars(tape, length)
  <2> HIDE DEF length
  <2> QED BY <1>1, <1>2, AllCandles
<1>4. EndsAt(bars, tape, m, length) /\ \A b \in Nat : Holds(bars, tape, m, length, b)
  <2> HIDE DEF length
  <2> QED BY <1>1, <1>2, <1>3, BarsOfTape
<1>5. bars \in Seq(Bars) /\ DOMAIN bars = 1..Len(bars)
  BY <1>4 DEF EndsAt
<1> HIDE DEF length, bars, m
<1> SUFFICES ASSUME NEW t \in Elements(tape)
             PROVE  LET b == Bucket(t, length)
                        mine == {k \in DOMAIN tape : Bucket(tape[k], length) = b}
                        its  == {k \in DOMAIN bars : bars[k].open_time = b}
                    IN /\ SumFunctionOnSet([k \in DOMAIN bars |-> bars[k].volume], its)
                            = SumFunctionOnSet([k \in DOMAIN tape |-> tape[k].qty], mine)
                       /\ Max({bars[k].high : k \in its}) = Max({tape[k].price : k \in mine})
                       /\ Min({bars[k].low : k \in its}) = Min({tape[k].price : k \in mine})
  BY DEF length, bars, m
<1> DEFINE b == Bucket(t, length)
           mine == {k \in DOMAIN tape : Bucket(tape[k], length) = b}
           its == {k \in DOMAIN bars : bars[k].open_time = b}
           highs == {bars[k].high : k \in its}
           lows == {bars[k].low : k \in its}
           prices == {tape[k].price : k \in mine}
<1>6. PICK j \in 1..m : t = tape[j]
  BY <1>1 DEF Elements
<1>7. b \in Nat
  BY <1>1, <1>2, <1>6, BucketIs DEF m
<1>8. mine = TradesOf(tape, m, b, length) /\ its = At(bars, b) /\ j \in mine
  BY <1>1, <1>5, <1>6 DEF TradesOf, At
<1> HIDE DEF b
<1>9. Holds(bars, tape, m, length, b)
  BY <1>4, <1>7
<1> HIDE DEF mine, its
<1>10. /\ SumFunctionOnSet(Volumes(bars), its) = SumFunctionOnSet(QtysOf(tape), mine)
       /\ \A k \in its : (\E i \in mine : bars[k].high = tape[i].price) /\ (\E i \in mine : bars[k].low = tape[i].price)
       /\ \A i \in mine : (\E k \in its : tape[i].price <= bars[k].high) /\ (\E k \in its : bars[k].low <= tape[i].price)
  BY <1>8, <1>9 DEF Holds
<1>11. SumFunctionOnSet([k \in DOMAIN bars |-> bars[k].volume], its)
         = SumFunctionOnSet([k \in DOMAIN tape |-> tape[k].qty], mine)
  BY <1>10 DEF Volumes, QtysOf
<1>12. IsFiniteSet(its) /\ its \subseteq 1..Len(bars) /\ IsFiniteSet(mine) /\ mine \subseteq 1..m
  BY <1>1, <1>5, <1>8, AtFinite, MineFinite
<1>13. /\ \A k \in its : bars[k].high \in Nat /\ bars[k].low \in Nat
       /\ \A i \in mine : tape[i].price \in Nat
  BY <1>1, <1>5, <1>12, BarIs, TradeIs DEF m
<1>14. IsFiniteSet(highs) /\ IsFiniteSet(lows) /\ IsFiniteSet(prices)
  <2> DEFINE high == [k \in its |-> bars[k].high]
             low == [k \in its |-> bars[k].low]
             price == [k \in mine |-> tape[k].price]
  <2>1. highs = {high[k] : k \in its} /\ lows = {low[k] : k \in its} /\ prices = {price[k] : k \in mine}
    OBVIOUS
  <2> HIDE DEF high, low, price, highs, lows, prices
  <2> QED BY <1>12, <2>1, ValuesFinite
<1>15. highs \subseteq Nat /\ lows \subseteq Nat /\ prices \subseteq Nat
  BY <1>13
<1>16. prices # {} /\ highs # {} /\ lows # {} /\ highs \subseteq prices /\ lows \subseteq prices
  <2>1. prices # {}
    BY <1>8
  <2>2. highs # {} /\ lows # {}
    <3>1. j \in mine
      BY <1>8
    <3>2. PICK k \in its : tape[j].price <= bars[k].high
      BY <1>10, <3>1, Zenon
    <3>3. bars[k].high \in highs /\ bars[k].low \in lows
      OBVIOUS
    <3> QED BY <3>3
  <2>3. highs \subseteq prices
    BY <1>10
  <2>4. lows \subseteq prices
    BY <1>10
  <2> QED BY <2>1, <2>2, <2>3, <2>4
<1>17. (\A p \in prices : \E h \in highs : p <= h) /\ (\A p \in prices : \E l \in lows : l <= p)
  BY <1>10
<1> HIDE DEF highs, lows, prices
<1>18. Max(highs) = Max(prices)
  <2>1. /\ Max(highs) \in highs /\ \A y \in highs : y <= Max(highs)
        /\ Max(prices) \in prices /\ \A y \in prices : y <= Max(prices)
    BY <1>14, <1>15, <1>16, MaxOfNats
  <2>2. PICK h \in highs : Max(prices) <= h
    BY <1>17, <2>1
  <2>3. h <= Max(highs) /\ Max(highs) <= Max(prices)
    BY <1>16, <2>1
  <2>4. h \in Nat /\ Max(highs) \in Nat /\ Max(prices) \in Nat
    BY <1>15, <2>1
  <2> QED BY <2>2, <2>3, <2>4
<1>19. Min(lows) = Min(prices)
  <2>1. /\ Min(lows) \in lows /\ \A y \in lows : Min(lows) <= y
        /\ Min(prices) \in prices /\ \A y \in prices : Min(prices) <= y
    BY <1>15, <1>16, MinOf
  <2>2. PICK l \in lows : l <= Min(prices)
    BY <1>17, <2>1
  <2>3. Min(lows) <= l /\ Min(prices) <= Min(lows)
    BY <1>16, <2>1
  <2>4. l \in Nat /\ Min(lows) \in Nat /\ Min(prices) \in Nat
    BY <1>15, <2>1
  <2> QED BY <2>2, <2>3, <2>4
<1> QED BY <1>11, <1>18, <1>19 DEF highs, lows, prices, mine, its, b

\* A tape in order has bars in order, and so has any end of them.
LEMMA TapeInversions ==
  ASSUME TapeInv
  PROVE  BarsRepeatOnlyByInversion
<1> SUFFICES ASSUME Ordered(tape) PROVE Ascending(get_candles("5m", MAX_CANDLE_LIMIT))
  BY DEF BarsRepeatOnlyByInversion
<1> DEFINE bars == AllBars(tape, 5)
           n == Len(bars)
           one == 1
           most == MAX_CANDLE_LIMIT
           x == n - most + 1
           f == Max({one, x})
           rows == SubSeq(bars, f, n)
<1>1. tape \in Seq(Prints)
  BY DEF TapeInv
<1>2. bars \in Seq(Bars) /\ n \in Nat
  BY <1>1, BarsOfTape DEF EndsAt
<1>3. \A k \in 1..n - 1 : bars[k].open_time < bars[k + 1].open_time
  <2>1. Climbs(bars, tape, Len(tape))
    BY <1>1, BarsOfTape
  <2> QED BY <2>1 DEF Climbs, Ordered, Ascending
<1>4. most = 500
  BY DEF MAX_CANDLE_LIMIT
<1>5. Clamp(most, most) = most
  <2>1. most \in Nat \ {0} /\ ~ (most < most)
    BY <1>4
  <2> HIDE DEF most
  <2> QED BY <2>1, ClampIsMost
<1>6. get_candles("5m", most) = rows
  <2>1. interval_to_seconds["5m"] = 5
    BY DEF interval_to_seconds
  <2>2. get_candles("5m", most) = candles(tape, 5, most)
    BY <1>5, <2>1 DEF get_candles
  <2>3. candles(tape, 5, most) = rows
    BY Zenon DEF candles, AllBars
  <2> QED BY <2>2, <2>3
<1> HIDE DEF bars
<1>7. f \in Nat \ {0} /\ f <= n + 1
  <2>1. x \in Int /\ one \in Int /\ one <= n + 1 /\ x <= n + 1
    BY <1>2, <1>4
  <2>2. f \in {one, x} /\ one <= f
    <3> HIDE DEF one, x
    <3> QED BY <2>1, MaxTwo
  <2>3. f \in Int
    BY <2>1, <2>2
  <2> HIDE DEF f, x
  <2> QED BY <2>1, <2>2, <2>3
<1> HIDE DEF f, one, x
<1>8. Len(rows) = n - f + 1 /\ \A i \in 1..n - f + 1 : rows[i] = bars[f + i - 1]
  BY <1>2, <1>7, CutIs
<1> HIDE DEF rows
<1>9. ASSUME NEW k \in 1..Len(rows) - 1 PROVE rows[k].open_time < rows[k + 1].open_time
  <2> DEFINE j == f + k - 1
  <2>1. /\ k \in 1..n - f + 1 /\ k + 1 \in 1..n - f + 1
        /\ j \in 1..n - 1 /\ f + (k + 1) - 1 = j + 1
    BY <1>2, <1>7, <1>8
  <2>2. rows[k] = bars[j] /\ rows[k + 1] = bars[j + 1]
    BY <1>8, <2>1
  <2> HIDE DEF j
  <2> QED BY <1>3, <2>1, <2>2
<1> QED BY <1>6, <1>9 DEF Ascending

\* For every window, fills and history, and handlers that record in any order:
\* no print leaves the tape before it is too old, the bars of each interval hold
\* its prints, the bars of a tape in order ascend, and the day's figures enclose
\* the last print (record, prune, candles, snapshot, post_debug_seed_history).
THEOREM TapeAlwaysSound == MCSpec => []TapeSound
<1>1. MCInit => TapeInv
  BY TapeBegins DEF MCInit
<1>2. [MCNext]_allVars => [TapeNext]_tapeVars
  BY DEF MCNext, Only, allVars
<1>3. TapeInv /\ [TapeNext]_tapeVars => TapeInv'
  BY TapeStep
<1>4. TapeInv => TapeSound
  BY YoungKept, TapeAddsUp, TapeInversions, LastInDay DEF TapeSound
<1> QED BY <1>1, <1>2, <1>3, <1>4, PTL DEF MCSpec

-----------------------------------------------------------------------------
(* The order book stream *)

\* What a snapshot can hold, and one that is as current as its stamp says.
Ladders == [FeedTicks -> Nat]
Snapshots == [levels : {Depth(FeedSide, l) : l \in Ladders}, stamp : Nat]

NowShown == Depth(FeedSide, feedLevels)
SoundSnapshot(m) == m \in Snapshots /\ m.stamp <= mutations /\ (m.stamp = mutations => m.levels = NowShown)

Changed == [step |-> "changed"]
Found == [step |-> "found"]
Built(m) == [step |-> "built", response |-> m]

\* A handler that still has to send the last change to be broadcast, or a later
\* one.
OwesNewest(h) ==
  feedStep[h] = Changed \/ feedStep[h] = Found
    \/ \E m \in Snapshots : feedStep[h] = Built(m) /\ m.stamp >= said

CurrentOnScreen == shown = group_levels(NowShown, Group)

\* The screen shows what its stamp says.
ScreenSound ==
  client = "streaming" =>
    shownAt \in Nat /\ shownAt <= mutations /\ (shownAt = mutations => CurrentOnScreen)

\* Nobody has anything to tell the subscriber, who sees or will see the last
\* change that was to be broadcast.
NothingToTell ==
  /\ \A h \in FeedHandlers : feedStep[h] = Resting
  /\ feedQueue = <<>>
  /\ client = "streaming" => shownAt >= said

StepsSound ==
  /\ feedStep = [h \in FeedHandlers |-> feedStep[h]]
  /\ \A h \in FeedHandlers :
       \/ feedStep[h] \in {Resting, Changed}
       \/ client # "away" /\ feedStep[h] = Found
       \/ client # "away" /\ \E m \in Snapshots : feedStep[h] = Built(m) /\ SoundSnapshot(m)

QueueSound ==
  /\ feedQueue \in Seq(Snapshots)
  /\ \A i \in 1..Len(feedQueue) : SoundSnapshot(feedQueue[i])
  /\ feedQueue # <<>> => feedQueue[Len(feedQueue)].stamp = newestSent \/ overtaken

\* The inductive invariant: somebody still owes the last change, or it was
\* sent, or there was nobody to send it to and the first snapshot shows it.
FeedInv ==
  /\ client \in {"away", "subscribed", "streaming"}
  /\ mutations \in Nat /\ newestSent \in Nat /\ newestSent <= mutations
  /\ said \in Nat /\ said <= mutations
  /\ feedLevels \in Ladders
  /\ StepsSound /\ QueueSound /\ ScreenSound
  /\ client = "away" => feedQueue = <<>>
  /\ client # "away" => (\E h \in FeedHandlers : OwesNewest(h)) \/ newestSent >= said \/ NothingToTell
  /\ client = "streaming" /\ feedQueue = <<>> /\ newestSent >= said => shownAt >= said \/ overtaken

LEMMA FeedStart == FeedInit => FeedInv
<1> SUFFICES ASSUME FeedInit PROVE FeedInv
  OBVIOUS
<1>1. feedLevels \in Ladders
  BY DEF FeedInit, Ladders
<1>2. StepsSound
  BY DEF FeedInit, StepsSound
<1>3. QueueSound
  <2>1. feedQueue = <<>>
    BY DEF FeedInit
  <2>2. <<>> \in Seq(Snapshots) /\ Len(<<>>) = 0
    OBVIOUS
  <2> QED BY <2>1, <2>2 DEF QueueSound
<1> QED BY <1>1, <1>2, <1>3 DEF FeedInit, FeedInv, ScreenSound

\* The steps are told apart by their names.
LEMMA StepNames ==
  /\ Resting.step = "idle" /\ Changed.step = "changed" /\ Found.step = "found"
  /\ \A m \in Snapshots : Built(m).step = "built" /\ Built(m).response = m
BY DEF Resting, Changed, Found, Built

\* A change of the book makes every snapshot made before it old.
LEMMA LevelsChange ==
  ASSUME FeedInv, mutations' = mutations + 1,
         UNCHANGED <<feedQueue, client, shown, shownAt, newestSent, overtaken>>
  PROVE  /\ \A m : SoundSnapshot(m) => SoundSnapshot(m)'
         /\ QueueSound' /\ ScreenSound'
<1>1. mutations \in Nat /\ mutations' = mutations + 1
  BY DEF FeedInv
<1>2. \A m : SoundSnapshot(m) => SoundSnapshot(m)'
  <2> SUFFICES ASSUME NEW m, SoundSnapshot(m) PROVE SoundSnapshot(m)'
    OBVIOUS
  <2>1. m.stamp \in Nat /\ m.stamp <= mutations
    BY DEF SoundSnapshot, Snapshots
  <2>2. m.stamp <= mutations' /\ m.stamp # mutations'
    BY <1>1, <2>1
  <2> QED BY <2>2 DEF SoundSnapshot
<1>3. QueueSound'
  BY <1>2 DEF FeedInv, QueueSound
<1>4. ScreenSound'
  <2> SUFFICES ASSUME client = "streaming"
               PROVE  shownAt \in Nat /\ shownAt <= mutations' /\ shownAt # mutations'
    BY DEF ScreenSound
  <2> QED BY <1>1 DEF FeedInv, ScreenSound
<1> QED BY <1>2, <1>3, <1>4

\* A change leaves its handler with the newest state to send.
LEMMA FeedMutate ==
  ASSUME FeedInv, NEW h \in FeedHandlers, NEW t \in FeedTicks, NEW q \in FeedQtys, Mutate(h, t, q)
  PROVE  FeedInv'
<1>1. /\ mutations' = mutations + 1 /\ said' = mutations + 1
      /\ feedLevels' = [feedLevels EXCEPT ![t] = q]
      /\ feedStep' = [feedStep EXCEPT ![h] = Changed]
      /\ UNCHANGED <<feedQueue, client, shown, shownAt, newestSent, overtaken>>
  BY DEF Mutate, Changed
<1>2. feedLevels' \in Ladders
  BY <1>1, FeedAssumption DEF FeedInv, Ladders
<1>3. /\ \A m : SoundSnapshot(m) => SoundSnapshot(m)'
      /\ QueueSound' /\ ScreenSound'
  BY <1>1, LevelsChange
<1>4. StepsSound' /\ feedStep'[h] = Changed
  <2>1. feedStep' = [g \in FeedHandlers |-> IF g = h THEN Changed ELSE feedStep[g]]
    BY <1>1 DEF FeedInv, StepsSound
  <2>2. \A g \in FeedHandlers : feedStep'[g] = IF g = h THEN Changed ELSE feedStep[g]
    BY <2>1
  <2>3. feedStep' = [g \in FeedHandlers |-> feedStep'[g]]
    BY <2>1
  <2> QED BY <1>1, <1>3, <2>2, <2>3 DEF FeedInv, StepsSound
<1>5. OwesNewest(h)'
  BY <1>4 DEF OwesNewest
<1>6. /\ mutations' \in Nat /\ newestSent' \in Nat /\ newestSent' <= mutations' /\ ~(newestSent' >= said')
      /\ said' \in Nat /\ said' <= mutations'
  BY <1>1 DEF FeedInv
<1> QED BY <1>1, <1>2, <1>3, <1>4, <1>5, <1>6 DEF FeedInv

\* What a rejected offer removes leaves everybody with what they have to send.
LEMMA FeedReject ==
  ASSUME FeedInv, NEW t \in FeedTicks, NEW q \in FeedQtys, RejectOffer(t, q)
  PROVE  FeedInv'
<1>1. /\ mutations' = mutations + 1
      /\ feedLevels' = [u \in FeedTicks |-> IF u = t THEN q
                                            ELSE IF Nearer(FeedSide, u, t) THEN 0 ELSE feedLevels[u]]
      /\ UNCHANGED <<feedStep, feedQueue, client, shown, said, shownAt, newestSent, overtaken>>
  BY DEF RejectOffer
<1>2. feedLevels' \in Ladders
  <2>1. q \in Nat /\ \A u \in FeedTicks : feedLevels[u] \in Nat
    BY FeedAssumption DEF FeedInv, Ladders
  <2> QED BY <1>1, <2>1 DEF Ladders
<1>3. /\ \A m : SoundSnapshot(m) => SoundSnapshot(m)'
      /\ QueueSound' /\ ScreenSound'
  BY <1>1, LevelsChange
<1>4. StepsSound'
  BY <1>1, <1>3 DEF FeedInv, StepsSound
<1>5. \A h \in FeedHandlers : OwesNewest(h) => OwesNewest(h)'
  BY <1>1 DEF OwesNewest
<1>6. NothingToTell => NothingToTell'
  BY <1>1 DEF NothingToTell
<1>7. mutations' \in Nat /\ newestSent' <= mutations' /\ said' <= mutations'
  BY <1>1 DEF FeedInv
<1> QED BY <1>1, <1>2, <1>3, <1>4, <1>5, <1>6, <1>7 DEF FeedInv

\* What stays true when the book does not change.
LEMMA SoundKept ==
  ASSUME NEW m, UNCHANGED <<feedLevels, mutations>>
  PROVE  /\ SoundSnapshot(m) <=> SoundSnapshot(m)'
         /\ NowShown' = NowShown
BY DEF SoundSnapshot, NowShown

\* A handler whose step goes on to another one.
LEMMA StepChanges ==
  ASSUME FeedInv, NEW h \in FeedHandlers, NEW new, feedStep' = [feedStep EXCEPT ![h] = new]
  PROVE  /\ feedStep' = [g \in FeedHandlers |-> feedStep'[g]]
         /\ feedStep'[h] = new
         /\ \A g \in FeedHandlers : g # h => feedStep'[g] = feedStep[g]
<1>1. feedStep' = [g \in FeedHandlers |-> IF g = h THEN new ELSE feedStep[g]]
  BY DEF FeedInv, StepsSound
<1> QED BY <1>1

LEMMA FeedLookUp ==
  ASSUME FeedInv, NEW h \in FeedHandlers, LookUp(h)
  PROVE  FeedInv'
<1> DEFINE new == IF client = "away" THEN Resting ELSE Found
<1>1. /\ feedStep[h] = Changed
      /\ feedStep' = [feedStep EXCEPT ![h] = new]
      /\ UNCHANGED <<feedLevels, feedQueue, client, shown, mutations, said, shownAt, newestSent, overtaken>>
  BY StepNames DEF LookUp, Found, FeedInv, StepsSound
<1> HIDE DEF new
<1>2. /\ feedStep' = [g \in FeedHandlers |-> feedStep'[g]]
      /\ feedStep'[h] = new
      /\ \A g \in FeedHandlers : g # h => feedStep'[g] = feedStep[g]
  BY <1>1, StepChanges
<1>3. \A m : SoundSnapshot(m) <=> SoundSnapshot(m)'
  BY <1>1, SoundKept
<1>4. StepsSound'
  BY <1>1, <1>2, <1>3 DEF new, FeedInv, StepsSound
<1>5. QueueSound'
  BY <1>1, <1>3 DEF FeedInv, QueueSound
<1>6. client # "away" => OwesNewest(h)'
  BY <1>2 DEF OwesNewest, new
<1>7. ScreenSound'
  BY <1>1 DEF FeedInv, ScreenSound, CurrentOnScreen, NowShown
<1> QED BY <1>1, <1>4, <1>5, <1>6, <1>7 DEF FeedInv

\* A snapshot is current when it is built.
LEMMA BuiltIsCurrent ==
  ASSUME FeedInv
  PROVE  /\ build_orderbook_response \in Snapshots
         /\ build_orderbook_response.stamp = mutations /\ build_orderbook_response.levels = NowShown
BY DEF build_orderbook_response, NowShown, Snapshots, FeedInv

LEMMA FeedBuild ==
  ASSUME FeedInv, NEW h \in FeedHandlers, Build(h)
  PROVE  FeedInv'
<1> DEFINE m == build_orderbook_response
<1>1. /\ feedStep[h] = Found
      /\ feedStep' = [feedStep EXCEPT ![h] = Built(m)]
      /\ UNCHANGED <<feedLevels, feedQueue, client, shown, mutations, said, shownAt, newestSent, overtaken>>
  BY StepNames DEF Build, Built, FeedInv, StepsSound
<1>2. m \in Snapshots /\ m.stamp = mutations /\ m.levels = NowShown
  BY BuiltIsCurrent
<1> HIDE DEF m
<1>3. /\ feedStep' = [g \in FeedHandlers |-> feedStep'[g]]
      /\ feedStep'[h] = Built(m)
      /\ \A g \in FeedHandlers : g # h => feedStep'[g] = feedStep[g]
  BY <1>1, StepChanges
<1>4. \A n : SoundSnapshot(n) <=> SoundSnapshot(n)'
  BY <1>1, SoundKept
<1>5. SoundSnapshot(m) /\ client # "away"
  <2>1. mutations \in Nat
    BY DEF FeedInv
  <2>2. client # "away"
    BY <1>1, StepNames DEF FeedInv, StepsSound
  <2> QED BY <1>2, <2>1, <2>2 DEF SoundSnapshot
<1>6. StepsSound'
  BY <1>1, <1>2, <1>3, <1>4, <1>5 DEF FeedInv, StepsSound
<1>7. QueueSound'
  BY <1>1, <1>4 DEF FeedInv, QueueSound
<1>8. OwesNewest(h)'
  <2>1. m.stamp >= said'
    BY <1>1, <1>2 DEF FeedInv
  <2> QED BY <1>2, <1>3, <2>1 DEF OwesNewest
<1>9. ScreenSound'
  BY <1>1 DEF FeedInv, ScreenSound, CurrentOnScreen, NowShown
<1> QED BY <1>1, <1>5, <1>6, <1>7, <1>8, <1>9 DEF FeedInv

\* A channel of at least one message keeps the one that came last.
LEMMA EnqueuedIs ==
  ASSUME NEW queue \in Seq(Snapshots), NEW m \in Snapshots
  PROVE  /\ Enqueued(queue, m) \in Seq(Snapshots) /\ Enqueued(queue, m) # <<>>
         /\ Enqueued(queue, m)[Len(Enqueued(queue, m))] = m
         /\ \A i \in 1..Len(Enqueued(queue, m)) :
              Enqueued(queue, m)[i] = m \/ \E j \in 1..Len(queue) : Enqueued(queue, m)[i] = queue[j]
<1>1. FeedCapacity \in Nat \ {0} /\ Len(queue) \in Nat
  BY FeedAssumption
<1>2. CASE Len(queue) < FeedCapacity
  <2>1. Enqueued(queue, m) = Append(queue, m)
    BY <1>2 DEF Enqueued
  <2>2. /\ Append(queue, m) \in Seq(Snapshots) /\ Len(Append(queue, m)) = Len(queue) + 1
        /\ Append(queue, m)[Len(queue) + 1] = m /\ \A i \in 1..Len(queue) : Append(queue, m)[i] = queue[i]
    OBVIOUS
  <2>3. \A i \in 1..Len(queue) + 1 : i = Len(queue) + 1 \/ i \in 1..Len(queue)
    BY <1>1
  <2> QED BY <1>1, <2>1, <2>2, <2>3
<1>3. CASE ~(Len(queue) < FeedCapacity)
  <2> DEFINE rest == Tail(queue)
  <2>1. Enqueued(queue, m) = Append(rest, m) /\ queue # <<>>
    BY <1>1, <1>3 DEF Enqueued
  <2>2. rest \in Seq(Snapshots) /\ Len(rest) = Len(queue) - 1 /\ \A i \in 1..Len(rest) : rest[i] = queue[i + 1]
    BY <2>1, HeadTailProperties
  <2> HIDE DEF rest
  <2>3. /\ Append(rest, m) \in Seq(Snapshots) /\ Len(Append(rest, m)) = Len(rest) + 1
        /\ Append(rest, m)[Len(rest) + 1] = m /\ \A i \in 1..Len(rest) : Append(rest, m)[i] = rest[i]
    BY <2>2
  <2>4. \A i \in 1..Len(rest) + 1 : i = Len(rest) + 1 \/ (i \in 1..Len(rest) /\ i + 1 \in 1..Len(queue))
    BY <1>1, <2>2
  <2> QED BY <1>1, <2>1, <2>2, <2>3, <2>4
<1> QED BY <1>2, <1>3

\* The message sent is the newest one or marks that it was overtaken.
LEMMA FeedSend ==
  ASSUME FeedInv, NEW h \in FeedHandlers, Send(h)
  PROVE  FeedInv'
<1>1. PICK m \in Snapshots : feedStep[h] = Built(m) /\ SoundSnapshot(m) /\ client # "away"
  BY StepNames DEF Send, FeedInv, StepsSound
<1>2. /\ feedQueue' = Enqueued(feedQueue, m)
      /\ newestSent' = Max({newestSent, m.stamp}) /\ overtaken' = (m.stamp < newestSent)
      /\ feedStep' = [feedStep EXCEPT ![h] = Resting]
      /\ UNCHANGED <<feedLevels, client, shown, mutations, said, shownAt>>
  BY <1>1, StepNames DEF Send
<1>3. /\ feedStep' = [g \in FeedHandlers |-> feedStep'[g]]
      /\ feedStep'[h] = Resting
      /\ \A g \in FeedHandlers : g # h => feedStep'[g] = feedStep[g]
  BY <1>2, StepChanges
<1>4. \A n : SoundSnapshot(n) <=> SoundSnapshot(n)'
  BY <1>2, SoundKept
<1>5. StepsSound'
  BY <1>2, <1>3, <1>4 DEF FeedInv, StepsSound
<1>6. m.stamp \in Nat /\ newestSent \in Nat /\ mutations \in Nat /\ m.stamp <= mutations /\ newestSent <= mutations
      /\ said \in Nat
  BY <1>1 DEF FeedInv, Snapshots, SoundSnapshot
<1>7. newestSent' = IF m.stamp < newestSent THEN newestSent ELSE m.stamp
  <2>1. /\ Max({newestSent, m.stamp}) \in {newestSent, m.stamp}
        /\ newestSent <= Max({newestSent, m.stamp}) /\ m.stamp <= Max({newestSent, m.stamp})
    <3> DEFINE s == m.stamp
    <3>1. s \in Int /\ newestSent \in Int
      BY <1>6
    <3> HIDE DEF s
    <3>2. Max({newestSent, s}) \in {newestSent, s} /\ newestSent <= Max({newestSent, s}) /\ s <= Max({newestSent, s})
      BY <3>1, MaxTwo
    <3> QED BY <3>2 DEF s
  <2> QED BY <1>2, <1>6, <2>1
<1>8. /\ feedQueue' \in Seq(Snapshots) /\ feedQueue' # <<>> /\ feedQueue'[Len(feedQueue')] = m
      /\ \A i \in 1..Len(feedQueue') : feedQueue'[i] = m \/ \E j \in 1..Len(feedQueue) : feedQueue'[i] = feedQueue[j]
  BY <1>2, EnqueuedIs DEF FeedInv, QueueSound
<1>9. QueueSound'
  <2>1. \A i \in 1..Len(feedQueue') : SoundSnapshot(feedQueue[i])'
    <3> TAKE i \in 1..Len(feedQueue')
    <3> DEFINE x == feedQueue'[i]
    <3>1. SoundSnapshot(x)
      BY <1>1, <1>8 DEF FeedInv, QueueSound
    <3> QED BY <1>2, <3>1 DEF SoundSnapshot, NowShown
  <2>2. m.stamp = newestSent' \/ overtaken'
    BY <1>2, <1>7
  <2> QED BY <1>8, <2>1, <2>2 DEF QueueSound
<1>10. (\E g \in FeedHandlers : OwesNewest(g)') \/ newestSent' >= said'
  <2>1. CASE \E g \in FeedHandlers : g # h /\ OwesNewest(g)
    <3>1. PICK g \in FeedHandlers : g # h /\ OwesNewest(g)
      BY <2>1
    <3>2. OwesNewest(g)'
      BY <1>2, <1>3, <3>1 DEF OwesNewest
    <3> QED BY <3>2
  <2>2. CASE OwesNewest(h)
    <3>1. m.stamp >= said
      BY <1>1, <2>2, StepNames DEF OwesNewest
    <3> QED BY <1>2, <1>6, <1>7, <3>1
  <2>3. CASE newestSent >= said
    BY <1>2, <1>6, <1>7, <2>3
  <2>4. ~ NothingToTell
    BY <1>1, StepNames DEF NothingToTell
  <2> QED BY <1>1, <2>1, <2>2, <2>3, <2>4 DEF FeedInv
<1>11. newestSent' \in Nat /\ newestSent' <= mutations'
  BY <1>2, <1>6, <1>7
<1>12. client' \in {"away", "subscribed", "streaming"} /\ client' # "away" /\ feedLevels' \in Ladders
       /\ mutations' \in Nat /\ said' \in Nat /\ said' <= mutations'
  BY <1>1, <1>2 DEF FeedInv
<1>13. ScreenSound'
  BY <1>2 DEF FeedInv, ScreenSound, CurrentOnScreen, NowShown
<1> QED BY <1>5, <1>8, <1>9, <1>10, <1>11, <1>12, <1>13 DEF FeedInv

\* Who has changed the book and not looked up the channel yet will find it.
LEMMA FeedSubscribe ==
  ASSUME FeedInv, Subscribe
  PROVE  FeedInv'
<1>1. /\ client = "away" /\ client' = "subscribed"
      /\ UNCHANGED <<feedLevels, feedStep, feedQueue, shown, mutations, said, shownAt, newestSent, overtaken>>
  BY DEF Subscribe
<1>2. \A n : SoundSnapshot(n) <=> SoundSnapshot(n)'
  BY <1>1, SoundKept
<1>3. StepsSound' /\ QueueSound'
  BY <1>1, <1>2 DEF FeedInv, StepsSound, QueueSound
<1>4. (\E h \in FeedHandlers : OwesNewest(h)') \/ NothingToTell'
  BY <1>1 DEF FeedInv, StepsSound, OwesNewest, NothingToTell
<1> QED BY <1>1, <1>3, <1>4 DEF FeedInv, ScreenSound

LEMMA FeedInitial ==
  ASSUME FeedInv, SendInitial
  PROVE  FeedInv'
<1>1. /\ client = "subscribed" /\ client' = "streaming"
      /\ shown' = group_levels(NowShown, Group) /\ shownAt' = mutations
      /\ UNCHANGED <<feedLevels, feedStep, feedQueue, mutations, said, newestSent, overtaken>>
  BY DEF SendInitial, NowShown
<1>2. \A n : SoundSnapshot(n) <=> SoundSnapshot(n)'
  BY <1>1, SoundKept
<1>3. StepsSound' /\ QueueSound'
  BY <1>1, <1>2 DEF FeedInv, StepsSound, QueueSound
<1>4. NowShown' = NowShown
  BY <1>1, SoundKept
<1>5. ScreenSound' /\ shownAt' >= said'
  <2>1. CurrentOnScreen'
    BY <1>1, <1>4 DEF CurrentOnScreen
  <2> QED BY <1>1, <2>1 DEF FeedInv, ScreenSound
<1>6. \A h \in FeedHandlers : OwesNewest(h) => OwesNewest(h)'
  BY <1>1 DEF OwesNewest
<1>7. NothingToTell => NothingToTell'
  BY <1>1, <1>5 DEF NothingToTell
<1> QED BY <1>1, <1>3, <1>5, <1>6, <1>7 DEF FeedInv

\* When the last message is forwarded, it is the newest or was overtaken.
LEMMA FeedForward ==
  ASSUME FeedInv, Forward
  PROVE  FeedInv'
<1> DEFINE n == Len(feedQueue)
<1>1. /\ client = "streaming" /\ feedQueue # <<>>
      /\ shown' = group_levels(Head(feedQueue).levels, Group)
      /\ shownAt' = Head(feedQueue).stamp
      /\ feedQueue' = Tail(feedQueue)
      /\ UNCHANGED <<feedLevels, feedStep, client, mutations, said, newestSent, overtaken>>
  BY DEF Forward
<1>2. /\ feedQueue \in Seq(Snapshots) /\ n \in Nat \ {0} /\ Head(feedQueue) = feedQueue[1]
      /\ \A i \in 1..n : SoundSnapshot(feedQueue[i])
      /\ feedQueue[n].stamp = newestSent \/ overtaken
  BY <1>1 DEF FeedInv, QueueSound
<1>3. /\ feedQueue' \in Seq(Snapshots) /\ Len(feedQueue') = n - 1
      /\ \A i \in 1..n - 1 : feedQueue'[i] = feedQueue[i + 1]
  BY <1>1, <1>2, HeadTailProperties
<1> HIDE DEF n
<1>4. \A m : SoundSnapshot(m) <=> SoundSnapshot(m)'
  BY <1>1, SoundKept
<1>5. StepsSound'
  BY <1>1, <1>4 DEF FeedInv, StepsSound
<1>6. QueueSound'
  <2>1. \A i \in 1..Len(feedQueue') : SoundSnapshot(feedQueue[i])'
    <3> TAKE i \in 1..Len(feedQueue')
    <3>1. i \in 1..n - 1 /\ i + 1 \in 1..n
      BY <1>2, <1>3
    <3>2. SoundSnapshot(feedQueue[i + 1]) /\ feedQueue'[i] = feedQueue[i + 1]
      BY <1>2, <1>3, <3>1
    <3> QED BY <1>1, <3>2 DEF SoundSnapshot, NowShown
  <2>2. feedQueue' # <<>> => feedQueue'[Len(feedQueue')].stamp = newestSent' \/ overtaken'
    <3> HAVE feedQueue' # <<>>
    <3>1. n - 1 \in 1..n - 1 /\ n - 1 + 1 = n
      BY <1>2, <1>3
    <3> QED BY <1>1, <1>2, <1>3, <3>1
  <2> QED BY <1>3, <2>1, <2>2 DEF QueueSound
<1>7. NowShown' = NowShown
  BY <1>1, SoundKept
<1>8. feedQueue' = <<>> /\ newestSent' >= said' => shownAt' >= said' \/ overtaken'
  <2> SUFFICES ASSUME feedQueue' = <<>>, newestSent >= said, ~ overtaken PROVE shownAt' >= said
    BY <1>1
  <2>1. n = 1
    BY <1>2, <1>3
  <2> QED BY <1>1, <1>2, <2>1
<1>11. ScreenSound'
  <2> DEFINE m == feedQueue[1]
  <2>1. SoundSnapshot(m)
    BY <1>2
  <2>2. m.stamp \in Nat /\ m.stamp <= mutations /\ (m.stamp = mutations => m.levels = NowShown)
    BY <2>1 DEF SoundSnapshot, Snapshots
  <2> QED BY <1>1, <1>2, <1>7, <2>2 DEF ScreenSound, CurrentOnScreen
<1>9. \A h \in FeedHandlers : OwesNewest(h) => OwesNewest(h)'
  BY <1>1 DEF OwesNewest
<1>10. ~ NothingToTell
  BY <1>1 DEF NothingToTell
<1> QED BY <1>1, <1>5, <1>6, <1>8, <1>9, <1>10, <1>11 DEF FeedInv

LEMMA FeedStep ==
  ASSUME FeedInv, [FeedNext]_feedVars
  PROVE  FeedInv'
<1>1. CASE UNCHANGED feedVars
  BY <1>1 DEF feedVars, FeedInv, StepsSound, QueueSound, ScreenSound, NothingToTell, CurrentOnScreen, NowShown, OwesNewest, SoundSnapshot
<1> QED BY <1>1, FeedMutate, FeedReject, FeedLookUp, FeedBuild, FeedSend, FeedSubscribe, FeedInitial,
          FeedForward DEF FeedNext

\* When everything sent has arrived, the screen shows the last change.
LEMMA FeedEnough ==
  ASSUME FeedInv
  PROVE  ShownUnlessOvertaken
<1> SUFFICES ASSUME Quiet, ~ overtaken
             PROVE  shownAt >= said /\ (said = mutations => CurrentOnScreen)
  BY DEF ShownUnlessOvertaken, CurrentOnScreen, NowShown
<1>1. /\ \A h \in FeedHandlers : feedStep[h] = Resting
      /\ client = "streaming" /\ feedQueue = <<>>
  BY DEF Quiet
<1>2. \A h \in FeedHandlers : ~ OwesNewest(h)
  BY <1>1, StepNames DEF OwesNewest
<1>3. shownAt >= said
  BY <1>1, <1>2 DEF FeedInv, NothingToTell
<1> QED BY <1>1, <1>3 DEF FeedInv, ScreenSound

\* A nonempty finite set of ticks has one that is farthest from the touch.
LEMMA FarthestOf ==
  ASSUME NEW side \in FeedSides, NEW S, IsFiniteSet(S), S \subseteq Nat, S # {}
  PROVE  \E x \in S : \A y \in S : y # x => Nearer(side, y, x)
<1>1. CASE side = "bids"
  <2>1. PICK x \in S : \A y \in S : x <= y
    BY LeastOf
  <2> QED BY <1>1, <2>1 DEF Nearer
<1>2. CASE side # "bids"
  <2>1. PICK x \in S : \A y \in S : y <= x
    BY GreatestOf
  <2> QED BY <1>2, <2>1 DEF Nearer
<1> QED BY <1>1, <1>2

Listed(side, S, n, f) ==
  f \in [1..n -> S] /\ \A i, j \in 1..n : i < j => Nearer(side, f[i], f[j])

\* Every finite set of ticks can be listed from the touch.
LEMMA ListingExists ==
  ASSUME NEW side \in FeedSides, NEW S, IsFiniteSet(S), S \subseteq Nat
  PROVE  \E f : Listed(side, S, Cardinality(S), f)
<1> DEFINE Good(n) == \A T \in SUBSET S : Cardinality(T) = n => \E f : Listed(side, T, n, f)
           G == {n \in Nat : Good(n)}
<1>1. 0 \in G
  <2> SUFFICES ASSUME NEW T \in SUBSET S PROVE \E f : Listed(side, T, 0, f)
    OBVIOUS
  <2>1. Listed(side, T, 0, [i \in 1..0 |-> 0])
    BY DEF Listed
  <2> QED BY <2>1
<1>2. \A n \in Nat : n \in G => n + 1 \in G
  <2> SUFFICES ASSUME NEW n \in Nat, Good(n), NEW T \in SUBSET S, Cardinality(T) = n + 1
               PROVE  \E f : Listed(side, T, n + 1, f)
    OBVIOUS
  <2>0. IsFiniteSet(T) /\ T \subseteq Nat
    <3> HIDE DEF Good
    <3> QED BY FS_Subset
  <2>1. T # {}
    <3> HIDE DEF Good
    <3> QED BY FS_EmptySet
  <2>2. PICK x \in T : \A y \in T : y # x => Nearer(side, y, x)
    BY <2>0, <2>1, FarthestOf
  <2>3. Cardinality(T \ {x}) = n /\ T \ {x} \in SUBSET S
    <3> HIDE DEF Good
    <3>1. Cardinality(T \ {x}) = Cardinality(T) - 1
      BY <2>0, FS_RemoveElement
    <3> QED BY <3>1
  <2>4. PICK f : Listed(side, T \ {x}, n, f)
    BY <2>3
  <2> DEFINE g == [i \in 1..n + 1 |-> IF i = n + 1 THEN x ELSE f[i]]
  <2>5. \A i \in 1..n : f[i] \in T /\ f[i] # x
    BY <2>4 DEF Listed
  <2>6. \A i \in 1..n + 1 : i = n + 1 \/ i \in 1..n
    OBVIOUS
  <2>7. g \in [1..n + 1 -> T]
    BY <2>5, <2>6
  <2>8. ASSUME NEW i \in 1..n + 1, NEW j \in 1..n + 1, i < j PROVE Nearer(side, g[i], g[j])
    <3>1. i \in 1..n /\ g[i] = f[i]
      BY <2>8
    <3>2. CASE j = n + 1
      BY <2>2, <2>5, <3>1, <3>2
    <3>3. CASE j # n + 1
      <4>1. j \in 1..n /\ g[j] = f[j]
        BY <3>3
      <4> QED BY <2>4, <2>8, <3>1, <4>1 DEF Listed
    <3> QED BY <3>2, <3>3
  <2> HIDE DEF g
  <2>9. Listed(side, T, n + 1, g)
    BY <2>7, <2>8 DEF Listed
  <2> QED BY <2>9
<1> HIDE DEF G
<1>3. Nat \subseteq G
  BY <1>1, <1>2, Induction
<1>4. Cardinality(S) \in Nat
  BY FS_CardinalityType
<1> QED BY <1>3, <1>4 DEF G

LEMMA FromTouchIs ==
  ASSUME NEW side \in FeedSides, NEW S, IsFiniteSet(S), S \subseteq Nat
  PROVE  Listed(side, S, Cardinality(S), FromTouch(side, S))
<1> DEFINE n == Cardinality(S)
           Fits(f) == \A i, j \in DOMAIN f : i < j => Nearer(side, f[i], f[j])
<1>1. PICK f : Listed(side, S, n, f)
  BY ListingExists
<1>2. f \in [1..n -> S] /\ Fits(f)
  BY <1>1 DEF Listed
<1>3. FromTouch(side, S) = CHOOSE g \in [1..n -> S] : Fits(g)
  BY DEF FromTouch
<1>4. FromTouch(side, S) \in [1..n -> S] /\ Fits(FromTouch(side, S))
  <2> HIDE DEF Fits, n
  <2> QED BY <1>2, <1>3
<1> DEFINE g == FromTouch(side, S)
<1>5. g \in [1..n -> S] /\ \A i, j \in DOMAIN g : i < j => Nearer(side, g[i], g[j])
  BY <1>4
<1> HIDE DEF g, n
<1>6. DOMAIN g = 1..n
  BY <1>5
<1>7. Listed(side, S, n, g)
  BY <1>5, <1>6 DEF Listed
<1> QED BY <1>7 DEF g, n

-----------------------------------------------------------------------------
(* A side of a book as a client gets it *)

Rows == [tick : Nat, qty : Nat, cumulative : Int]
Qtys(d) == [k \in DOMAIN d |-> d[k].qty]

\* A list of levels from the touch, each with everything up to it.
IsLadder(side, d) ==
  /\ d \in Seq(Rows)
  /\ \A k \in 1..Len(d) : d[k].cumulative = SumFunctionOnSet(Qtys(d), 1..k)
  /\ \A i, j \in 1..Len(d) : i < j => Nearer(side, d[i].tick, d[j].tick)

LEMMA TotalIs ==
  ASSUME NEW d \in Seq(Rows)
  PROVE  /\ Total(d) = SumFunctionOnSet(Qtys(d), 1..Len(d))
         /\ \A k \in 1..Len(d) : Qtys(d)[k] = d[k].qty /\ d[k].qty \in Nat
         /\ Total(d) \in Nat
<1>1. DOMAIN d = 1..Len(d) /\ Len(d) \in Nat
  OBVIOUS
<1>2. Total(d) = SumFunctionOnSet(Qtys(d), 1..Len(d))
  BY <1>1 DEF Total, Qtys
<1>3. \A k \in 1..Len(d) : Qtys(d)[k] = d[k].qty /\ d[k].qty \in Nat
  <2> TAKE k \in 1..Len(d)
  <2>1. d[k] \in Rows
    OBVIOUS
  <2> QED BY <1>1, <2>1 DEF Qtys, Rows
<1>4. SumFunctionOnSet(Qtys(d), 1..Len(d)) \in Nat
  <2>1. IsFiniteSet(1..Len(d))
    BY <1>1, FS_Interval
  <2>2. \A k \in 1..Len(d) : Qtys(d)[k] \in Nat
    BY <1>3
  <2> QED BY <2>1, <2>2, SumNat
<1> QED BY <1>2, <1>3, <1>4

LEMMA NearerThrough ==
  ASSUME NEW side, NEW x \in Nat, NEW y \in Nat, NEW z \in Nat, Nearer(side, x, y), Nearer(side, y, z)
  PROVE  Nearer(side, x, z)
BY DEF Nearer

\* The first k levels of a ladder.
LEMMA LadderCut ==
  ASSUME NEW side, NEW d, IsLadder(side, d), NEW k \in 0..Len(d)
  PROVE  /\ IsLadder(side, SubSeq(d, 1, k))
         /\ Len(SubSeq(d, 1, k)) = k
         /\ \A i \in 1..k : SubSeq(d, 1, k)[i] = d[i]
         /\ Total(SubSeq(d, 1, k)) = SumFunctionOnSet(Qtys(d), 1..k)
<1> DEFINE s == SubSeq(d, 1, k)
<1>1. d \in Seq(Rows) /\ Len(d) \in Nat
  BY DEF IsLadder
<1>2. s \in Seq(Rows) /\ Len(s) = k /\ \A i \in 1..k : s[i] = d[i] /\ i \in 1..Len(d)
  BY <1>1
<1> HIDE DEF s
<1>3. ASSUME NEW i \in 0..k PROVE SumFunctionOnSet(Qtys(s), 1..i) = SumFunctionOnSet(Qtys(d), 1..i)
  <2>1. \A j \in 1..i : j \in 1..k /\ j \in 1..Len(d)
    BY <1>1
  <2>2. \A j \in 1..i : Qtys(d)[j] \in Int /\ Qtys(s)[j] = Qtys(d)[j]
    BY <1>1, <1>2, <2>1, TotalIs
  <2>3. IsFiniteSet(1..i)
    BY FS_Interval
  <2> QED BY <2>2, <2>3, SumSame
<1>4. \A i \in 1..k : s[i].cumulative = SumFunctionOnSet(Qtys(s), 1..i)
  BY <1>2, <1>3 DEF IsLadder
<1>5. \A i, j \in 1..k : i < j => Nearer(side, s[i].tick, s[j].tick)
  BY <1>2 DEF IsLadder
<1>6. IsLadder(side, s)
  BY <1>2, <1>4, <1>5 DEF IsLadder
<1>7. Total(s) = SumFunctionOnSet(Qtys(d), 1..k)
  BY <1>2, <1>3, TotalIs
<1> QED BY <1>2, <1>6, <1>7 DEF s

\* A ladder that goes on behind its last level.
LEMMA LadderGrows ==
  ASSUME NEW side, NEW d, IsLadder(side, d), NEW row \in Rows,
         row.cumulative = Total(d) + row.qty,
         d # <<>> => Nearer(side, d[Len(d)].tick, row.tick)
  PROVE  /\ IsLadder(side, Append(d, row))
         /\ Total(Append(d, row)) = Total(d) + row.qty
<1> DEFINE e == Append(d, row)
           n == Len(d)
<1>1. d \in Seq(Rows) /\ n \in Nat
  BY DEF IsLadder
<1>2. e \in Seq(Rows) /\ Len(e) = n + 1 /\ e[n + 1] = row /\ \A i \in 1..n : e[i] = d[i]
  BY <1>1
<1> HIDE DEF e
<1>3. \A i \in 1..n + 1 : i = n + 1 \/ i \in 1..n
  BY <1>1
<1>4. \A i \in 1..n : Qtys(d)[i] \in Int /\ Qtys(e)[i] = Qtys(d)[i] /\ d[i] \in Rows
  <2> TAKE i \in 1..n
  <2>1. i \in 1..n + 1
    BY <1>1
  <2>2. Qtys(e)[i] = e[i].qty
    BY <1>2, <2>1, TotalIs
  <2>3. Qtys(d)[i] = d[i].qty /\ d[i].qty \in Nat
    BY <1>1, TotalIs DEF n
  <2> QED BY <1>1, <1>2, <2>2, <2>3
<1>5. Qtys(e)[n + 1] = row.qty /\ row.qty \in Nat
  <2>1. n + 1 \in 1..Len(e)
    BY <1>1, <1>2
  <2> QED BY <1>2, <2>1, TotalIs DEF Rows
<1>6. SumFunctionOnSet(Qtys(e), 1..n + 1) = SumFunctionOnSet(Qtys(d), 1..n) + Qtys(e)[n + 1]
  <2> DEFINE f == Qtys(d)
             h == Qtys(e)
  <2>1. n \in Nat /\ (\A i \in 1..n : f[i] \in Int) /\ (\A i \in 1..n : h[i] = f[i]) /\ h[n + 1] \in Int
    BY <1>1, <1>4, <1>5
  <2> HIDE DEF f, h, n
  <2>2. SumFunctionOnSet(h, 1..n + 1) = SumFunctionOnSet(f, 1..n) + h[n + 1]
    BY <2>1, SumNext
  <2> QED BY <2>2 DEF f, h
<1>7. Total(d) = SumFunctionOnSet(Qtys(d), 1..n) /\ Total(e) = SumFunctionOnSet(Qtys(e), 1..n + 1)
  BY <1>1, <1>2, TotalIs DEF n
<1>8. ASSUME NEW i \in 1..n PROVE SumFunctionOnSet(Qtys(e), 1..i) = SumFunctionOnSet(Qtys(d), 1..i)
  <2>1. \A j \in 1..i : j \in 1..n
    BY <1>1
  <2>2. IsFiniteSet(1..i)
    BY FS_Interval
  <2> QED BY <1>4, <2>1, <2>2, SumSame
<1>9. \A i \in 1..n + 1 : e[i].cumulative = SumFunctionOnSet(Qtys(e), 1..i)
  <2> TAKE i \in 1..n + 1
  <2>1. CASE i = n + 1
    BY <1>2, <1>5, <1>6, <1>7, <2>1
  <2>2. CASE i \in 1..n
    BY <1>2, <1>8, <2>2 DEF IsLadder, n
  <2> QED BY <1>3, <2>1, <2>2
<1>10. ASSUME NEW i \in 1..n + 1, NEW j \in 1..n + 1, i < j PROVE Nearer(side, e[i].tick, e[j].tick)
  <2>1. i \in 1..n /\ n \in 1..n /\ d # <<>>
    BY <1>1, <1>10
  <2>2. e[i].tick = d[i].tick /\ d[i].tick \in Nat /\ d[n].tick \in Nat /\ row.tick \in Nat
    BY <1>2, <1>4, <2>1 DEF Rows
  <2>3. CASE j = n + 1
    <3>1. Nearer(side, d[n].tick, row.tick)
      BY <2>1 DEF n
    <3>2. CASE i = n
      BY <1>2, <2>2, <2>3, <3>1, <3>2
    <3>3. CASE i # n
      <4>1. i < n
        BY <1>1, <2>1, <3>3
      <4>2. Nearer(side, d[i].tick, d[n].tick)
        BY <2>1, <4>1 DEF IsLadder, n
      <4>3. Nearer(side, d[i].tick, row.tick)
        BY <2>2, <3>1, <4>2, NearerThrough
      <4> QED BY <1>2, <2>2, <2>3, <4>3
    <3> QED BY <3>2, <3>3
  <2>4. CASE j \in 1..n
    BY <1>2, <1>10, <2>1, <2>4 DEF IsLadder, n
  <2> QED BY <1>3, <2>3, <2>4
<1>11. IsLadder(side, e)
  BY <1>2, <1>9, <1>10 DEF IsLadder
<1> QED BY <1>5, <1>6, <1>7, <1>11 DEF e

\* What a client gets of each side is a ladder.
LEMMA DepthIsLadder ==
  ASSUME NEW side \in FeedSides, NEW l \in Ladders
  PROVE  IsLadder(side, Depth(side, l))
<1> DEFINE S == {t \in FeedTicks : l[t] > 0}
           C == Cardinality(S)
           ticks == FromTouch(side, S)
           N == Min({MAX_DEPTH_LEVELS, Len(ticks)})
           qty == [k \in 1..N |-> l[ticks[k]]]
           sums == [k \in 1..N |-> SumFunctionOnSet(qty, 1..k)]
           d == [k \in 1..N |-> [tick |-> ticks[k], qty |-> qty[k], cumulative |-> SumFunctionOnSet(qty, 1..k)]]
<1>1. IsFiniteSet(S) /\ S \subseteq FeedTicks /\ S \subseteq Nat
  BY FS_Subset, FeedAssumption
<1>2. Listed(side, S, C, ticks) /\ C \in Nat
  <2> HIDE DEF S
  <2> QED BY <1>1, FromTouchIs, FS_CardinalityType
<1>3. Depth(side, l) = d
  BY DEF Depth
<1> HIDE DEF S, C, ticks
<1>4. ticks \in [1..C -> S] /\ Len(ticks) = C
  BY <1>2 DEF Listed
<1>5. N \in Nat /\ N <= C
  <2>1. MAX_DEPTH_LEVELS \in Int /\ MAX_DEPTH_LEVELS \in Nat /\ C \in Int
    BY <1>2, FeedAssumption
  <2>2. Min({MAX_DEPTH_LEVELS, C}) \in {MAX_DEPTH_LEVELS, C} /\ Min({MAX_DEPTH_LEVELS, C}) <= C
    BY <2>1, MinTwo
  <2> QED BY <1>2, <1>4, <2>1, <2>2
<1> HIDE DEF N
<1>6. \A k \in 1..N : k \in 1..C /\ ticks[k] \in FeedTicks /\ ticks[k] \in Nat /\ qty[k] \in Nat
  <2> TAKE k \in 1..N
  <2>1. k \in 1..C
    BY <1>2, <1>5
  <2>2. ticks[k] \in S
    BY <1>4, <2>1
  <2> QED BY <1>1, <2>1, <2>2 DEF Ladders
<1> HIDE DEF qty
<1>7. \A k \in 1..N : SumFunctionOnSet(qty, 1..k) \in Int
  <2> TAKE k \in 1..N
  <2>1. IsFiniteSet(1..k)
    BY FS_Interval
  <2>2. \A j \in 1..k : j \in 1..N
    BY <1>5
  <2>3. \A j \in 1..k : qty[j] \in Int
    BY <1>6, <2>2
  <2> QED BY <2>1, <2>3, SumInt
<1>8. \A k \in 1..N : d[k] \in Rows
  BY <1>6, <1>7 DEF Rows
<1>9. \A k \in 1..N : d[k].tick = ticks[k] /\ d[k].qty = qty[k] /\ d[k].cumulative = SumFunctionOnSet(qty, 1..k)
  OBVIOUS
<1>10. DOMAIN d = 1..N /\ d = [k \in 1..N |-> d[k]]
  OBVIOUS
<1> HIDE DEF d
<1>11. d \in Seq(Rows) /\ Len(d) = N
  <2>1. d \in [1..N -> Rows]
    BY <1>8, <1>10
  <2> QED BY <1>5, <2>1
<1>12. ASSUME NEW k \in 1..N PROVE d[k].cumulative = SumFunctionOnSet(Qtys(d), 1..k)
  <2>1. IsFiniteSet(1..k)
    BY FS_Interval
  <2>2. \A j \in 1..k : j \in 1..N
    BY <1>5
  <2>3. \A j \in 1..k : qty[j] \in Int /\ Qtys(d)[j] = qty[j]
    <3> TAKE j \in 1..k
    <3>1. j \in 1..N
      BY <2>2
    <3>2. Qtys(d)[j] = d[j].qty
      BY <1>11, <3>1, TotalIs
    <3> QED BY <1>6, <1>9, <3>1, <3>2
  <2>4. SumFunctionOnSet(Qtys(d), 1..k) = SumFunctionOnSet(qty, 1..k)
    <3> DEFINE q == Qtys(d)
    <3> HIDE DEF q
    <3>1. \A j \in 1..k : qty[j] \in Int
      BY <2>3
    <3>2. \A j \in 1..k : q[j] = qty[j]
      BY <2>3 DEF q
    <3>3. SumFunctionOnSet(q, 1..k) = SumFunctionOnSet(qty, 1..k)
      BY <2>1, <3>1, <3>2, SumSame
    <3> QED BY <3>3 DEF q
  <2> QED BY <1>9, <2>4
<1>13. \A i, j \in 1..N : i < j => Nearer(side, d[i].tick, d[j].tick)
  <2> TAKE i, j \in 1..N
  <2> HAVE i < j
  <2>1. Nearer(side, ticks[i], ticks[j])
    BY <1>2, <1>6 DEF Listed
  <2> QED BY <1>9, <2>1
<1>14. IsLadder(side, d)
  BY <1>11, <1>12, <1>13 DEF IsLadder
<1> QED BY <1>3, <1>14

\* A ladder names each tick once, and each of its prefixes adds up.
LEMMA LadderExactRows ==
  ASSUME NEW side \in FeedSides, NEW d, IsLadder(side, d)
  PROVE  /\ \A j, k \in DOMAIN d : d[j].tick = d[k].tick => j = k
         /\ \A k \in DOMAIN d : d[k].cumulative = Total(SubSeq(d, 1, k))
<1>1. d \in Seq(Rows) /\ Len(d) \in Nat /\ DOMAIN d = 1..Len(d)
  BY DEF IsLadder
<1>2. \A k \in 1..Len(d) : d[k].tick \in Nat /\ k \in 0..Len(d)
  <2> TAKE k \in 1..Len(d)
  <2>1. d[k] \in Rows
    BY <1>1
  <2> QED BY <2>1 DEF Rows
<1>3. ASSUME NEW j \in 1..Len(d), NEW k \in 1..Len(d), d[j].tick = d[k].tick PROVE j = k
  <2>1. ~(j < k) /\ ~(k < j)
    BY <1>2, <1>3 DEF IsLadder, Nearer
  <2> QED BY <2>1
<1>4. ASSUME NEW k \in 1..Len(d) PROVE d[k].cumulative = Total(SubSeq(d, 1, k))
  <2>1. Total(SubSeq(d, 1, k)) = SumFunctionOnSet(Qtys(d), 1..k)
    BY <1>2, LadderCut
  <2> QED BY <2>1 DEF IsLadder
<1> QED BY <1>1, <1>3, <1>4

BucketOf(tick) == (tick \div Group) * Group

\* Buckets follow each other in the order of their ticks.
LEMMA BucketOrder ==
  ASSUME NEW side, NEW x \in Nat, NEW y \in Nat, Nearer(side, x, y)
  PROVE  /\ BucketOf(x) \in Nat /\ BucketOf(y) \in Nat
         /\ BucketOf(x) = BucketOf(y) \/ Nearer(side, BucketOf(x), BucketOf(y))
<1> DEFINE p == x \div Group
           q == y \div Group
<1>1. Group \in Nat \ {0}
  BY FeedAssumption
<1>2. p \in Nat /\ q \in Nat /\ (x <= y => p <= q) /\ (y <= x => q <= p)
  BY <1>1, QuotientGrows
<1> HIDE DEF p, q
<1>3. ASSUME NEW i \in Nat, NEW j \in Nat, i < j PROVE i * Group < j * Group
  <2> DEFINE m == j - i - 1
  <2>1. m \in Nat /\ j = (i + 1) + m
    BY <1>3
  <2> HIDE DEF m
  <2>2. j * Group = i * Group + Group + m * Group /\ m * Group \in Nat /\ i * Group \in Nat
    BY <1>1, <2>1
  <2> QED BY <1>1, <2>2
<1>4. p * Group \in Nat /\ q * Group \in Nat
  BY <1>1, <1>2
<1>5. BucketOf(x) = p * Group /\ BucketOf(y) = q * Group
  BY DEF BucketOf, p, q
<1>6. CASE p = q
  BY <1>4, <1>5, <1>6
<1>7. CASE p # q
  <2>1. (p < q => p * Group < q * Group) /\ (q < p => q * Group < p * Group)
    BY <1>2, <1>3
  <2>2. Nearer(side, p * Group, q * Group)
    BY <1>2, <1>7, <2>1 DEF Nearer
  <2> QED BY <1>4, <1>5, <2>2
<1> QED BY <1>6, <1>7

GroupAcc == [sum : Nat, out : Seq(Rows)]
NoGroups == [sum |-> 0, out |-> <<>>]

LEMMA JoinedIs ==
  ASSUME NEW last \in Rows, NEW level \in Rows, NEW sum \in Nat
  PROVE  /\ Joined(last, level, sum) \in Rows /\ Joined(last, level, sum).tick = last.tick
         /\ Joined(last, level, sum).qty = last.qty + level.qty
         /\ Joined(last, level, sum).cumulative = sum
<1>1. last.tick \in Nat /\ last.qty \in Nat /\ level.qty \in Nat
  BY DEF Rows
<1>2. last.qty + level.qty \in Nat /\ sum \in Int
  BY <1>1
<1>3. Joined(last, level, sum) = [tick |-> last.tick, qty |-> last.qty + level.qty, cumulative |-> sum]
  <2> DEFINE q == last.qty + level.qty
             one == [last EXCEPT !.qty = q]
  <2>1. last = [tick |-> last.tick, qty |-> last.qty, cumulative |-> last.cumulative]
    BY DEF Rows
  <2>2. one = [tick |-> last.tick, qty |-> q, cumulative |-> last.cumulative]
    <3> HIDE DEF q
    <3> QED BY <2>1
  <2>3. Joined(last, level, sum) = [one EXCEPT !.cumulative = sum]
    BY DEF Joined
  <2> HIDE DEF one, q
  <2>4. [one EXCEPT !.cumulative = sum] = [tick |-> last.tick, qty |-> q, cumulative |-> sum]
    BY <2>2
  <2> QED BY <2>3, <2>4 DEF q
<1> QED BY <1>1, <1>2, <1>3 DEF Rows

LEMMA LastAppended ==
  ASSUME NEW V, NEW s \in Seq(V), NEW x \in V
  PROVE  Append(s, x) # <<>> /\ Append(s, x)[Len(Append(s, x))] = x
OBVIOUS

\* A level goes into the newest bucket or opens the next one behind it.
LEMMA IntoBucketKeeps ==
  ASSUME NEW side \in FeedSides, NEW acc \in GroupAcc, NEW level \in Rows,
         IsLadder(side, acc.out), acc.sum = Total(acc.out),
         acc.out # <<>> =>
           \E x \in Nat : acc.out[Len(acc.out)].tick = BucketOf(x) /\ Nearer(side, x, level.tick)
  PROVE  LET new == IntoBucket(acc, level, Group)
         IN /\ IsLadder(side, new.out) /\ new.sum = Total(new.out)
            /\ new.sum = acc.sum + level.qty
            /\ new.out # <<>> /\ new.out[Len(new.out)].tick = BucketOf(level.tick)
<1> DEFINE new == IntoBucket(acc, level, Group)
           out == acc.out
           n == Len(out)
           bucket == BucketOf(level.tick)
           sum == acc.sum + level.qty
           last == Last(out)
           opened == [tick |-> bucket, qty |-> level.qty, cumulative |-> sum]
           joined == Joined(last, level, sum)
<1>1. /\ out \in Seq(Rows) /\ n \in Nat /\ acc.sum \in Nat
      /\ level.tick \in Nat /\ level.qty \in Nat /\ sum \in Nat
  BY DEF GroupAcc, Rows
<1>2. bucket \in Nat
  BY <1>1, FeedAssumption, QuotientGrows DEF BucketOf
<1>3. /\ new.sum = sum
      /\ new.out = IF out # <<>> /\ last.tick = bucket THEN Append(Front(out), joined) ELSE Append(out, opened)
  BY DEF IntoBucket, BucketOf
<1> HIDE DEF new, bucket
<1>4. CASE out # <<>> /\ last.tick = bucket
  <2> DEFINE front == SubSeq(out, 1, n - 1)
  <2>1. n - 1 \in 0..n /\ n \in 1..n /\ n - 1 + 1 = n /\ n - 1 \in Nat
    BY <1>1, <1>4
  <2>2. /\ IsLadder(side, front) /\ Len(front) = n - 1
        /\ \A i \in 1..n - 1 : front[i] = out[i]
        /\ Total(front) = SumFunctionOnSet(Qtys(out), 1..n - 1)
    BY <2>1, LadderCut
  <2>3. last = out[n] /\ last \in Rows
    BY <1>1, <2>1 DEF Last
  <2>4. Total(out) = Total(front) + last.qty
    <3> DEFINE q == Qtys(out)
    <3>1. \A i \in 1..n : q[i] \in Int
      BY <1>1, TotalIs
    <3>2. q[n] = last.qty
      BY <1>1, <2>1, <2>3, TotalIs
    <3> HIDE DEF q
    <3>3. SumFunctionOnSet(q, 1..n) = SumFunctionOnSet(q, 1..n - 1) + q[n]
      <4> DEFINE m == n - 1
      <4>1. m \in Nat /\ m + 1 = n /\ (\A i \in 1..m : q[i] \in Int) /\ q[m + 1] \in Int
        BY <2>1, <3>1
      <4> HIDE DEF m
      <4>2. \A i \in 1..m : q[i] = q[i]
        OBVIOUS
      <4>3. SumFunctionOnSet(q, 1..m + 1) = SumFunctionOnSet(q, 1..m) + q[m + 1]
        BY <4>1, <4>2, SumNext
      <4> QED BY <4>1, <4>3 DEF m
    <3>4. Total(out) = SumFunctionOnSet(q, 1..n)
      BY <1>1, TotalIs DEF q
    <3> QED BY <2>2, <3>2, <3>3, <3>4 DEF q
  <2>5. /\ joined \in Rows /\ joined.tick = last.tick
        /\ joined.qty = last.qty + level.qty /\ joined.cumulative = sum
    BY <1>1, <2>3, JoinedIs
  <2>6. last.qty \in Nat /\ Total(front) \in Nat
    <3>1. front \in Seq(Rows)
      BY <2>2 DEF IsLadder
    <3>2. Total(front) \in Nat
      BY <3>1, TotalIs
    <3> QED BY <2>3, <3>2 DEF Rows
  <2>7. joined.cumulative = Total(front) + joined.qty
    BY <1>1, <2>4, <2>5, <2>6
  <2>8. front # <<>> => Nearer(side, front[Len(front)].tick, joined.tick)
    <3> HAVE front # <<>>
    <3>1. n - 1 \in 1..n - 1 /\ n - 1 \in 1..n /\ n - 1 < n
      BY <2>1, <2>2
    <3>2. Nearer(side, out[n - 1].tick, out[n].tick)
      BY <2>1, <3>1 DEF IsLadder
    <3> QED BY <2>2, <2>3, <2>5, <3>1, <3>2
  <2> HIDE DEF front, joined, last
  <2>9. IsLadder(side, Append(front, joined)) /\ Total(Append(front, joined)) = Total(front) + joined.qty
    BY <2>2, <2>5, <2>7, <2>8, LadderGrows
  <2>10. new.out = Append(front, joined)
    BY <1>3, <1>4 DEF Front, front
  <2>11. front \in Seq(Rows)
    BY <2>2 DEF IsLadder
  <2>12. /\ Append(front, joined) # <<>>
         /\ Append(front, joined)[Len(Append(front, joined))] = joined
    BY <2>5, <2>11, LastAppended
  <2>13. IsLadder(side, new.out) /\ new.out # <<>> /\ new.out[Len(new.out)].tick = bucket
    BY <1>4, <2>5, <2>9, <2>10, <2>12
  <2>14. Total(new.out) = new.sum
    <3>1. Total(new.out) = Total(front) + (last.qty + level.qty)
      BY <2>5, <2>9, <2>10
    <3>2. acc.sum = Total(front) + last.qty
      BY <2>4
    <3>3. last.qty \in Nat /\ level.qty \in Nat /\ Total(front) \in Nat
      BY <1>1, <2>6
    <3>4. new.sum = (Total(front) + last.qty) + level.qty
      BY <1>3, <3>2
    <3> QED BY <3>1, <3>3, <3>4
  <2> QED BY <1>3, <2>13, <2>14 DEF new, bucket
<1>5. CASE ~(out # <<>> /\ last.tick = bucket)
  <2>1. opened \in Rows /\ opened.tick = bucket /\ opened.qty = level.qty /\ opened.cumulative = sum
    BY <1>1, <1>2 DEF Rows
  <2>2. out # <<>> => Nearer(side, out[n].tick, bucket)
    <3> HAVE out # <<>>
    <3>1. PICK x \in Nat : out[n].tick = BucketOf(x) /\ Nearer(side, x, level.tick)
      OBVIOUS
    <3>2. out[n].tick # bucket
      BY <1>5 DEF Last
    <3> QED BY <1>1, <3>1, <3>2, BucketOrder DEF bucket
  <2> HIDE DEF opened
  <2>3. opened.cumulative = Total(out) + opened.qty
    BY <2>1
  <2>4. IsLadder(side, Append(out, opened)) /\ Total(Append(out, opened)) = Total(out) + opened.qty
    BY <2>1, <2>2, <2>3, LadderGrows
  <2>5. new.out = Append(out, opened)
    BY <1>3, <1>5
  <2>6. Append(out, opened) # <<>> /\ Append(out, opened)[Len(Append(out, opened))] = opened
    BY <1>1, <2>1, LastAppended
  <2> QED BY <1>3, <2>1, <2>4, <2>5, <2>6 DEF new, bucket
<1> QED BY <1>4, <1>5

GroupFold(d, g) ==
  g = [s \in SUBSET DOMAIN d |->
         IF s = {} THEN NoGroups ELSE IntoBucket(g[s \ {Max(s)}], d[Max(s)], Group)]

LEMMA IntoBucketTyped ==
  ASSUME NEW acc \in GroupAcc, NEW level \in Rows
  PROVE  IntoBucket(acc, level, Group) \in GroupAcc
<1> DEFINE out == acc.out
           bucket == BucketOf(level.tick)
           sum == acc.sum + level.qty
           opened == [tick |-> bucket, qty |-> level.qty, cumulative |-> sum]
           joined == Joined(Last(out), level, sum)
           then == IF out # <<>> /\ Last(out).tick = bucket THEN Append(Front(out), joined) ELSE Append(out, opened)
<1>1. out \in Seq(Rows) /\ sum \in Nat /\ level.qty \in Nat /\ bucket \in Nat
  BY FeedAssumption, QuotientGrows DEF GroupAcc, Rows, BucketOf
<1>2. IntoBucket(acc, level, Group) = [sum |-> sum, out |-> then]
  BY DEF IntoBucket, BucketOf
<1>3. Append(out, opened) \in Seq(Rows)
  <2>1. opened \in Rows
    BY <1>1 DEF Rows
  <2> HIDE DEF opened, out
  <2> QED BY <1>1, <2>1
<1>4. out # <<>> => Append(Front(out), joined) \in Seq(Rows)
  <2> HAVE out # <<>>
  <2>1. Last(out) \in Rows
    <3> HIDE DEF out
    <3> QED BY <1>1 DEF Last
  <2>2. joined \in Rows
    BY <1>1, <2>1, JoinedIs
  <2>3. Front(out) \in Seq(Rows)
    <3> HIDE DEF out
    <3> QED BY <1>1 DEF Front
  <2> HIDE DEF joined, out
  <2> QED BY <2>2, <2>3
<1>5. then \in Seq(Rows)
  <2> HIDE DEF opened, joined, out, bucket
  <2> QED BY <1>3, <1>4
<1> HIDE DEF then, sum
<1> QED BY <1>1, <1>2, <1>5 DEF GroupAcc

\* The pass of group_levels as a run over the levels.
LEMMA GroupRuns ==
  ASSUME NEW d \in Seq(Rows), ~ (Group <= 1)
  PROVE  \E run : /\ run \in [0..Len(d) -> GroupAcc] /\ run[0] = NoGroups
                  /\ \A n \in 1..Len(d) : run[n] = IntoBucket(run[n - 1], d[n], Group)
                  /\ group_levels(d, Group) = run[Len(d)].out
<1> DEFINE V == GroupAcc
           D == DOMAIN d
           N == Len(d)
           step == [p \in V \X (1..N) |-> IntoBucket(p[1], d[p[2]], Group)]
           it == CHOOSE g : GroupFold(d, g)
<1>1. N \in Nat /\ D = 1..N /\ \A n \in 1..N : d[n] \in Rows
  OBVIOUS
<1>2. group_levels(d, Group) = it[D].out
  BY Zenon DEF group_levels, FoldLeft, MapThenFoldSet, GroupFold, NoGroups
<1> HIDE DEF D, N
<1>3. \A acc \in V, n \in 1..N : IntoBucket(acc, d[n], Group) \in V
  BY <1>1, IntoBucketTyped
<1>4. step \in StepsOf(V, N) /\ NoGroups \in V
  <2>1. NoGroups \in V
    BY DEF NoGroups, GroupAcc
  <2> QED BY <1>3, <2>1 DEF StepsOf
<1>5. \A x \in V, n \in 1..N : step[<<x, n>>] = IntoBucket(x, d[n], Group)
  OBVIOUS
<1> HIDE DEF V, step
<1>6. PICK g : FoldsUp(g, V, N, NoGroups, step)
  BY <1>1, <1>4, FoldExists
<1>7. \A s \in SUBSET (1..N) : s # {} => /\ Max(s) \in 1..N /\ s \ {Max(s)} \in SUBSET (1..N)
  <2> TAKE s \in SUBSET (1..N)
  <2> HAVE s # {}
  <2>1. Max(s) \in s
    BY <1>1, MaxOf
  <2> QED BY <2>1
<1>8. \E h : GroupFold(d, h)
  <2>1. \A s \in SUBSET (1..N) : g[s] = IF s = {} THEN NoGroups ELSE IntoBucket(g[s \ {Max(s)}], d[Max(s)], Group)
    <3> TAKE s \in SUBSET (1..N)
    <3>1. g[s] = IF s = {} THEN NoGroups ELSE step[<<g[s \ {Max(s)}], Max(s)>>]
      BY <1>6 DEF FoldsUp
    <3>2. CASE s = {}
      BY <3>1, <3>2
    <3>3. CASE s # {}
      <4>1. Max(s) \in 1..N /\ g[s \ {Max(s)}] \in V
        BY <1>6, <1>7, <3>3 DEF FoldsUp
      <4> QED BY <1>5, <3>1, <3>3, <4>1
    <3> QED BY <3>2, <3>3
  <2>2. g = [s \in SUBSET (1..N) |-> g[s]]
    BY <1>6 DEF FoldsUp
  <2>3. GroupFold(d, g)
    BY <1>1, <2>1, <2>2 DEF GroupFold, D
  <2> QED BY <2>3
<1>9. GroupFold(d, it)
  BY <1>8
<1> HIDE DEF it
<1>10. \A s \in SUBSET (1..N) : it[s] = IF s = {} THEN NoGroups ELSE IntoBucket(it[s \ {Max(s)}], d[Max(s)], Group)
  BY <1>1, <1>9 DEF GroupFold, D
<1>11. it[{}] = NoGroups
  <2>1. {} \in SUBSET (1..N)
    OBVIOUS
  <2> QED BY <1>10, <2>1
<1>12. \A s \in SUBSET (1..N) :
         s # {} /\ it[s \ {Max(s)}] \in V => it[s] = step[<<it[s \ {Max(s)}], Max(s)>>]
  BY <1>5, <1>7, <1>10
<1> DEFINE run == [n \in 0..N |-> it[1..n]]
<1>13. RunOf(run, V, N, NoGroups, step)
  BY <1>1, <1>4, <1>11, <1>12, FoldRuns
<1>14. run[N] = it[D]
  BY <1>1
<1> HIDE DEF run
<1>15. \A n \in 1..N : run[n] = IntoBucket(run[n - 1], d[n], Group)
  <2> TAKE n \in 1..N
  <2>1. n - 1 \in 0..N
    BY <1>1
  <2> QED BY <1>5, <1>13, <2>1 DEF RunOf
<1> QED BY <1>2, <1>13, <1>14, <1>15 DEF RunOf, V, N

\* Grouping makes a ladder of a ladder and loses no depth.
LEMMA GroupedIsLadder ==
  ASSUME NEW side \in FeedSides, NEW d, IsLadder(side, d)
  PROVE  IsLadder(side, group_levels(d, Group)) /\ Total(group_levels(d, Group)) = Total(d)
<1>1. CASE Group <= 1
  BY <1>1 DEF group_levels
<1>2. CASE ~ (Group <= 1)
  <2> DEFINE N == Len(d)
             q == Qtys(d)
  <2>1. d \in Seq(Rows) /\ N \in Nat /\ \A n \in 1..N : d[n] \in Rows
    BY DEF IsLadder
  <2>2. PICK run : /\ run \in [0..N -> GroupAcc] /\ run[0] = NoGroups
                   /\ \A n \in 1..N : run[n] = IntoBucket(run[n - 1], d[n], Group)
                   /\ group_levels(d, Group) = run[N].out
    BY <1>2, <2>1, GroupRuns
  <2>3. Total(d) = SumFunctionOnSet(q, 1..N) /\ \A n \in 1..N : q[n] = d[n].qty /\ q[n] \in Nat
    BY <2>1, TotalIs
  <2> HIDE DEF N, q
  <2> DEFINE Good(n) == /\ IsLadder(side, run[n].out)
                        /\ run[n].sum = Total(run[n].out)
                        /\ run[n].sum = SumFunctionOnSet(q, 1..n)
                        /\ run[n].out # <<>> =>
                             n > 0 /\ run[n].out[Len(run[n].out)].tick = BucketOf(d[n].tick)
             G == {n \in Nat : n <= N => Good(n)}
  <2>4. 0 \in G
    <3>1. 1..0 = {} /\ run[0].out = <<>> /\ run[0].sum = 0
      BY <2>2 DEF NoGroups
    <3>2. SumFunctionOnSet(q, 1..0) = 0
      BY <3>1, SumEmpty
    <3>3. <<>> \in Seq(Rows) /\ Len(<<>>) = 0
      OBVIOUS
    <3>4. Total(<<>>) = 0
      <4> DEFINE e == <<>>
                 f == Qtys(e)
      <4>1. Total(e) = SumFunctionOnSet(f, 1..Len(e))
        BY <3>3, TotalIs
      <4>2. 1..Len(e) = {}
        OBVIOUS
      <4> HIDE DEF e, f
      <4>3. Total(e) = 0
        BY <4>1, <4>2, SumEmpty
      <4> QED BY <4>3 DEF e
    <3>5. IsLadder(side, <<>>)
      BY <3>3 DEF IsLadder
    <3>6. Good(0)
      BY <3>1, <3>2, <3>4, <3>5
    <3> QED BY <3>6
  <2>5. \A n \in Nat : n \in G => n + 1 \in G
    <3> SUFFICES ASSUME NEW n \in Nat, n + 1 <= N, Good(n) PROVE Good(n + 1)
      <4> HIDE DEF Good
      <4> QED BY <2>1
    <3> DEFINE m == n + 1
               acc == run[n]
               level == d[m]
    <3>1. m \in 1..N /\ n \in 0..N /\ m - 1 = n
      BY <2>1
    <3>2. acc \in GroupAcc /\ level \in Rows /\ run[m] = IntoBucket(acc, level, Group)
      BY <2>1, <2>2, <3>1
    <3>3. acc.out # <<>> => \E x \in Nat : acc.out[Len(acc.out)].tick = BucketOf(x) /\ Nearer(side, x, level.tick)
      <4> HAVE acc.out # <<>>
      <4>1. n \in 1..N /\ n < m
        BY <3>1
      <4>2. d[n].tick \in Nat
        BY <2>1, <4>1 DEF Rows
      <4>3. Nearer(side, d[n].tick, level.tick)
        BY <3>1, <4>1 DEF IsLadder, N
      <4> QED BY <4>2, <4>3
    <3>4. IsLadder(side, acc.out) /\ acc.sum = Total(acc.out) /\ acc.sum = SumFunctionOnSet(q, 1..n)
      OBVIOUS
    <3> HIDE DEF acc, level
    <3>5. LET new == IntoBucket(acc, level, Group)
          IN /\ IsLadder(side, new.out) /\ new.sum = Total(new.out)
             /\ new.sum = acc.sum + level.qty
             /\ new.out # <<>> /\ new.out[Len(new.out)].tick = BucketOf(level.tick)
      BY <3>2, <3>3, <3>4, IntoBucketKeeps
    <3>6. SumFunctionOnSet(q, 1..m) = acc.sum + level.qty
      <4>1. \A i \in 1..n : q[i] \in Int
        <5> TAKE i \in 1..n
        <5>1. i \in 1..N
          BY <2>1, <3>1
        <5> QED BY <2>3, <5>1
      <4>2. q[m] = level.qty /\ q[m] \in Int
        BY <2>3, <3>1 DEF level
      <4>3. \A i \in 1..n : q[i] = q[i]
        OBVIOUS
      <4>4. SumFunctionOnSet(q, 1..n + 1) = SumFunctionOnSet(q, 1..n) + q[n + 1]
        BY <4>1, <4>2, <4>3, SumNext
      <4> QED BY <3>4, <4>2, <4>4
    <3>7. m > 0
      OBVIOUS
    <3> HIDE DEF m
    <3>8. Good(m)
      BY <3>2, <3>5, <3>6, <3>7 DEF level
    <3> QED BY <3>8 DEF m
  <2> HIDE DEF G
  <2>6. Nat \subseteq G
    BY <2>4, <2>5, Induction
  <2>7. Good(N)
    <3>1. N \in G /\ N <= N
      BY <2>1, <2>6
    <3> QED BY <3>1 DEF G
  <2> QED BY <2>2, <2>3, <2>7
<1> QED BY <1>1, <1>2

\* Grouping is exact for every book.
LEMMA GroupingIsExact ==
  ASSUME feedLevels \in Ladders
  PROVE  GroupedDepthExact
<1> SUFFICES ASSUME NEW side \in FeedSides
             PROVE  LET levels == Depth(side, feedLevels)
                        rows   == group_levels(levels, Group)
                    IN /\ \A j, k \in DOMAIN rows : rows[j].tick = rows[k].tick => j = k
                       /\ \A k \in DOMAIN rows : rows[k].cumulative = Total(SubSeq(rows, 1, k))
                       /\ Total(rows) = Total(levels)
  BY DEF GroupedDepthExact
<1> DEFINE levels == Depth(side, feedLevels)
           rows == group_levels(levels, Group)
<1>1. IsLadder(side, levels)
  BY DepthIsLadder
<1> HIDE DEF levels
<1>2. IsLadder(side, rows) /\ Total(rows) = Total(levels)
  BY <1>1, GroupedIsLadder
<1> HIDE DEF rows
<1>3. /\ \A j, k \in DOMAIN rows : rows[j].tick = rows[k].tick => j = k
      /\ \A k \in DOMAIN rows : rows[k].cumulative = Total(SubSeq(rows, 1, k))
  BY <1>2, LadderExactRows
<1> QED BY <1>2, <1>3 DEF rows, levels

\* For every set of handlers, ticks and quantities, every depth, bucket and size
\* of the channel: once everything sent has arrived the subscriber sees the book
\* as it was at the last change to be broadcast or later, unless a snapshot was
\* sent after one built later; and grouping shows each bucket once, with all the
\* depth up to it (broadcast_orderbook_update, stream_orderbook, group_levels).
THEOREM SubscribersSeeTheBook == MCSpec => []FeedShowsTheBook
<1>1. MCInit => FeedInv
  BY FeedStart DEF MCInit
<1>2. [MCNext]_allVars => [FeedNext]_feedVars
  BY DEF MCNext, Only, allVars
<1>3. FeedInv /\ [FeedNext]_feedVars => FeedInv'
  BY FeedStep
<1>4. FeedInv => FeedShowsTheBook
  <2> SUFFICES ASSUME FeedInv PROVE FeedShowsTheBook
    OBVIOUS
  <2>1. feedLevels \in Ladders
    BY DEF FeedInv
  <2> QED BY <2>1, FeedEnough, GroupingIsExact DEF FeedShowsTheBook
<1> QED BY <1>1, <1>2, <1>3, <1>4, PTL DEF MCSpec

-----------------------------------------------------------------------------
(* The margin of a portfolio *)

\* The state of the account in its own scenario.
RiskInv ==
  /\ riskPosition \in [RiskMarkets -> Int]
  /\ riskMark \in [RiskMarkets -> Nat \cup {Missing}]
  /\ riskCollateral \in Nat

LEMMA RiskBegins == RiskInit => RiskInv
BY DEF RiskInit, RiskInv

LEMMA RequirementNat ==
  ASSUME NEW pos \in [RiskMarkets -> Int], NEW marks \in [RiskMarkets -> Nat \cup {Missing}], Priced(pos, marks)
  PROVE  current_margin_requirement(pos, marks) \in Nat
<1> DEFINE f == [m \in RiskMarkets |-> (Magnitude(pos[m]) * marks[m] * RISK_MMR_BPS) \div (RISK_SCALE * RISK_BPS)]
           open == {m \in RiskMarkets : pos[m] # 0}
<1>1. \A m \in RiskMarkets : pos[m] # 0 => marks[m] # Missing
  BY DEF Priced, Open
<1>2. current_margin_requirement(pos, marks) = SumFunctionOnSet(f, open)
  BY <1>1 DEF current_margin_requirement
<1>3. open \subseteq RiskMarkets /\ IsFiniteSet(open)
  BY RiskAssumption, FS_Subset
<1>4. ASSUME NEW m \in open PROVE f[m] \in Nat
  <2> DEFINE x == Magnitude(pos[m]) * marks[m]
             n == x * RISK_MMR_BPS
             d == RISK_SCALE * RISK_BPS
  <2>1. pos[m] \in Int /\ marks[m] \in Nat
    BY <1>1
  <2>2. Magnitude(pos[m]) \in Nat
    BY <2>1 DEF Magnitude
  <2>3. x \in Nat
    BY <2>1, <2>2
  <2> HIDE DEF x
  <2>4. n \in Nat
    BY <2>3, RiskAssumption
  <2>5. d \in Nat \ {0}
    BY RiskAssumption
  <2>6. f[m] = n \div d
    BY DEF x
  <2> HIDE DEF n, d, f
  <2> QED BY <2>4, <2>5, <2>6
<1> HIDE DEF f, open
<1> QED BY <1>2, <1>3, <1>4, SumNat

\* Only a withdrawal takes collateral, and it was checked.
LEMMA RiskStep ==
  ASSUME RiskInv, [RiskNext]_riskVars
  PROVE  RiskInv' /\ WithdrawStaysHealthy
<1>0. riskPosition \in [RiskMarkets -> Int] /\ riskMark \in [RiskMarkets -> Nat \cup {Missing}] /\ riskCollateral \in Nat
  BY DEF RiskInv
<1>1. ASSUME NEW m \in RiskMarkets, NEW n \in RiskSizes, Trade(m, n)
      PROVE  RiskInv' /\ riskCollateral' = riskCollateral
  BY <1>0, <1>1, RiskAssumption DEF Trade, RiskInv
<1>2. ASSUME NEW marks \in [RiskMarkets -> RiskMarks \cup {Missing}], MarksMove(marks)
      PROVE  RiskInv' /\ riskCollateral' = riskCollateral
  BY <1>0, <1>2, RiskAssumption DEF MarksMove, RiskInv
<1>3. ASSUME NEW v \in RiskAmounts, Deposit(v)
      PROVE  RiskInv' /\ riskCollateral <= riskCollateral'
  BY <1>0, <1>3, RiskAssumption DEF Deposit, RiskInv
<1>4. ASSUME NEW v \in RiskAmounts, Withdraw(v)
      PROVE  RiskInv' /\ ~compute_margin(riskPosition', riskMark', riskCollateral').maintenance_breached
  <2> DEFINE required == current_margin_requirement(riskPosition, riskMark)
  <2>1. /\ required # Missing /\ v <= riskCollateral /\ riskCollateral - v >= required
        /\ riskCollateral' = riskCollateral - v /\ riskPosition' = riskPosition /\ riskMark' = riskMark
    BY <1>4 DEF Withdraw, is_withdraw_safe
  <2>2. Priced(riskPosition, riskMark)
    BY <2>1 DEF current_margin_requirement, Priced, Open
  <2>3. required \in Nat
    BY <1>0, <2>2, RequirementNat
  <2>4. compute_margin(riskPosition', riskMark', riskCollateral').maintenance_breached = (required > riskCollateral')
    BY <2>1 DEF compute_margin
  <2> HIDE DEF required
  <2>5. riskCollateral' \in Nat /\ ~(required > riskCollateral')
    BY <1>0, <2>1, <2>3, RiskAssumption
  <2> QED BY <1>0, <2>1, <2>4, <2>5 DEF RiskInv
<1>5. CASE UNCHANGED riskVars
  BY <1>0, <1>5 DEF riskVars, RiskInv, WithdrawStaysHealthy
<1>6. CASE RiskNext
  <2>1. RiskInv' /\ (riskCollateral' < riskCollateral =>
                       ~compute_margin(riskPosition', riskMark', riskCollateral').maintenance_breached)
    <3>1. CASE \E m \in RiskMarkets, n \in RiskSizes : Trade(m, n)
      BY <1>0, <1>1, <3>1
    <3>2. CASE \E marks \in [RiskMarkets -> RiskMarks \cup {Missing}] : MarksMove(marks)
      BY <1>0, <1>2, <3>2
    <3>3. CASE \E v \in RiskAmounts : Deposit(v)
      <4>1. RiskInv' /\ riskCollateral <= riskCollateral'
        BY <1>3, <3>3
      <4>2. riskCollateral' \in Nat
        BY <4>1 DEF RiskInv
      <4> QED BY <1>0, <4>1, <4>2
    <3>4. CASE \E v \in RiskAmounts : Withdraw(v)
      BY <1>4, <3>4
    <3> QED BY <1>6, <3>1, <3>2, <3>3, <3>4 DEF RiskNext
  <2> QED BY <2>1 DEF WithdrawStaysHealthy
<1> QED BY <1>5, <1>6

LEMMA ErrorsAgree ==
  ASSUME RiskInv
  PROVE  MarginErrorsAgree
<1>0. riskPosition \in [RiskMarkets -> Int] /\ riskMark \in [RiskMarkets -> Nat \cup {Missing}]
  BY DEF RiskInv
<1>1. CASE Priced(riskPosition, riskMark)
  <2>1. current_margin_requirement(riskPosition, riskMark) \in Nat
    BY <1>0, <1>1, RequirementNat
  <2>2. current_margin_requirement(riskPosition, riskMark) # Missing
    BY <2>1 DEF Missing
  <2>3. \A a, b, c, d, e, x :
          [f_scenario |-> a, f_concentration |-> b, f_liquidity |-> c, f_correlation |-> d, total |-> e] # [total |-> x]
    OBVIOUS
  <2>4. Margin # Failed
    BY <1>1, <2>3 DEF Margin, compute_portfolio_margin, Failed
  <2> QED BY <2>2, <2>4 DEF MarginErrorsAgree
<1>2. CASE ~Priced(riskPosition, riskMark)
  <2>1. Margin = Failed
    BY <1>2 DEF Margin, compute_portfolio_margin
  <2>2. current_margin_requirement(riskPosition, riskMark) = Missing
    BY <1>2 DEF current_margin_requirement, Priced, Open
  <2> QED BY <2>1, <2>2 DEF MarginErrorsAgree
<1> QED BY <1>1, <1>2

-----------------------------------------------------------------------------
(* Exposures *)

LEMMA GrossIs ==
  ASSUME NEW size \in Int, NEW p \in Nat, NEW q \in Nat, p <= q
  PROVE  /\ Gross(size, p) \in Nat /\ Gross(size, q) \in Nat /\ Gross(size, p) <= Gross(size, q)
         /\ Gross(-size, p) = Gross(size, p)
<1> DEFINE a == Magnitude(size)
           m == q - p
           x == a * p
           y == a * q
<1>1. a \in Nat /\ Magnitude(-size) = a /\ m \in Nat /\ q = p + m
  BY DEF Magnitude
<1> HIDE DEF m
<1>2. x \in Nat /\ y \in Nat /\ x <= y
  <2> HIDE DEF a
  <2>1. a * p \in Nat /\ a * m \in Nat
    BY <1>1
  <2>2. a * q = a * p + a * m
    BY <1>1
  <2> QED BY <2>1, <2>2
<1>3. Gross(size, p) = x \div RISK_SCALE /\ Gross(size, q) = y \div RISK_SCALE /\ Gross(-size, p) = x \div RISK_SCALE
  BY <1>1 DEF Gross
<1> HIDE DEF x, y
<1> QED BY <1>2, <1>3, QuotientGrows, RiskAssumption

\* A long gains with the price, a short loses.
LEMMA ExposureGrows ==
  ASSUME NEW size \in Int, NEW p \in Nat, NEW q \in Nat, p <= q
  PROVE  /\ signed_exposure_usd(size, p) \in Int /\ signed_exposure_usd(size, q) \in Int
         /\ size >= 0 => signed_exposure_usd(size, p) <= signed_exposure_usd(size, q)
         /\ size < 0 => signed_exposure_usd(size, q) <= signed_exposure_usd(size, p)
<1> DEFINE x == Gross(size, p)
           y == Gross(size, q)
<1>1. x \in Nat /\ y \in Nat /\ x <= y
  BY GrossIs
<1>2. /\ signed_exposure_usd(size, p) = IF size < 0 THEN -x ELSE x
      /\ signed_exposure_usd(size, q) = IF size < 0 THEN -y ELSE y
  BY DEF signed_exposure_usd, Signed
<1> HIDE DEF x, y
<1> QED BY <1>1, <1>2

\* The shifts of a corner are the ends of the box, of which the lower one is cut
\* off at zero.
LEMMA CornerShifts ==
  ASSUME NEW before \in Nat, NEW after \in Nat, InBox(before, after)
  PROVE  /\ Shifted(before, -WideBps) \in Nat /\ Shifted(before, -WideBps) <= after
         /\ Shifted(before, WideBps) \in Nat /\ after <= Shifted(before, WideBps)
<1> DEFINE reach == Reach(before)
           w == WideBps
           n == before * w
<1>1. w \in Nat /\ n \in Nat /\ (w = 0 => n = 0) /\ reach = n \div RISK_BPS
  BY RiskAssumption DEF Reach
<1>2. reach \in Nat /\ (n = 0 => reach = 0)
  <2> HIDE DEF n
  <2>1. n <= n * 1 /\ RISK_BPS \in Nat \ {0} /\ n \div RISK_BPS \in Nat
    BY <1>1, RiskAssumption
  <2> QED BY <1>1, <2>1
<1>3. after \in Int /\ before - reach <= after /\ after <= before + reach
  <2> HIDE DEF reach
  <2> QED BY <1>2 DEF InBox, reach
<1>4. Magnitude(w) = w /\ Magnitude(-w) = w
  BY <1>1 DEF Magnitude
<1>5. Signed(w, reach) = reach /\ Signed(-w, reach) = -reach
  BY <1>1, <1>2 DEF Signed
<1> DEFINE up == before + reach
           down == before - reach
<1>6. Shifted(before, w) = Max({0, up}) /\ Shifted(before, -w) = Max({0, down})
  <2>1. before + (-reach) = down
    BY <1>2
  <2> QED BY <1>1, <1>4, <1>5, <2>1 DEF Shifted
<1>7. up \in Nat /\ down \in Int
  BY <1>2
<1>8. after <= up /\ down <= after
  BY <1>3
<1> HIDE DEF up, down, w
<1>9. /\ Max({0, up}) \in {0, up} /\ 0 <= Max({0, up}) /\ up <= Max({0, up})
      /\ Max({0, down}) \in {0, down} /\ 0 <= Max({0, down})
  BY <1>7, MaxZero
<1> DEFINE hi == Max({0, up})
           lo == Max({0, down})
<1>10. hi \in {0, up} /\ 0 <= hi /\ up <= hi /\ lo \in {0, down} /\ 0 <= lo
  BY <1>9
<1> HIDE DEF hi, lo
<1>11. hi \in Nat /\ lo \in Nat /\ lo <= after /\ after <= hi
  BY <1>7, <1>8, <1>10
<1> QED BY <1>6, <1>11 DEF w, hi, lo

\* The greatest of a finite set of integers that has 0 in it.
LEMMA WorstOf ==
  ASSUME NEW T, IsFiniteSet(T), T \subseteq Int, 0 \in T
  PROVE  Max(T) \in T /\ \A y \in T : y <= Max(T)
<1> DEFINE P(z) == \A y \in T : z >= y
           up == {x \in T : x >= 0}
<1>1. up \subseteq Nat /\ up # {} /\ IsFiniteSet(up)
  <2>1. up \subseteq T
    OBVIOUS
  <2>2. IsFiniteSet(up)
    BY <2>1, FS_Subset
  <2>3. 0 \in up
    OBVIOUS
  <2>4. up \subseteq Nat
    <3>1. ASSUME NEW x \in T, x >= 0 PROVE x \in Nat
      <4>1. x \in Int
        OBVIOUS
      <4> QED BY <3>1, <4>1
    <3> QED BY <3>1, Zenon
  <2> HIDE DEF up
  <2> QED BY <2>2, <2>3, <2>4
<1>2. PICK x \in up : \A y \in up : y <= x
  BY <1>1, GreatestOf
<1>3. x \in T /\ P(x)
  <2>1. ASSUME NEW y \in T PROVE x >= y
    <3>1. CASE y >= 0
      <4>1. y \in up /\ y \in Nat /\ x \in Nat
        BY <1>1, <3>1
      <4> QED BY <1>2, <4>1
    <3>2. CASE ~(y >= 0)
      <4>1. x \in Nat /\ y \in Int
        BY <1>1
      <4> QED BY <3>2, <4>1
    <3> QED BY <3>1, <3>2
  <2> QED BY <2>1
<1>4. Max(T) = CHOOSE z \in T : P(z)
  BY DEF Max
<1> HIDE DEF P
<1>5. Max(T) \in T /\ P(Max(T))
  BY <1>3, <1>4
<1>6. \A y \in T : y \in Int /\ Max(T) \in Int
  BY <1>5
<1>7. \A y \in T : Max(T) >= y
  BY <1>5 DEF P
<1> QED BY <1>5, <1>6, <1>7
LEMMA ShiftedNat ==
  ASSUME NEW p \in Nat, NEW shift \in Int
  PROVE  Shifted(p, shift) \in Nat
<1> DEFINE n == p * Magnitude(shift)
           moved_by == Signed(shift, n \div RISK_BPS)
           x == p + moved_by
<1>1. Magnitude(shift) \in Nat
  BY DEF Magnitude
<1>2. n \in Nat
  BY <1>1
<1>3. n \div RISK_BPS \in Int
  <2> HIDE DEF n
  <2> QED BY <1>2, RiskAssumption
<1>4. moved_by \in Int
  <2> DEFINE q == n \div RISK_BPS
  <2>1. q \in Int /\ moved_by = Signed(shift, q)
    BY <1>3
  <2> HIDE DEF q, moved_by
  <2> QED BY <2>1 DEF Signed
<1>5. Shifted(p, shift) = Max({0, x}) /\ x \in Int
  BY <1>4 DEF Shifted
<1> HIDE DEF x
<1> QED BY <1>5, MaxZero

\* The scenario margin is at least the loss under each scenario.
LEMMA WorstScenario ==
  ASSUME NEW pos \in [RiskMarkets -> Int], NEW marks \in [RiskMarkets -> Nat \cup {Missing}], Priced(pos, marks)
  PROVE  /\ scenario_margin(pos, marks) \in Int
         /\ \A s \in Scenarios : -Change(pos, marks, s) <= scenario_margin(pos, marks)
<1> DEFINE open == Open(pos)
           loss == [s \in Scenarios |-> -Change(pos, marks, s)]
           T == {0} \cup {-Change(pos, marks, s) : s \in Scenarios}
<1>1. open \subseteq RiskMarkets /\ IsFiniteSet(open)
  <2>1. open \subseteq RiskMarkets
    BY DEF Open
  <2> HIDE DEF open
  <2> QED BY <2>1, RiskAssumption, FS_Subset
<1>2. \A s \in Scenarios : -Change(pos, marks, s) \in Int
  <2> TAKE s \in Scenarios
  <2> DEFINE k == [m \in RiskMarkets |->
                     signed_exposure_usd(pos[m], Shifted(marks[m], ShiftOf(s, m)))
                       - signed_exposure_usd(pos[m], marks[m])]
  <2>1. Change(pos, marks, s) = SumFunctionOnSet(k, open)
    BY DEF Change
  <2>2. \A m \in open : k[m] \in Int
    <3> TAKE m \in open
    <3>1. m \in RiskMarkets /\ pos[m] \in Int /\ marks[m] \in Nat
      BY <1>1 DEF Priced
    <3>2. Shifted(marks[m], ShiftOf(s, m)) \in Nat
      <4>1. ShiftOf(s, m) \in Int
        BY RiskAssumption DEF ShiftOf
      <4> QED BY <3>1, <4>1, ShiftedNat
    <3>3. signed_exposure_usd(pos[m], Shifted(marks[m], ShiftOf(s, m))) \in Int
      <4> DEFINE q == Shifted(marks[m], ShiftOf(s, m))
      <4>1. q \in Nat /\ q <= q
        BY <3>2
      <4> HIDE DEF q
      <4>2. signed_exposure_usd(pos[m], q) \in Int
        BY <3>1, <4>1, ExposureGrows
      <4> QED BY <4>2 DEF q
    <3>4. signed_exposure_usd(pos[m], marks[m]) \in Int
      <4>1. marks[m] <= marks[m]
        BY <3>1
      <4> QED BY <3>1, <4>1, ExposureGrows
    <3> QED BY <3>1, <3>3, <3>4
  <2> HIDE DEF k, open
  <2>3. SumFunctionOnSet(k, open) \in Int
    BY <1>1, <2>2, SumInt
  <2> QED BY <2>1, <2>3
<1>3. IsFiniteSet(T)
  <2>1. {-Change(pos, marks, s) : s \in Scenarios} = {loss[s] : s \in Scenarios}
    OBVIOUS
  <2>2. IsFiniteSet({loss[s] : s \in Scenarios})
    <3> HIDE DEF loss
    <3> QED BY RiskAssumption, ValuesFinite
  <2>3. IsFiniteSet({-Change(pos, marks, s) : s \in Scenarios} \cup {0})
    BY <2>1, <2>2, FS_AddElement
  <2>4. T = {-Change(pos, marks, s) : s \in Scenarios} \cup {0}
    OBVIOUS
  <2> QED BY <2>3, <2>4
<1>4. T \subseteq Int /\ 0 \in T /\ \A s \in Scenarios : -Change(pos, marks, s) \in T
  BY <1>2
<1>5. scenario_margin(pos, marks) = Max(T)
  BY DEF scenario_margin
<1> HIDE DEF T
<1>6. Max(T) \in T /\ \A y \in T : y <= Max(T)
  BY <1>3, <1>4, WorstOf
<1> QED BY <1>4, <1>5, <1>6

\* What a move inside the box costs is at most what the corner costs towards
\* which every position loses.
LEMMA CornersCover ==
  ASSUME RiskInv, RiskInv'
  PROVE  CornersCoverTheBox
<1> SUFFICES ASSUME Corners \subseteq Scenarios, UNCHANGED riskPosition,
                    \A m \in RiskMarkets : InBox(riskMark[m], riskMark'[m])
             PROVE  ValueAt(riskMark) - ValueAt(riskMark') <= Margin.f_scenario
  BY DEF CornersCoverTheBox
<1> DEFINE pos == riskPosition
           was == riskMark
           is == riskMark'
           open == Open(pos)
           c == [m \in RiskMarkets |-> IF pos[m] > 0 THEN -WideBps ELSE WideBps]
           f == [m \in RiskMarkets |-> signed_exposure_usd(pos[m], was[m])]
           g == [m \in RiskMarkets |-> signed_exposure_usd(pos[m], is[m])]
           h == [m \in RiskMarkets |->
                   signed_exposure_usd(pos[m], Shifted(was[m], ShiftOf(c, m)))
                     - signed_exposure_usd(pos[m], was[m])]
<1>1. /\ pos \in [RiskMarkets -> Int]
      /\ was \in [RiskMarkets -> Nat \cup {Missing}] /\ is \in [RiskMarkets -> Nat \cup {Missing}]
  BY DEF RiskInv
<1>2. \A m \in RiskMarkets : was[m] \in Nat /\ is[m] \in Nat
  BY <1>1 DEF InBox
<1>3. c \in Scenarios /\ \A m \in RiskMarkets : ShiftOf(c, m) = IF pos[m] > 0 THEN -WideBps ELSE WideBps
  <2>1. c \in Corners
    BY DEF Corners
  <2>2. \A m \in RiskMarkets : ShiftOf(c, m) = c[m]
    BY DEF ShiftOf
  <2> QED BY <2>1, <2>2
<1>4. /\ ValueAt(was) = SumFunctionOnSet(f, open) /\ ValueAt(is) = SumFunctionOnSet(g, open)
      /\ Change(pos, was, c) = SumFunctionOnSet(h, open)
  BY DEF ValueAt, Change
<1>5. open \subseteq RiskMarkets /\ IsFiniteSet(open) /\ \A m \in open : pos[m] # 0
  <2>1. open \subseteq RiskMarkets /\ \A m \in open : pos[m] # 0
    BY DEF Open
  <2> HIDE DEF open
  <2> QED BY <2>1, RiskAssumption, FS_Subset
<1>6. ASSUME NEW m \in open
      PROVE  f[m] \in Int /\ g[m] \in Int /\ h[m] \in Int /\ f[m] + h[m] <= g[m]
  <2> DEFINE x == signed_exposure_usd(pos[m], was[m])
             y == signed_exposure_usd(pos[m], is[m])
             z == signed_exposure_usd(pos[m], Shifted(was[m], ShiftOf(c, m)))
  <2>1. m \in RiskMarkets /\ pos[m] \in Int /\ pos[m] # 0 /\ was[m] \in Nat /\ is[m] \in Nat
    BY <1>1, <1>2, <1>5
  <2>2. f[m] = x /\ g[m] = y /\ h[m] = z - x
    BY <2>1
  <2>3. x \in Int
    BY <2>1, ExposureGrows
  <2>4. /\ Shifted(was[m], -WideBps) \in Nat /\ Shifted(was[m], -WideBps) <= is[m]
        /\ Shifted(was[m], WideBps) \in Nat /\ is[m] <= Shifted(was[m], WideBps)
    BY <2>1, CornerShifts
  <2>5. y \in Int /\ z \in Int /\ z <= y
    <3>1. CASE pos[m] > 0
      <4>1. ShiftOf(c, m) = -WideBps
        BY <1>3, <2>1, <3>1
      <4>2. z = signed_exposure_usd(pos[m], Shifted(was[m], -WideBps))
        BY <4>1
      <4>3. pos[m] >= 0
        BY <2>1, <3>1
      <4> HIDE DEF z, y, c
      <4> QED BY <2>1, <2>4, <4>2, <4>3, ExposureGrows DEF y
    <3>2. CASE ~(pos[m] > 0)
      <4>1. ShiftOf(c, m) = WideBps
        BY <1>3, <2>1, <3>2
      <4>2. z = signed_exposure_usd(pos[m], Shifted(was[m], WideBps))
        BY <4>1
      <4>3. pos[m] < 0
        BY <2>1, <3>2
      <4> HIDE DEF z, y, c
      <4> QED BY <2>1, <2>4, <4>2, <4>3, ExposureGrows DEF y
    <3> QED BY <3>1, <3>2
  <2> HIDE DEF x, y, z, f, g, h
  <2> QED BY <2>2, <2>3, <2>5
<1> DEFINE e == [m \in open |-> f[m] + h[m]]
           d == [m \in open |-> g[m] - e[m]]
<1>7. \A m \in open : e[m] = f[m] + h[m] /\ d[m] = g[m] - e[m]
  OBVIOUS
<1> HIDE DEF f, g, h, open, e, d
<1>8. \A m \in open : e[m] \in Int /\ d[m] \in Nat /\ d[m] \in Int /\ g[m] = e[m] + d[m]
  <2> TAKE m \in open
  <2> DEFINE fm == f[m]
             gm == g[m]
             hm == h[m]
  <2>1. fm \in Int /\ gm \in Int /\ hm \in Int /\ fm + hm <= gm /\ e[m] = fm + hm /\ d[m] = gm - e[m]
    BY <1>6, <1>7
  <2> HIDE DEF fm, gm, hm
  <2> QED BY <2>1 DEF gm
<1>9. SumFunctionOnSet(e, open) = SumFunctionOnSet(f, open) + SumFunctionOnSet(h, open)
  BY <1>5, <1>6, <1>7, SumPlus
<1>10. SumFunctionOnSet(g, open) = SumFunctionOnSet(e, open) + SumFunctionOnSet(d, open)
  BY <1>5, <1>8, SumPlus
<1>11. /\ SumFunctionOnSet(f, open) \in Int /\ SumFunctionOnSet(h, open) \in Int
       /\ SumFunctionOnSet(g, open) \in Int /\ SumFunctionOnSet(d, open) \in Nat
  BY <1>5, <1>6, <1>8, SumInt, SumNat
<1>12. ValueAt(was) - ValueAt(is) <= -Change(pos, was, c)
  <2> DEFINE sf == SumFunctionOnSet(f, open)
             sg == SumFunctionOnSet(g, open)
             sh == SumFunctionOnSet(h, open)
             se == SumFunctionOnSet(e, open)
             sd == SumFunctionOnSet(d, open)
  <2>1. /\ ValueAt(was) = sf /\ ValueAt(is) = sg /\ Change(pos, was, c) = sh
        /\ se = sf + sh /\ sg = se + sd
        /\ sf \in Int /\ sh \in Int /\ sg \in Int /\ sd \in Nat
    BY <1>4, <1>9, <1>10, <1>11
  <2> HIDE DEF sf, sg, sh, se, sd, was, is, c
  <2> QED BY <2>1
<1>13. -Change(pos, was, c) <= scenario_margin(pos, was) /\ scenario_margin(pos, was) \in Int
  <2>1. Priced(pos, was)
    BY <1>2 DEF Priced, Open, Missing
  <2> HIDE DEF pos, was, c
  <2> QED BY <1>1, <1>3, <2>1, WorstScenario
<1>14. Margin.f_scenario = scenario_margin(pos, was)
  <2>1. Priced(pos, was)
    BY <1>2 DEF Priced, Open, Missing
  <2> QED BY <2>1 DEF Margin, compute_portfolio_margin
<1>15. ValueAt(was) \in Int /\ ValueAt(is) \in Int /\ Change(pos, was, c) \in Int
  BY <1>4, <1>11
<1>16. ValueAt(was) - ValueAt(is) <= scenario_margin(pos, was)
  <2> DEFINE x == ValueAt(was) - ValueAt(is)
             y == -Change(pos, was, c)
             z == scenario_margin(pos, was)
  <2>1. x \in Int /\ y \in Int /\ x <= y /\ y <= z
    BY <1>12, <1>13, <1>15
  <2>2. z \in Int
    BY <1>13
  <2> HIDE DEF x, y, z
  <2>3. x <= z
    BY <2>1, <2>2
  <2> QED BY <2>3 DEF x, z
<1> QED BY <1>14, <1>16

\* The term of a pair does not change when both legs change their sides: only a
\* leg without exposure could make the direction differ, and then the term is 0.
LEMMA PairTurned ==
  ASSUME NEW rho \in Int, NEW x \in Int, NEW y \in Int
  PROVE  PairTerm(rho, x, y) \in Int /\ PairTerm(rho, -x, -y) = PairTerm(rho, x, y)
<1> DEFINE a == Magnitude(x)
           b == Magnitude(y)
           smaller == Min({a, b})
           n == smaller * Magnitude(rho)
           k == n * BetaBps
           d == RISK_BPS * RISK_BPS
           term == k \div d
           s == Signed(rho, term)
<1>1. /\ a \in Nat /\ b \in Nat /\ Magnitude(-x) = a /\ Magnitude(-y) = b
      /\ (x = 0 => a = 0) /\ (y = 0 => b = 0)
  BY DEF Magnitude
<1>2. smaller \in Nat /\ (a = 0 \/ b = 0 => smaller = 0)
  <2> HIDE DEF a, b
  <2>1. Min({a, b}) \in {a, b} /\ Min({a, b}) <= a /\ Min({a, b}) <= b
    BY <1>1, MinTwo
  <2> QED BY <1>1, <2>1
<1>3. /\ PairTerm(rho, x, y) = (IF SameDirection(x, y) THEN 1 ELSE -1) * s
      /\ PairTerm(rho, -x, -y) = (IF SameDirection(-x, -y) THEN 1 ELSE -1) * s
  BY <1>1 DEF PairTerm
<1> HIDE DEF smaller, a, b
<1>4. n \in Nat /\ (smaller = 0 => n = 0)
  <2>1. Magnitude(rho) \in Nat
    BY DEF Magnitude
  <2> QED BY <1>2, <2>1
<1> HIDE DEF n
<1>5. k \in Nat /\ (n = 0 => k = 0)
  BY <1>4, RiskAssumption
<1>6. d \in Nat \ {0}
  BY RiskAssumption
<1> HIDE DEF k, d
<1>7. term \in Nat /\ (k = 0 => term = 0)
  BY <1>5, <1>6
<1> HIDE DEF term
<1>8. s \in Int /\ (term = 0 => s = 0)
  BY <1>7 DEF Signed
<1>9. x # 0 /\ y # 0 => (SameDirection(-x, -y) <=> SameDirection(x, y))
  BY DEF SameDirection
<1>10. x = 0 \/ y = 0 => s = 0
  BY <1>1, <1>2, <1>4, <1>5, <1>7, <1>8
<1> HIDE DEF s
<1>11. 1 * s = s /\ -1 * s = -s /\ (s = 0 => -s = s)
  BY <1>8
<1> QED BY <1>3, <1>8, <1>9, <1>10, <1>11

\* Turned round, each exposure changes its sign and nothing else.
LEMMA ShortAlike ==
  ASSUME RiskInv
  PROVE  ShortBookChargedAlike
<1> DEFINE pos == riskPosition
           marks == riskMark
<1> SUFFICES ASSUME Margin # Failed
             PROVE  /\ compute_portfolio_margin(Mirrored, marks).f_concentration = Margin.f_concentration
                    /\ compute_portfolio_margin(Mirrored, marks).f_liquidity = Margin.f_liquidity
                    /\ compute_portfolio_margin(Mirrored, marks).f_correlation = Margin.f_correlation
  BY DEF ShortBookChargedAlike
<1>1. pos \in [RiskMarkets -> Int] /\ marks \in [RiskMarkets -> Nat \cup {Missing}] /\ Priced(pos, marks)
  BY DEF RiskInv, Margin, compute_portfolio_margin
<1>2. \A m \in RiskMarkets : pos[m] \in Int /\ Mirrored[m] = -pos[m]
  BY <1>1 DEF Mirrored
<1>3. Open(Mirrored) = Open(pos)
  <2>1. \A m \in RiskMarkets : Mirrored[m] # 0 <=> pos[m] # 0
    BY <1>2
  <2> QED BY <2>1 DEF Open
<1>4. Priced(Mirrored, marks)
  BY <1>1, <1>3 DEF Priced
<1>5. \A m \in RiskMarkets : Magnitude(Mirrored[m]) = Magnitude(pos[m])
  BY <1>2 DEF Magnitude
<1>6. Notionals(Mirrored, marks) = Notionals(pos, marks)
  BY <1>5 DEF Notionals, Gross
<1>7. concentration_charge(Mirrored, marks) = concentration_charge(pos, marks)
  BY <1>3, <1>6 DEF concentration_charge
<1>8. liquidity_charge(Mirrored, marks) = liquidity_charge(pos, marks)
  BY <1>3, <1>6 DEF liquidity_charge
<1>9. correlation_adjustment(Mirrored, marks) = correlation_adjustment(pos, marks)
  <2> DEFINE pairs == {p \in DOMAIN RhoBps : {p[1], p[2]} \subseteq Open(pos)}
             f == [p \in DOMAIN RhoBps |->
                     PairTerm(RhoBps[p], signed_exposure_usd(pos[p[1]], marks[p[1]]),
                              signed_exposure_usd(pos[p[2]], marks[p[2]]))]
             h == [p \in DOMAIN RhoBps |->
                     PairTerm(RhoBps[p], signed_exposure_usd(Mirrored[p[1]], marks[p[1]]),
                              signed_exposure_usd(Mirrored[p[2]], marks[p[2]]))]
  <2>1. /\ correlation_adjustment(pos, marks) = SumFunctionOnSet(f, pairs)
        /\ correlation_adjustment(Mirrored, marks) = SumFunctionOnSet(h, pairs)
    BY <1>3 DEF correlation_adjustment
  <2>2. IsFiniteSet(pairs) /\ pairs \subseteq DOMAIN RhoBps
    <3>1. pairs \subseteq DOMAIN RhoBps
      OBVIOUS
    <3> HIDE DEF pairs
    <3> QED BY <3>1, RiskAssumption, FS_Subset
  <2>3. \A m \in Open(pos) :
          /\ signed_exposure_usd(pos[m], marks[m]) \in Int
          /\ signed_exposure_usd(Mirrored[m], marks[m]) = -signed_exposure_usd(pos[m], marks[m])
    <3> TAKE m \in Open(pos)
    <3>1. m \in RiskMarkets /\ pos[m] \in Int /\ pos[m] # 0 /\ marks[m] \in Nat /\ Mirrored[m] = -pos[m]
      BY <1>1, <1>2 DEF Priced, Open
    <3> HIDE DEF pos, marks
    <3> DEFINE x == pos[m]
               q == marks[m]
               n == Gross(x, q)
    <3>2. x \in Int /\ x # 0 /\ q \in Nat /\ q <= q
      BY <3>1
    <3> HIDE DEF x, q
    <3>3. n \in Nat /\ Gross(-x, q) = n
      BY <3>2, GrossIs
    <3>4. signed_exposure_usd(x, q) = (IF x < 0 THEN -n ELSE n)
      BY DEF signed_exposure_usd, Signed
    <3>5. signed_exposure_usd(-x, q) = (IF -x < 0 THEN -n ELSE n)
      BY <3>3 DEF signed_exposure_usd, Signed
    <3> HIDE DEF n
    <3>6. signed_exposure_usd(x, q) \in Int /\ signed_exposure_usd(-x, q) = -signed_exposure_usd(x, q)
      BY <3>2, <3>3, <3>4, <3>5
    <3> QED BY <3>1, <3>6 DEF x, q
  <2>4. \A p \in pairs : f[p] \in Int /\ h[p] = f[p]
    <3> TAKE p \in pairs
    <3> DEFINE x == signed_exposure_usd(pos[p[1]], marks[p[1]])
               y == signed_exposure_usd(pos[p[2]], marks[p[2]])
               rho == RhoBps[p]
    <3>1. p \in DOMAIN RhoBps /\ p[1] \in Open(pos) /\ p[2] \in Open(pos)
      OBVIOUS
    <3>2. x \in Int /\ y \in Int /\ rho \in Int
      BY <2>3, <3>1, RiskAssumption
    <3>3. /\ f[p] = PairTerm(rho, x, y)
          /\ h[p] = PairTerm(rho, -x, -y)
      BY <2>3, <3>1
    <3> HIDE DEF x, y, rho, f, h
    <3> QED BY <3>2, <3>3, PairTurned
  <2> HIDE DEF pairs, f, h
  <2>5. SumFunctionOnSet(h, pairs) = SumFunctionOnSet(f, pairs)
    BY <2>2, <2>4, SumSame
  <2> QED BY <2>1, <2>5
<1>10. /\ compute_portfolio_margin(Mirrored, marks).f_concentration = concentration_charge(Mirrored, marks)
       /\ compute_portfolio_margin(Mirrored, marks).f_liquidity = liquidity_charge(Mirrored, marks)
       /\ compute_portfolio_margin(Mirrored, marks).f_correlation = correlation_adjustment(Mirrored, marks)
  BY <1>4 DEF compute_portfolio_margin
<1>11. /\ Margin.f_concentration = concentration_charge(pos, marks)
       /\ Margin.f_liquidity = liquidity_charge(pos, marks)
       /\ Margin.f_correlation = correlation_adjustment(pos, marks)
  BY <1>1 DEF compute_portfolio_margin, Margin
<1> QED BY <1>7, <1>8, <1>9, <1>10, <1>11

\* For all markets, sizes, marks, scenarios and charges: the scenario margin pays
\* for every move inside the box whose corners are scenarios, a withdrawal called
\* safe leaves the account healthy, both engines fail on the same states, and the
\* charges do not depend on the direction of the book (scenario_margin,
\* is_withdraw_safe, current_margin_requirement, compute_portfolio_margin).
THEOREM MarginAlwaysCovers == MCSpec => MarginCovers
<1>1. MCInit => RiskInv
  BY RiskBegins DEF MCInit
<1>2. [MCNext]_allVars /\ scenario = "risk" => [RiskNext]_riskVars /\ scenario' = "risk"
  BY DEF MCNext, Only, allVars
<1>3. [MCNext]_allVars /\ (scenario = "risk" => RiskInv) => (scenario = "risk" => RiskInv)'
  <2> SUFFICES ASSUME [MCNext]_allVars, scenario = "risk" => RiskInv, scenario' = "risk" PROVE RiskInv'
    OBVIOUS
  <2>1. scenario' = scenario
    BY DEF MCNext, Only, allVars
  <2> QED BY <1>2, <2>1, RiskStep
<1>4. [MCNext]_allVars /\ (scenario = "risk" => RiskInv)
        => [ scenario = "risk" =>
               /\ CornersCoverTheBox /\ WithdrawStaysHealthy
               /\ MarginErrorsAgree /\ ShortBookChargedAlike ]_riskVars
  BY <1>2, RiskStep, CornersCover, ErrorsAgree, ShortAlike
<1> QED BY <1>1, <1>3, <1>4, PTL DEF MCSpec, MarginCovers
=============================================================================
