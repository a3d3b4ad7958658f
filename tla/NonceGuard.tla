----------------------------- MODULE NonceGuard -----------------------------
(***************************************************************************)
(* Replay protection across restarts (crates/cerdic-tee-matcher/src:       *)
(* api.rs, main.rs, persistence.rs).  A signed request passes only above   *)
(* the highest nonce its signer has used.  The table lives in memory; the  *)
(* periodic persist_loop and the last flush of a clean shutdown each take  *)
(* a snapshot of it and write that to disk later, in one transaction, so   *)
(* either can be overtaken between the two.                                *)
(***************************************************************************)
EXTENDS Integers

CONSTANTS
  Signers,
  Nonces,
  MaxSaves,      \* bound: ticks of persist_loop
  MaxShutdowns,  \* bound: clean shutdowns
  MaxCrashes     \* bound: crashes

ASSUME NonceAssumption ==
  Nonces \subseteq Nat \ {0} /\ {MaxSaves, MaxShutdowns, MaxCrashes} \subseteq Nat

Table == [Signers -> Nonces \cup {0}]   \* 0: the signer has no entry
NoTable == <<>>

VARIABLES
  phase,       \* "serving", "flushing" once the requests have drained, or "stopped"
  last_nonce,  \* the table in memory
  disk,        \* the table on disk
  snap,        \* persist_loop's snapshot, not yet written
  final,       \* the shutdown's snapshot, not yet written
  used,        \* history: the nonces that passed since the process started
  flushed,     \* history: the shutdown's save went through
  again,       \* history: the nonces that passed twice in one life
  saves, shutdowns, crashes

vars == <<phase, last_nonce, disk, snap, final, used, again, flushed, saves, shutdowns, crashes>>
bounds == <<saves, shutdowns, crashes>>

Init ==
  /\ phase = "serving"
  /\ last_nonce = [s \in Signers |-> 0] /\ disk = last_nonce
  /\ snap = NoTable /\ final = NoTable
  /\ used = {} /\ again = {} /\ flushed = FALSE
  /\ saves = 0 /\ shutdowns = 0 /\ crashes = 0

-----------------------------------------------------------------------------

\* Faulty variant: the signer's last nonce passes again.
FreshInclusive(s, n) == n >= last_nonce[s]

Fresh(s, n) == n > last_nonce[s]

\* Any of the signed handlers, under the table's mutex.
Pass(s, n) ==
  /\ phase = "serving" /\ Fresh(s, n)
  /\ last_nonce' = [last_nonce EXCEPT ![s] = n]
  /\ used' = used \cup {<<s, n>>} /\ again' = again \cup (used \cap {<<s, n>>})
  /\ UNCHANGED <<phase, disk, snap, final, flushed, bounds>>

\* persist_loop: a tick, which goes on while the server shuts down.
Snapshot ==
  /\ snap = NoTable /\ phase # "stopped"
  /\ saves < MaxSaves /\ saves' = saves + 1
  /\ snap' = last_nonce
  /\ UNCHANGED <<phase, last_nonce, disk, final, used, again, flushed, shutdowns, crashes>>

\* persistence::save of that snapshot; a failed save is only logged.
Write ==
  /\ snap # NoTable
  /\ disk' \in {snap, disk} /\ snap' = NoTable
  /\ UNCHANGED <<phase, last_nonce, final, used, again, flushed, bounds>>

\* shutdown_signal: axum::serve returns when the requests have drained, and the
\* last snapshot is taken.
Shutdown ==
  /\ phase = "serving"
  /\ shutdowns < MaxShutdowns /\ shutdowns' = shutdowns + 1
  /\ phase' = "flushing" /\ final' = last_nonce
  /\ UNCHANGED <<last_nonce, disk, snap, used, again, flushed, saves, crashes>>

\* The last save, and the end of main.
Flush ==
  /\ phase = "flushing"
  /\ \/ disk' = final /\ flushed' = TRUE
     \/ disk' = disk /\ flushed' = FALSE
  /\ phase' = "stopped" /\ final' = NoTable
  /\ UNCHANGED <<last_nonce, snap, used, again, bounds>>

\* Faulty variant: the process starts with an empty table.
LoadedEmpty == [s \in Signers |-> 0]

\* persistence::load and apply_persisted_state.
Loaded == disk

Boot ==
  /\ phase' = "serving"
  /\ last_nonce' = Loaded
  /\ snap' = NoTable /\ final' = NoTable
  /\ used' = {} /\ flushed' = FALSE
  /\ UNCHANGED <<disk, again>>

\* The process starts again once it has ended; a worker thread in the middle of
\* a save finishes it first.
Restart ==
  /\ phase = "stopped" /\ snap = NoTable
  /\ Boot
  /\ UNCHANGED bounds

\* The process dies at any moment and starts again; no write is half done.
Crash ==
  /\ crashes < MaxCrashes /\ crashes' = crashes + 1
  /\ Boot
  /\ UNCHANGED <<saves, shutdowns>>

Next ==
  \/ \E s \in Signers, n \in Nonces : Pass(s, n)
  \/ Snapshot
  \/ Write
  \/ Shutdown
  \/ Flush
  \/ Restart
  \/ Crash

Spec == Init /\ [][Next]_vars

-----------------------------------------------------------------------------
(* Properties.                                                             *)

TypeOK ==
  /\ phase \in {"serving", "flushing", "stopped"}
  /\ last_nonce \in Table /\ disk \in Table
  /\ snap \in Table \cup {NoTable} /\ final \in Table \cup {NoTable}
  /\ used \subseteq Signers \X Nonces
  /\ again \subseteq Signers \X Nonces /\ flushed \in BOOLEAN
  /\ saves \in Nat /\ shutdowns \in Nat /\ crashes \in Nat

\* However snapshots, writes, shutdowns and crashes interleave, a nonce that is
\* on disk when a request is checked does not pass: the floor in memory never
\* lies below the floor on disk.
FloorCoversDisk == \A s \in Signers : last_nonce[s] >= disk[s]

\* In one life of the process no nonce passes twice, whichever handler it comes
\* to and whatever persist_loop and the shutdown do in between.
OncePerLife == again = {}

\* The floor covers all that have passed since the process started.
FloorCoversUsed == \A u \in used : u[2] <= last_nonce[u[1]]

\* Crashes, failed saves and saves that overlap never write an older table over
\* a newer one, so what a crash loses was used after the last save.  The one
\* exception is a save of persist_loop that ends after the flush of a clean
\* shutdown went through: nothing makes the flush wait for it, and its snapshot
\* may be older.
DiskNeverGoesBack == [][flushed \/ \A s \in Signers : disk'[s] >= disk[s]]_vars
=============================================================================
