-------------------------------- MODULE Node --------------------------------
(***************************************************************************)
(* One node: the data directory (DataDir), the state machine               *)
(* (LmdbStateMachine) and the Raft log store (LmdbWal) as DLmdb::open puts *)
(* them together, through handles that are opened, closed, dropped and     *)
(* killed, one after the other.                                            *)
(*                                                                         *)
(* External (d-engine): only entries in its log are applied; the log is    *)
(* purged up to the snapshot the state machine reports, never further; a   *)
(* snapshot is installed only beyond what was purged, and no log id before *)
(* the reported snapshot is persisted.  The log holds committed entries    *)
(* here: what is truncated was never applied (LmdbWal).                    *)
(*                                                                         *)
(* What two engines at work on the same directory do to it is not          *)
(* modelled: once that has happened (overlap), only the handles move.      *)
(***************************************************************************)
EXTENDS DataDir, Sequences, Naturals

CONSTANTS
    Workload,       \* the commands the cluster commits, in order
    Keys, Values, Absent, Cmds, MaxLog, MaxTerm, MaxLag, MaxFaults, MaxPanics,  \* LmdbStateMachine
    Writers, MaxIndex, MaxCrashes                                               \* LmdbWal

VARIABLES
    log, hist, faults, panics, kv_db, meta, file, running, stopped,
    last_applied, entry_terms, snapshot_meta, apply, gen, restore,
    log_db, purge_boundary, hard_state, last_index, writing, cutting, mem, acked, crashes,
    overlap         \* ghost: a handle opened the log while another's tasks had it open

store == <<log, hist, faults, panics, kv_db, meta, file, running, stopped,
           last_applied, entry_terms, snapshot_meta, apply, gen, restore>>
wal == <<log_db, purge_boundary, hard_state, last_index, writing, cutting, mem, acked, crashes>>
vars == <<dir, store, wal, overlap>>

LogOpen == \E h \in Handles : "raft" \in parts[h]
StoreOpen == \E h \in Handles : "lmdb" \in parts[h]
EngineRuns == ~overlap /\ \E h \in Handles : "engine" \in parts[h]

(* The state machine and the log store, together with what is proved about them *)
SM == INSTANCE LmdbStateMachine_proofs WITH up <- StoreOpen

Wal == INSTANCE LmdbWal_proofs WITH up <- LogOpen

ASSUME NodeAssumption ==
    /\ SM!AbsentAssumption /\ SM!CmdsAssumption /\ SM!BoundsAssumption /\ Wal!WalAssumption
    /\ Workload \in Seq(Cmds)

TypeOK == DirTypeOK /\ SM!TypeOK /\ Wal!TypeOK /\ overlap \in BOOLEAN

Init == DirInit /\ SM!Init /\ Wal!Init /\ overlap = FALSE

-----------------------------------------------------------------------------
(* Handles *)

HandleOnly(h) ==
    /\ \/ Acquire(h) \/ StartEngine(h) \/ OpenFails(h) \/ Close(h) \/ Drop(h) \/ Unlock(h)
    /\ UNCHANGED <<store, wal, overlap>>

NewLog(h) ==
    /\ OpenLog(h)
    /\ IF overlap \/ LogOpen THEN overlap' = TRUE /\ UNCHANGED wal
       ELSE Wal!New /\ UNCHANGED overlap
    /\ UNCHANGED store

NewStore(h) ==
    /\ OpenStore(h)
    /\ IF overlap THEN UNCHANGED store ELSE SM!New
    /\ UNCHANGED <<wal, overlap>>

(* The engine's calls have all returned *)
Returned == overlap \/ (SM!Idle /\ gen.pc = "idle")

StopEngine(h) ==
    /\ Stopped(h) /\ Returned
    /\ UNCHANGED <<store, wal, overlap>>

(* What goes with the last reference: Drop of LmdbStateMachine persists      *)
(* last_applied once more, the log store is just closed                      *)
LetGo(h) ==
    /\ IF ~overlap /\ "lmdb" \in parts[h] \ parts'[h] THEN SM!Drop ELSE UNCHANGED store
    /\ IF ~overlap /\ "raft" \in parts[h] \ parts'[h] THEN Wal!Crash ELSE UNCHANGED wal
    /\ UNCHANGED overlap

DropFields(h) == DropParts(h) /\ LetGo(h)

EndTasks(h) == TasksEnd(h) /\ Returned /\ LetGo(h)

Kill(h) ==
    /\ Exit(h)
    /\ IF ~overlap /\ "lmdb" \in parts[h] THEN SM!Crash ELSE UNCHANGED store
    /\ IF ~overlap /\ "raft" \in parts[h] THEN Wal!Crash ELSE UNCHANGED wal
    /\ UNCHANGED overlap

Lifecycle(h) ==
    \/ HandleOnly(h) \/ NewLog(h) \/ NewStore(h) \/ StopEngine(h)
    \/ DropFields(h) \/ EndTasks(h) \/ Kill(h)

-----------------------------------------------------------------------------
(* The engine at work *)

(* The cluster commits the next entry of the workload *)
Commit(term) ==
    /\ UNCHANGED <<dir, wal, overlap>> /\ ~overlap
    /\ Len(log) < Len(Workload)
    /\ SM!Commit(Workload[Len(log) + 1], term)

(* Committed entries of one term reach this node's log *)
Receive(w, n, term) ==
    /\ UNCHANGED <<dir, store, overlap>> /\ EngineRuns
    /\ Wal!Tail + n <= Len(log)
    /\ \A i \in Wal!Tail + 1 .. Wal!Tail + n : log[i].term = term
    /\ Wal!Enqueue(w, n, term)

Flush(w) ==
    /\ UNCHANGED <<dir, store, overlap>> /\ EngineRuns
    /\ Wal!PersistCommit(w) \/ Wal!PersistReturn(w)

(* The log before the last snapshot is purged *)
Purge(cutoff) ==
    /\ UNCHANGED <<dir, store, overlap>> /\ EngineRuns
    /\ cutoff <= snapshot_meta.index
    /\ Wal!Purge(cutoff)

(* A chunk of entries that are in the log *)
ApplyChunk(last) ==
    /\ UNCHANGED <<dir, wal, overlap>> /\ EngineRuns
    /\ last_applied.index + 1 .. last \subseteq DOMAIN mem
    /\ SM!ApplyBegin(last)

TakeSnapshot(i) ==
    /\ UNCHANGED <<dir, wal, overlap>> /\ EngineRuns
    /\ SM!GenBegin(i)

InstallSnapshot(snap) ==
    /\ UNCHANGED <<dir, wal, overlap>> /\ EngineRuns
    /\ snap.id.index > purge_boundary
    /\ SM!RestoreBegin(snap)

(* last_applied is persisted, possibly an older one than it is by now *)
Persist(i) ==
    /\ UNCHANGED <<dir, wal, overlap>> /\ EngineRuns
    /\ snapshot_meta.index <= i
    /\ SM!PersistLastApplied(i)

(* The calls in progress go on, whatever has become of the handle *)
Proceed ==
    /\ UNCHANGED <<dir, wal, overlap>> /\ EngineRuns
    /\ \/ SM!ApplyEntry \/ SM!ApplyCommit \/ SM!ApplyPublish
       \/ SM!GenCopy \/ SM!GenFinish
       \/ SM!RestoreCommit \/ SM!RestoreFinish

Next ==
    \/ \E h \in Handles : Lifecycle(h)
    \/ \E term \in 1 .. MaxTerm : Commit(term)
    \/ \E w \in Writers, n \in 1 .. 2, term \in 1 .. MaxTerm : Receive(w, n, term)
    \/ \E w \in Writers : Flush(w)
    \/ \E cutoff \in 1 .. MaxIndex : Purge(cutoff)
    \/ \E last \in 1 .. MaxLog : ApplyChunk(last)
    \/ \E i \in 0 .. MaxLog : Persist(i)
    \/ \E i \in 1 .. MaxLog : TakeSnapshot(i)
    \/ \E snap \in SM!PeerSnapshots : InstallSnapshot(snap)
    \/ Proceed

Spec == Init /\ [][Next]_vars

-----------------------------------------------------------------------------
(* Properties *)

(* What was purged from the log is never missing from the store: at every   *)
(* instant, through kills and restarts, replaying the log from its first    *)
(* entry (or from the persisted last_applied, when that is later) repairs   *)
(* the kv database, although the purge goes by a snapshot that is known in  *)
(* memory only (snapshot_metadata) and by a last_applied that may never     *)
(* have been persisted.                                                     *)
PurgeCovered == SM!Replayable(kv_db, Wal!Larger(meta.index, purge_boundary))

(* The meta database changes only in the hands of the handle that has the   *)
(* lock, its last update in Drop for LmdbStateMachine included; unless      *)
(* tasks were left running.                                                 *)
PersistedUnderLock ==
    [][meta' # meta => dropped # {} \/ \E h \in Handles : lock = h /\ "lmdb" \in parts[h]]_vars
-----------------------------------------------------------------------------
(* The inductive invariant *)

(* The purge is behind everything that may become the kv database: what is  *)
(* applied, the chunk in progress, the snapshot that is being installed     *)
PurgeBehind ==
    /\ SM!Good(kv_db, purge_boundary)
    /\ StoreOpen => snapshot_meta.index <= last_applied.index
    /\ gen.pc # "idle" => gen.snap.id.index <= last_applied.index
    /\ apply.pc # "idle" => purge_boundary <= last_applied.index
    /\ restore.pc # "idle" => purge_boundary <= restore.snap.id.index

(* The handles, the state machine and the log store keep their invariants,  *)
(* until two engines are at work at once; the purge and the store agree.    *)
NodeInv ==
    /\ TypeOK /\ DirInv /\ PurgeCovered
    /\ ~overlap => SM!IInv /\ Wal!WalInv /\ PurgeBehind
=============================================================================
