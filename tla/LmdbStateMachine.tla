-------------------------- MODULE LmdbStateMachine --------------------------
(***************************************************************************)
(* One replica's state machine: struct LmdbStateMachine (state_machine.rs) *)
(* with the d_engine::StateMachine calls the Raft engine makes on it.      *)
(*                                                                         *)
(* External (d-engine): the committed log, the choice of the next chunk,   *)
(* of the log id a snapshot is taken at and of the snapshot that is        *)
(* installed.  The engine calls apply_chunk, apply_snapshot_from_file,     *)
(* persist_last_applied and reset one at a time, asks for entries from     *)
(* last_applied + 1 on, and installs only snapshots ahead of last_applied. *)
(* generate_snapshot_data runs beside the other calls, but for two: while  *)
(* it is in progress the engine does not call reset, and does not persist  *)
(* a log id below its last_included.  A write transaction of LMDB is       *)
(* atomic, and durable when it commits (sync-on-commit).                   *)
(*                                                                         *)
(* Ghosts: hist[i] is what the log prefix 1..i makes of an empty database; *)
(* an Image carries how far into the log its contents may reach (upto) and *)
(* whether a compare-and-swap was executed on contents that already held   *)
(* its effect (recas).                                                     *)
(***************************************************************************)
EXTENDS Commands

CONSTANTS
    Cmds,           \* commands clients may replicate
    MaxLog,         \* bound: committed entries
    MaxTerm,        \* bound: Raft terms
    MaxLag,         \* bound: entries by which a persisted log id is late
    MaxFaults,      \* bound: crashes, drops, stops, resets, failed calls and panics
    MaxPanics       \* bound: those that are panics of the blocking restore task

ASSUME CmdsAssumption == Cmds \subseteq Command
ASSUME BoundsAssumption ==
    /\ MaxLog \in Nat /\ MaxTerm \in Nat /\ MaxLag \in Nat
    /\ MaxFaults \in Nat /\ MaxPanics \in Nat

VARIABLES
    \* external and ghost
    log,            \* the committed log: a sequence of [term, cmd]
    hist,           \* ghost: hist[i] is the database after entries 1..i
    faults,         \* bound: faults so far
    panics,         \* bound: panics so far
    \* durable: the LMDB environment and the snapshot directory
    kv_db,          \* Image: committed contents of the kv database
    meta,           \* LogId: last_applied_index / last_applied_term in the meta database
    file,           \* last snapshot that generate_snapshot_data returned
    \* volatile
    up,             \* an LmdbStateMachine value exists
    running,        \* AtomicBool running
    stopped,        \* ghost: stop() was called and start() was not since
    last_applied,   \* LogId: the atomics last_applied_index and last_applied_term
    entry_terms,    \* indexes in the term cache (the term is that of the log)
    snapshot_meta,  \* last_included of the Option<SnapshotMetadata>, or NoId
    apply,          \* the apply_chunk in progress
    gen,            \* the generate_snapshot_data in progress
    restore         \* the apply_snapshot_from_file in progress

external == <<log, hist>>
bounds == <<faults, panics>>
durable == <<kv_db, meta, file>>
serving == <<up, running, stopped>>
cache == <<last_applied, entry_terms, snapshot_meta>>
vars == <<log, hist, faults, panics, kv_db, meta, file, up, running, stopped,
          last_applied, entry_terms, snapshot_meta, apply, gen, restore>>

-----------------------------------------------------------------------------
Entry == [term : Nat, cmd : Cmds]

LogId == [index : Nat, term : Nat]
NoId == [index |-> 0, term |-> 0]

(* The log id of a position; position 0 has the id (0, 0) *)
IdOf(i) == IF i = 0 THEN NoId ELSE [index |-> i, term |-> log[i].term]

Image == [kv : Contents, upto : Nat, recas : BOOLEAN]
Blank == [kv |-> Empty, upto |-> 0, recas |-> FALSE]

Snapshot == [id : LogId, image : Image]
NoSnapshot == [id |-> NoId, image |-> Blank]

NoApply == [pc |-> "idle", image |-> Blank, next |-> 0, last |-> 0]
NoGen == [pc |-> "idle", snap |-> NoSnapshot]
NoRestore == [pc |-> "idle", snap |-> NoSnapshot]

TypeOK ==
    /\ log \in Seq(Entry)
    /\ hist \in [0 .. Len(log) -> Contents]
    /\ faults \in Nat /\ panics \in Nat
    /\ kv_db \in Image
    /\ meta \in LogId
    /\ file \in Snapshot
    /\ up \in BOOLEAN /\ running \in BOOLEAN /\ stopped \in BOOLEAN
    /\ last_applied \in LogId
    /\ entry_terms \subseteq 1 .. Len(log)
    /\ snapshot_meta \in LogId
    /\ apply \in [pc : {"idle", "loop", "committed"}, image : Image, next : Nat, last : Nat]
    /\ gen \in [pc : {"idle", "dir", "copied"}, snap : Snapshot]
    /\ restore \in [pc : {"idle", "blocking", "committed"}, snap : Snapshot]

Init ==
    /\ log = <<>>
    /\ hist = [i \in 0 .. 0 |-> Empty]
    /\ faults = 0 /\ panics = 0
    /\ kv_db = Blank /\ meta = NoId /\ file = NoSnapshot
    /\ up = FALSE /\ running = FALSE /\ stopped = FALSE
    /\ last_applied = NoId /\ entry_terms = {} /\ snapshot_meta = NoId
    /\ apply = NoApply /\ gen = NoGen /\ restore = NoRestore

-----------------------------------------------------------------------------
(* The engine may call into the state machine: no other call is in progress *)
Idle == up /\ apply.pc = "idle" /\ restore.pc = "idle"

Fault == faults < MaxFaults /\ faults' = faults + 1 /\ UNCHANGED panics

(* External: the Raft log commits an entry, in the current or a later term *)
Commit(cmd, term) ==
    /\ Len(log) < MaxLog
    /\ Len(log) > 0 => log[Len(log)].term <= term
    /\ log' = Append(log, [term |-> term, cmd |-> cmd])
    /\ hist' = [i \in 0 .. Len(log) + 1 |->
                  IF i <= Len(log) THEN hist[i] ELSE ApplyCommand(cmd, hist[Len(log)])]
    /\ UNCHANGED <<bounds, durable, serving, cache, apply, gen, restore>>

(* Mutant: the snapshot metadata is loaded again *)
NewLoadsSnapshotMeta ==
    /\ ~up
    /\ up' = TRUE /\ running' = TRUE /\ stopped' = FALSE
    /\ last_applied' = meta
    /\ entry_terms' = {} /\ snapshot_meta' = file.id
    /\ UNCHANGED <<external, bounds, durable, apply, gen, restore>>

(* LmdbStateMachine::new: the databases are created when missing, then the *)
(* atomics start from the meta database                                    *)
New ==
    /\ ~up
    /\ up' = TRUE /\ running' = TRUE /\ stopped' = FALSE
    /\ last_applied' = meta
    /\ entry_terms' = {} /\ snapshot_meta' = NoId
    /\ UNCHANGED <<external, bounds, durable, apply, gen, restore>>

(* Mutant: last_applied is persisted before the chunk is *)
ApplyBeginPersistFirst(last) ==
    /\ Idle
    /\ last \in last_applied.index + 1 .. Len(log)
    /\ meta' = IdOf(last)
    /\ apply' = [pc |-> "loop", image |-> kv_db, next |-> last_applied.index + 1, last |-> last]
    /\ UNCHANGED <<external, bounds, kv_db, file, serving, cache, gen, restore>>

(* apply_chunk opens the write transaction *)
ApplyBegin(last) ==
    /\ Idle
    /\ last \in last_applied.index + 1 .. Len(log)
    /\ apply' = [pc |-> "loop", image |-> kv_db, next |-> last_applied.index + 1, last |-> last]
    /\ UNCHANGED <<external, bounds, durable, serving, cache, gen, restore>>

(* The image after the entry at position n; re-executing a CAS is recorded *)
Execute(image, n) ==
    [kv |-> ApplyCommand(log[n].cmd, image.kv),
     upto |-> IF n > image.upto THEN n ELSE image.upto,
     recas |-> image.recas \/ (log[n].cmd.op = "cas" /\ n <= image.upto)]

(* Mutant: the term cache is filled one past the entry *)
ApplyEntryCacheNext ==
    /\ apply.pc = "loop" /\ apply.next <= apply.last
    /\ apply' = [apply EXCEPT !.image = Execute(apply.image, apply.next), !.next = @ + 1]
    /\ entry_terms' = entry_terms \cup {apply.next + 1}
    /\ UNCHANGED <<external, bounds, durable, serving, last_applied, snapshot_meta, gen, restore>>

(* One entry of the chunk, inside the transaction; the term cache is filled at once *)
ApplyEntry ==
    /\ apply.pc = "loop" /\ apply.next <= apply.last
    /\ apply' = [apply EXCEPT !.image = Execute(apply.image, apply.next), !.next = @ + 1]
    /\ entry_terms' = entry_terms \cup {apply.next}
    /\ UNCHANGED <<external, bounds, durable, serving, last_applied, snapshot_meta, gen, restore>>

(* wtxn.commit: the contents are durable, neither atomics nor meta have changed *)
ApplyCommit ==
    /\ apply.pc = "loop" /\ apply.next > apply.last
    /\ kv_db' = apply.image
    /\ apply' = [apply EXCEPT !.pc = "committed"]
    /\ UNCHANGED <<external, bounds, meta, file, serving, cache, gen, restore>>

(* Mutant: the term of last_applied is not stored *)
ApplyPublishIndexOnly ==
    /\ apply.pc = "committed"
    /\ last_applied' = [last_applied EXCEPT !.index = apply.last]
    /\ apply' = NoApply
    /\ UNCHANGED <<external, bounds, durable, serving, entry_terms, snapshot_meta, gen, restore>>

(* Mutant: last_applied is not updated *)
ApplyPublishNothing ==
    /\ apply.pc = "committed"
    /\ apply' = NoApply
    /\ UNCHANGED <<external, bounds, durable, serving, cache, gen, restore>>

(* update_last_applied(highest), then Ok(results) *)
ApplyPublish ==
    /\ apply.pc = "committed"
    /\ last_applied' = IdOf(apply.last)
    /\ apply' = NoApply
    /\ UNCHANGED <<external, bounds, durable, serving, entry_terms, snapshot_meta, gen, restore>>

(* An LMDB error in the loop or the commit: `?` drops, and so aborts, the   *)
(* transaction; the term cache keeps what the loop put there               *)
ApplyError ==
    /\ apply.pc = "loop" /\ Fault
    /\ apply' = NoApply
    /\ UNCHANGED <<external, durable, serving, cache, gen, restore>>

(* External: the engine persists what last_applied() is, or was before up   *)
(* to MaxLag entries were applied                                           *)
MayPersist(i) ==
    /\ i \in 0 .. last_applied.index /\ last_applied.index - i <= MaxLag
    /\ gen.pc # "idle" => gen.snap.id.index <= i

(* Mutant: the argument is not stored in the atomics *)
PersistOnDiskOnly(i) ==
    /\ Idle /\ MayPersist(i)
    /\ meta' = IdOf(i)
    /\ UNCHANGED <<external, bounds, kv_db, file, serving, cache, apply, gen, restore>>

(* persist_last_applied: the argument goes to the meta database and from   *)
(* there into the atomics, whatever was published since it was read        *)
PersistLastApplied(i) ==
    /\ Idle /\ MayPersist(i)
    /\ meta' = IdOf(i)
    /\ last_applied' = IdOf(i)
    /\ UNCHANGED <<external, bounds, kv_db, file, serving, entry_terms, snapshot_meta, apply, gen, restore>>

-----------------------------------------------------------------------------
(* generate_snapshot_data(dir, last_included): the id is fixed before the   *)
(* awaits; the directory is created first                                   *)
GenBegin(i) ==
    /\ up /\ gen.pc = "idle"
    /\ i \in 1 .. last_applied.index
    /\ gen' = [pc |-> "dir", snap |-> [id |-> IdOf(i), image |-> Blank]]
    /\ UNCHANGED <<external, bounds, durable, serving, cache, apply, restore>>

(* env.copy_to_file on the blocking pool: whatever is committed by now *)
GenCopy ==
    /\ gen.pc = "dir"
    /\ gen' = [gen EXCEPT !.pc = "copied", !.snap.image = kv_db]
    /\ UNCHANGED <<external, bounds, durable, serving, cache, apply, restore>>

(* Mutant: the snapshot goes by last_applied at its end *)
GenFinishLateId ==
    /\ gen.pc = "copied"
    /\ file' = [gen.snap EXCEPT !.id = last_applied]
    /\ snapshot_meta' = last_applied
    /\ gen' = NoGen
    /\ UNCHANGED <<external, bounds, kv_db, meta, serving, last_applied, entry_terms, apply, restore>>

(* persist_last_snapshot_metadata (memory only), then Ok(checksum) *)
GenFinish ==
    /\ gen.pc = "copied"
    /\ file' = gen.snap
    /\ snapshot_meta' = gen.snap.id
    /\ gen' = NoGen
    /\ UNCHANGED <<external, bounds, kv_db, meta, serving, last_applied, entry_terms, apply, restore>>

(* The directory or the copy fails *)
GenError ==
    /\ gen.pc = "dir" /\ Fault
    /\ gen' = NoGen
    /\ UNCHANGED <<external, durable, serving, cache, apply, restore>>

-----------------------------------------------------------------------------
(* External: the snapshots a leader can send.  It was taken at an id i by a *)
(* replica whose contents reached m >= i when the copy was made; or it is   *)
(* one that this code made of whatever state it was in (file).              *)
SnapshotAt(i, m) ==
    [id |-> IdOf(i), image |-> [kv |-> hist[m], upto |-> m, recas |-> FALSE]]

PeerSnapshots ==
    {file} \cup UNION {{SnapshotAt(i, m) : m \in i .. Len(log)} : i \in 1 .. Len(log)}

(* apply_snapshot_from_file: stop serving, hand over to the blocking pool *)
RestoreBegin(snap) ==
    /\ Idle
    /\ snap.id.index > last_applied.index
    /\ running' = FALSE
    /\ restore' = [pc |-> "blocking", snap |-> snap]
    /\ UNCHANGED <<external, bounds, durable, up, stopped, cache, apply, gen>>

(* Mutant: the kv database is not cleared before the copy *)
RestoreCommitNoClear ==
    /\ restore.pc = "blocking"
    /\ kv_db' = [restore.snap.image EXCEPT !.kv =
                   [k \in Keys |-> IF @[k] = Absent THEN kv_db.kv[k] ELSE @[k]]]
    /\ meta' = restore.snap.id
    /\ restore' = [restore EXCEPT !.pc = "committed"]
    /\ UNCHANGED <<external, bounds, file, serving, cache, apply, gen>>

(* restore_blocking: clear kv, copy the snapshot, put meta, in one transaction *)
RestoreCommit ==
    /\ restore.pc = "blocking"
    /\ kv_db' = restore.snap.image
    /\ meta' = restore.snap.id
    /\ restore' = [restore EXCEPT !.pc = "committed"]
    /\ UNCHANGED <<external, bounds, file, serving, cache, apply, gen>>

(* After the await: atomics, snapshot metadata, term cache, resume *)
RestoreFinish ==
    /\ restore.pc = "committed"
    /\ last_applied' = restore.snap.id
    /\ snapshot_meta' = restore.snap.id
    /\ entry_terms' = {}
    /\ running' = TRUE
    /\ restore' = NoRestore
    /\ UNCHANGED <<external, bounds, durable, up, stopped, apply, gen>>

(* Mutant: running is set only when the restore worked *)
RestoreErrorStaysStopped ==
    /\ restore.pc = "blocking" /\ Fault
    /\ restore' = NoRestore
    /\ UNCHANGED <<external, durable, serving, cache, apply, gen>>

(* restore_blocking returns an error (its transaction is aborted): resume *)
RestoreError ==
    /\ restore.pc = "blocking" /\ Fault
    /\ running' = TRUE
    /\ restore' = NoRestore
    /\ UNCHANGED <<external, durable, up, stopped, cache, apply, gen>>

(* The blocking task panics: its transaction is aborted and the JoinError   *)
(* leaves apply_snapshot_from_file at `.await.map_err(..)?`                 *)
RestorePanic ==
    /\ restore.pc = "blocking"
    /\ panics < MaxPanics /\ panics' = panics + 1
    /\ faults < MaxFaults /\ faults' = faults + 1
    /\ restore' = NoRestore
    /\ UNCHANGED <<external, durable, serving, cache, apply, gen>>

-----------------------------------------------------------------------------
(* start() and stop() only move the flag *)
Start ==
    /\ Idle /\ ~running
    /\ running' = TRUE /\ stopped' = FALSE
    /\ UNCHANGED <<external, bounds, durable, up, cache, apply, gen, restore>>

Stop ==
    /\ Idle /\ Fault
    /\ running' = FALSE /\ stopped' = TRUE
    /\ UNCHANGED <<external, durable, up, cache, apply, gen, restore>>

(* Mutant: the meta database is not cleared *)
ResetKeepsMeta ==
    /\ Idle /\ gen.pc = "idle" /\ Fault
    /\ kv_db' = Blank
    /\ last_applied' = NoId /\ snapshot_meta' = NoId /\ entry_terms' = {}
    /\ UNCHANGED <<external, meta, file, serving, apply, gen, restore>>

(* reset(): the engine calls it on a machine that does nothing else *)
Reset ==
    /\ Idle /\ gen.pc = "idle" /\ Fault
    /\ kv_db' = Blank /\ meta' = NoId
    /\ last_applied' = NoId /\ snapshot_meta' = NoId /\ entry_terms' = {}
    /\ UNCHANGED <<external, file, serving, apply, gen, restore>>

(* The value is gone: what is volatile is lost *)
Gone ==
    /\ up' = FALSE /\ running' = FALSE /\ stopped' = FALSE
    /\ last_applied' = NoId /\ entry_terms' = {} /\ snapshot_meta' = NoId
    /\ apply' = NoApply /\ gen' = NoGen /\ restore' = NoRestore

(* Drop: persist_last_applied(last_applied()); an error is only logged *)
Drop ==
    /\ Idle /\ gen.pc = "idle" /\ Fault
    /\ meta' \in {last_applied, meta}
    /\ Gone
    /\ UNCHANGED <<external, kv_db, file>>

(* The process dies at any point; an open write transaction is aborted *)
Crash ==
    /\ up /\ Fault
    /\ Gone
    /\ UNCHANGED <<external, durable>>

-----------------------------------------------------------------------------
Apply == \/ \E last \in 1 .. MaxLog : ApplyBegin(last)
         \/ ApplyEntry \/ ApplyCommit \/ ApplyPublish

Generate == GenCopy \/ GenFinish

Restore == RestoreCommit \/ RestoreFinish

Next ==
    \/ \E cmd \in Cmds, term \in 1 .. MaxTerm : Commit(cmd, term)
    \/ New
    \/ Apply \/ ApplyError
    \/ \E i \in 0 .. MaxLog : PersistLastApplied(i)
    \/ \E i \in 1 .. MaxLog : GenBegin(i)
    \/ Generate \/ GenError
    \/ \E snap \in PeerSnapshots : RestoreBegin(snap)
    \/ Restore \/ RestoreError \/ RestorePanic
    \/ Start \/ Stop \/ Reset \/ Drop \/ Crash

Spec == Init /\ [][Next]_vars

(* The engine's apply worker and the blocking pool keep working while the  *)
(* node is up, the node is restarted when it is down, and log ids are not  *)
(* persisted late for ever.                                                *)
Fairness ==
    /\ WF_vars(New) /\ WF_vars(Apply) /\ WF_vars(Restore)
    /\ <>[][\A i \in 0 .. MaxLog : PersistLastApplied(i) => i = last_applied.index]_vars

LiveSpec == Spec /\ Fairness

-----------------------------------------------------------------------------
(* Properties *)

(* Replaying the log after position j makes up for everything in the image *)
(* that is not the state at j: a key either has its value at j or is       *)
(* written again by an entry the image may already contain.                *)
Replayable(image, j) ==
    /\ j <= image.upto
    /\ image.recas \/ \A k \in Keys :
          \/ image.kv[k] = hist[j][k]
          \/ \E i \in j + 1 .. image.upto : k \in Writes(log[i].cmd)

(* Crash recovery: what apply_chunk and restore_blocking commit may run    *)
(* ahead of the persisted last_applied, but at every instant, whatever was *)
(* interrupted, replaying from there repairs the kv database.  A key that  *)
(* only a compare-and-swap writes again counts as repaired: replaying that *)
(* entry sets recas, after which nothing is claimed (ReplicaConsistent).   *)
RecoverySound == Replayable(kv_db, meta.index)

(* A snapshot file contains later entries than its last_included says      *)
(* (copy_to_file runs after the id was chosen); it can still be installed  *)
(* and replayed from last_included on.                                     *)
SnapshotSound == Replayable(file.image, file.id.index)

(* A replica that is not in the middle of a call, and has caught up with   *)
(* what its store contains, holds exactly the state of the log prefix it   *)
(* reports, through any sequence of crashes, failed chunks and snapshots,  *)
(* as long as it has not executed a compare-and-swap twice.                *)
Converged ==
    Idle /\ last_applied.index = kv_db.upto /\ ~kv_db.recas
        => kv_db.kv = hist[last_applied.index]

(* The same for every log: "writes go through Raft and become replicated   *)
(* and strongly consistent" (lib.rs).                                      *)
ReplicaConsistent ==
    Idle /\ last_applied.index = kv_db.upto => kv_db.kv = hist[last_applied.index]

IsLogId(id) == id.index <= Len(log) /\ id = IdOf(id.index)

(* Every log id the code stores, in memory or on disk, is the id of an     *)
(* entry of the log (index and term are written separately everywhere).    *)
IdsAreLogIds == \A id \in {meta, last_applied, snapshot_meta, file.id} : IsLogId(id)

(* While the machine is up, the meta database is never ahead of what it    *)
(* reports as applied, except between the commit of a restore and its      *)
(* publication.                                                            *)
MetaBehind ==
    up => meta.index <= last_applied.index \/ restore.pc = "committed"

(* The applied position never goes back in memory alone or on disk alone:  *)
(* it goes back to the position that is then in both, by a reset, with     *)
(* nothing left in the store, or by persist_last_applied with a late log   *)
(* id, with all left in the store that replay has to start from; never by  *)
(* a chunk, a restore, Drop or a restart.                                  *)
BackOnlyTogether ==
    [][\/ up /\ up' /\ last_applied'.index < last_applied.index
       \/ meta'.index < meta.index
       => /\ last_applied' = meta'
          /\ kv_db' = kv_db \/ (meta' = NoId /\ kv_db' = Blank)]_vars

(* "Always resume serving: on failure the leader will re-send the          *)
(* snapshot": a machine that nobody stopped serves unless a restore is in  *)
(* progress (apply_snapshot_from_file).                                    *)
ResumesServing == up /\ ~stopped /\ restore.pc = "idle" => running

(* The same as far as it is true: whatever calls failed and however often   *)
(* the machine was stopped, started, reset and restarted, as long as no     *)
(* blocking restore task panicked.                                          *)
ServesUnlessPanic == panics = 0 => ResumesServing

(* Every committed entry is eventually applied for good, and the store is  *)
(* then the state of the whole log, unless a compare-and-swap was executed *)
(* twice.                                                                  *)
EventuallyApplied ==
    <>[](last_applied.index = Len(log) /\ (kv_db.recas \/ kv_db.kv = hist[Len(log)]))
-----------------------------------------------------------------------------
(* The inductive invariant *)

(* hist is what the log makes of an empty database; a stretch of the log   *)
(* that does not write a key does not change it.                           *)
HistoryOK ==
    /\ hist[0] = Empty
    /\ \A i \in 1 .. Len(log) : hist[i] = ApplyCommand(log[i].cmd, hist[i - 1])
    /\ \A a, b \in 0 .. Len(log) : \A k \in Keys :
          a <= b /\ (\A i \in a + 1 .. b : k \notin Writes(log[i].cmd))
              => hist[a][k] = hist[b][k]

(* An image the log accounts for, and that can be replayed from j *)
Good(image, j) == image.upto <= Len(log) /\ Replayable(image, j)

StoreOK ==
    /\ Good(kv_db, meta.index)
    /\ Good(file.image, file.id.index)
    /\ up => Good(kv_db, last_applied.index)

ApplyOK ==
    /\ apply.pc # "idle" => up /\ restore.pc = "idle" /\ apply.last \in 1 .. Len(log)
    /\ apply.pc = "loop" =>
          /\ apply.next \in last_applied.index + 1 .. apply.last + 1
          /\ Good(apply.image, apply.next - 1)
    /\ apply.pc = "committed" =>
          /\ last_applied.index <= apply.last
          /\ Good(kv_db, apply.last)

GenOK ==
    /\ gen.pc = "dir" => up /\ gen.snap.id.index <= last_applied.index
    /\ gen.pc = "copied" => up /\ Good(gen.snap.image, gen.snap.id.index)

RestoreOK ==
    /\ restore.pc # "idle" =>
          /\ up
          /\ last_applied.index < restore.snap.id.index
          /\ Good(restore.snap.image, restore.snap.id.index)
    /\ restore.pc = "committed" => kv_db = restore.snap.image /\ meta = restore.snap.id

IdsOK ==
    \A id \in {meta, last_applied, snapshot_meta, file.id, gen.snap.id, restore.snap.id} :
        IsLogId(id)

(* Everything the code holds, committed or in flight, can be replayed from *)
(* the log id it goes by: the kv database from meta and from last_applied, *)
(* the open transaction from its own position, and every snapshot (being   *)
(* written, finished, being installed) from its last_included.             *)
IInv == TypeOK /\ HistoryOK /\ StoreOK /\ ApplyOK /\ GenOK /\ RestoreOK /\ MetaBehind /\ IdsOK

=============================================================================
