---------------------------- MODULE Node_proofs ----------------------------
(***************************************************************************)
(* Proofs about Node: its handles are those of DataDir, and the meta       *)
(* database of the state machine changes under the lock only.              *)
(***************************************************************************)
EXTENDS Node, DataDir_proofs

(* A step of the node is one of its directory, or leaves it alone *)
LEMMA DirStep == [Next]_vars => [DirNext]_dir
<1> SUFFICES ASSUME [Next]_vars PROVE [DirNext]_dir
    OBVIOUS
<1>1. ASSUME NEW h \in Handles, Lifecycle(h) PROVE DirNext
    BY <1>1 DEF Lifecycle, HandleOnly, NewLog, NewStore, StopEngine, DropFields, EndTasks, Kill,
                DirNext
<1>2. ASSUME NEW term \in 1 .. MaxTerm, Commit(term) PROVE UNCHANGED dir
    BY <1>2 DEF Commit
<1>3. ASSUME NEW w \in Writers, NEW n \in 1 .. 2, NEW term \in 1 .. MaxTerm, Receive(w, n, term)
      PROVE  UNCHANGED dir
    BY <1>3 DEF Receive
<1>4. ASSUME NEW w \in Writers, Flush(w) PROVE UNCHANGED dir
    BY <1>4 DEF Flush
<1>5. ASSUME NEW cutoff \in 1 .. MaxIndex, Purge(cutoff) PROVE UNCHANGED dir
    BY <1>5 DEF Purge
<1>6. ASSUME NEW last \in 1 .. MaxLog, ApplyChunk(last) PROVE UNCHANGED dir
    BY <1>6 DEF ApplyChunk
<1>7. ASSUME NEW i \in 1 .. MaxLog, TakeSnapshot(i) PROVE UNCHANGED dir
    BY <1>7 DEF TakeSnapshot
<1>8. ASSUME NEW snap \in SM!PeerSnapshots, InstallSnapshot(snap) PROVE UNCHANGED dir
    BY <1>8 DEF InstallSnapshot
<1>9. ASSUME Proceed PROVE UNCHANGED dir
    BY <1>9 DEF Proceed
<1>10. ASSUME NEW i \in 0 .. MaxLog, Persist(i) PROVE UNCHANGED dir
    BY <1>10 DEF Persist
<1>11. ASSUME UNCHANGED vars PROVE UNCHANGED dir
    BY <1>11 DEF vars
<1> QED
    BY <1>1, <1>2, <1>3, <1>4, <1>5, <1>6, <1>7, <1>8, <1>9, <1>10, <1>11 DEF Next

(* Someone has the lock and the store open, or tasks were left running *)
Held == dropped # {} \/ \E h \in Handles : lock = h /\ "lmdb" \in parts[h]

(* An engine's tasks run for a handle that has the lock, or was dropped *)
LEMMA EngineHeld == DirInv /\ EngineRuns => Held
BY DEF DirInv, EngineRuns, Held, Parts

LEMMA MetaStep == DirInv /\ [Next]_vars => (meta' # meta => Held)
<1> SUFFICES ASSUME DirInv, [Next]_vars, meta' # meta PROVE Held
    OBVIOUS
<1>1. ASSUME NEW h \in Handles, Lifecycle(h) PROVE Held
  <2>1. ~HandleOnly(h) /\ ~NewLog(h) /\ ~StopEngine(h)
    BY DEF HandleOnly, NewLog, StopEngine, store
  <2>2. ~NewStore(h)
    BY DEF NewStore, store, SM!New, SM!durable
  <2>3. ~Kill(h)
    BY DEF Kill, store, SM!Crash, SM!durable
  <2>4. ASSUME LetGo(h) PROVE "lmdb" \in parts[h]
    BY <2>4 DEF LetGo, store
  <2>5. CASE DropFields(h)
    BY <2>4, <2>5 DEF DropFields, DropParts, DirInv, Held
  <2>6. CASE EndTasks(h)
    BY <2>6 DEF EndTasks, TasksEnd, Held
  <2> QED
    BY <1>1, <2>1, <2>2, <2>3, <2>5, <2>6 DEF Lifecycle
<1>2. ASSUME NEW term \in 1 .. MaxTerm PROVE ~Commit(term)
    BY DEF Commit, SM!Commit, SM!durable
<1>3. ASSUME NEW w \in Writers, NEW n \in 1 .. 2, NEW term \in 1 .. MaxTerm
      PROVE  ~Receive(w, n, term)
    BY DEF Receive, store
<1>4. ASSUME NEW w \in Writers PROVE ~Flush(w)
    BY DEF Flush, store
<1>5. ASSUME NEW cutoff \in 1 .. MaxIndex PROVE ~Purge(cutoff)
    BY DEF Purge, store
<1>6. ASSUME NEW last \in 1 .. MaxLog, ApplyChunk(last) PROVE Held
    BY <1>6, EngineHeld DEF ApplyChunk
<1>7. ASSUME NEW i \in 1 .. MaxLog, TakeSnapshot(i) PROVE Held
    BY <1>7, EngineHeld DEF TakeSnapshot
<1>8. ASSUME NEW snap \in SM!PeerSnapshots, InstallSnapshot(snap) PROVE Held
    BY <1>8, EngineHeld DEF InstallSnapshot
<1>9. ASSUME Proceed PROVE Held
    BY <1>9, EngineHeld DEF Proceed
<1>10. ASSUME NEW i \in 0 .. MaxLog, Persist(i) PROVE Held
    BY <1>10, EngineHeld DEF Persist
<1>11. ~UNCHANGED vars
    BY DEF vars, store
<1> QED
    BY <1>1, <1>2, <1>3, <1>4, <1>5, <1>6, <1>7, <1>8, <1>9, <1>10, <1>11 DEF Next

(* A node's handles behave as the directory's do *)
LEMMA NodeImplementsDir == Spec => DirSpec
<1>1. Init => DirInit
    BY DEF Init
<1> QED
    BY <1>1, DirStep, PTL DEF Spec, DirSpec

(* With the stores at work, kills and restarts included: two handles have   *)
(* something open in data_dir at once only when one was dropped, not closed *)
(* (DLmdb::open, close, DataDirLock).                                       *)
THEOREM NodeExclusive == Spec => []Exclusive
BY NodeImplementsDir, ExclusiveUseOfDir

(* The handles of a node implement ExclusiveUse.                            *)
THEOREM NodeOneAtATime == Spec => OneAtATime
BY NodeImplementsDir, ImplementsExclusiveUse

(* The persisted last_applied changes only in the hands of the handle that  *)
(* has the lock, Drop for LmdbStateMachine included.                        *)
THEOREM NodePersistsUnderLock == Spec => PersistedUnderLock
<1>1. Spec => []DirInv
    BY NodeImplementsDir, DirInitially, DirInductive, PTL DEF DirSpec
<1> QED
    BY <1>1, MetaStep, PTL DEF Spec, PersistedUnderLock, Held
-----------------------------------------------------------------------------
(* The stores: a step of the node is one of the state machine and one of    *)
(* the log store, or leaves them alone                                      *)

LEMMA StoreKeeps == ASSUME SM!IInv, [SM!Next]_SM!vars PROVE SM!IInv'
BY SM!NextInv, NodeAssumption

LEMMA LogKeeps == ASSUME Wal!WalInv, [Wal!Next]_Wal!vars PROVE Wal!WalInv'
BY Wal!WalNextInv, NodeAssumption

LEMMA StoreStays ==
    ASSUME UNCHANGED store, \A g \in Handles : "lmdb" \in parts'[g] <=> "lmdb" \in parts[g]
    PROVE  UNCHANGED SM!vars
<1>1. StoreOpen' = StoreOpen
    BY DEF StoreOpen
<1> QED
    BY <1>1 DEF SM!vars, store

LEMMA LogStays ==
    ASSUME UNCHANGED wal, \A g \in Handles : "raft" \in parts'[g] <=> "raft" \in parts[g]
    PROVE  UNCHANGED Wal!vars
<1>1. LogOpen' = LogOpen
    BY DEF LogOpen
<1> QED
    BY <1>1 DEF Wal!vars, wal

(* What a step of a handle does to what the handles have open *)
LEMMA HandleParts ==
    ASSUME DirInv, NEW h \in Handles, NEW S, parts' = [parts EXCEPT ![h] = S]
    PROVE  parts'[h] = S /\ \A g \in Handles : g # h => parts'[g] = parts[g]
BY DEF DirInv, DirTypeOK

LEMMA SameParts ==
    ASSUME DirInv, NEW h \in Handles, HandleOnly(h) \/ StopEngine(h)
    PROVE  \A g \in Handles : /\ "lmdb" \in parts'[g] <=> "lmdb" \in parts[g]
                              /\ "raft" \in parts'[g] <=> "raft" \in parts[g]
<1>1. CASE Acquire(h) \/ OpenFails(h) \/ Close(h) \/ Drop(h) \/ Unlock(h)
    BY <1>1 DEF Acquire, OpenFails, Close, Drop, Unlock
<1>2. CASE StartEngine(h)
  <2>1. parts' = [parts EXCEPT ![h] = Parts] /\ parts[h] = {"raft", "lmdb"}
    BY <1>2 DEF StartEngine
  <2>2. parts'[h] = Parts /\ \A g \in Handles : g # h => parts'[g] = parts[g]
    BY <2>1, HandleParts
  <2> QED
    BY <2>1, <2>2 DEF Parts
<1>3. CASE Stopped(h)
  <2>1. parts' = [parts EXCEPT ![h] = parts[h] \ {"engine"}]
    BY <1>3 DEF Stopped
  <2>2. parts'[h] = parts[h] \ {"engine"} /\ \A g \in Handles : g # h => parts'[g] = parts[g]
    BY <2>1, HandleParts
  <2> QED
    BY <2>2
<1> QED
    BY <1>1, <1>2, <1>3 DEF HandleOnly, StopEngine

(* A handle lets go of some of what it has open, of nothing that others have *)
LEMMA LessParts ==
    ASSUME DirInv, NEW h \in Handles, DropParts(h) \/ TasksEnd(h) \/ Exit(h)
    PROVE  parts'[h] \subseteq parts[h] /\ \A g \in Handles : g # h => parts'[g] = parts[g]
<1>1. \E S : S \subseteq parts[h] /\ parts' = [parts EXCEPT ![h] = S]
  <2>1. CASE DropParts(h)
    <3>1. parts' = [parts EXCEPT ![h] = IF "engine" \in parts[h] THEN parts[h] ELSE {}]
      BY <2>1 DEF DropParts
    <3> QED
      BY <3>1
  <2>2. CASE TasksEnd(h)
    <3>1. parts' = [parts EXCEPT ![h] = IF pc[h] = "dropping" THEN parts[h] \ {"engine"} ELSE {}]
      BY <2>2 DEF TasksEnd
    <3> QED
      BY <3>1
  <2>3. CASE Exit(h)
    <3>1. parts' = [parts EXCEPT ![h] = {}]
      BY <2>3 DEF Exit
    <3> QED
      BY <3>1
  <2> QED
    BY <2>1, <2>2, <2>3
<1>2. PICK S : S \subseteq parts[h] /\ parts' = [parts EXCEPT ![h] = S]
    BY <1>1
<1>3. parts'[h] = S /\ \A g \in Handles : g # h => parts'[g] = parts[g]
    BY <1>2, HandleParts
<1> QED
    BY <1>2, <1>3

LEMMA LetGoSteps ==
    ASSUME DirInv, NEW h \in Handles, ~overlap, LetGo(h),
           parts'[h] \subseteq parts[h], \A g \in Handles : g # h => parts'[g] = parts[g]
    PROVE  [SM!Drop]_SM!vars /\ [Wal!Crash]_Wal!vars
<1>1. ASSUME "lmdb" \notin parts[h] \ parts'[h] PROVE UNCHANGED SM!vars
  <2>1. UNCHANGED store
    BY <1>1 DEF LetGo
  <2>2. \A g \in Handles : "lmdb" \in parts'[g] <=> "lmdb" \in parts[g]
    BY <1>1
  <2> QED
    BY <2>1, <2>2, StoreStays
<1>2. [SM!Drop]_SM!vars
    BY <1>1 DEF LetGo
<1>3. ASSUME "raft" \notin parts[h] \ parts'[h] PROVE UNCHANGED Wal!vars
  <2>1. UNCHANGED wal
    BY <1>3 DEF LetGo
  <2>2. \A g \in Handles : "raft" \in parts'[g] <=> "raft" \in parts[g]
    BY <1>3
  <2> QED
    BY <2>1, <2>2, LogStays
<1>4. [Wal!Crash]_Wal!vars
    BY <1>3 DEF LetGo
<1> QED
    BY <1>2, <1>4

LEMMA KillSteps ==
    ASSUME DirInv, NEW h \in Handles, ~overlap, Kill(h)
    PROVE  [SM!Crash]_SM!vars /\ [Wal!Crash]_Wal!vars
<1>1. parts'[h] \subseteq parts[h] /\ \A g \in Handles : g # h => parts'[g] = parts[g]
    BY LessParts DEF Kill
<1>2. ASSUME "lmdb" \notin parts[h] PROVE UNCHANGED SM!vars
  <2>1. UNCHANGED store
    BY <1>2 DEF Kill
  <2>2. \A g \in Handles : "lmdb" \in parts'[g] <=> "lmdb" \in parts[g]
    BY <1>1, <1>2
  <2> QED
    BY <2>1, <2>2, StoreStays
<1>3. ASSUME "raft" \notin parts[h] PROVE UNCHANGED Wal!vars
  <2>1. UNCHANGED wal
    BY <1>3 DEF Kill
  <2>2. \A g \in Handles : "raft" \in parts'[g] <=> "raft" \in parts[g]
    BY <1>1, <1>3
  <2> QED
    BY <2>1, <2>2, LogStays
<1> QED
    BY <1>2, <1>3 DEF Kill

(* The steps of the handles, as the stores see them *)
LEMMA LifecycleSteps ==
    ASSUME DirInv, NEW h \in Handles, ~overlap, ~overlap', Lifecycle(h)
    PROVE  /\ [SM!New \/ SM!Drop \/ SM!Crash]_SM!vars
           /\ [Wal!New \/ Wal!Crash]_Wal!vars
<1>1. CASE HandleOnly(h) \/ StopEngine(h)
  <2>1. UNCHANGED store /\ UNCHANGED wal
    BY <1>1 DEF HandleOnly, StopEngine
  <2>2. UNCHANGED SM!vars
    BY <1>1, <2>1, SameParts, StoreStays
  <2>3. UNCHANGED Wal!vars
    BY <1>1, <2>1, SameParts, LogStays
  <2> QED
    BY <2>2, <2>3
<1>2. CASE NewLog(h)
  <2>1. Wal!New /\ UNCHANGED store
    BY <1>2 DEF NewLog
  <2>2. parts' = [parts EXCEPT ![h] = {"raft"}] /\ parts[h] = {}
    BY <1>2 DEF NewLog, OpenLog
  <2>3. parts'[h] = {"raft"} /\ \A g \in Handles : g # h => parts'[g] = parts[g]
    BY <2>2, HandleParts
  <2>4. \A g \in Handles : "lmdb" \in parts'[g] <=> "lmdb" \in parts[g]
    BY <2>2, <2>3
  <2>5. UNCHANGED SM!vars
    BY <2>1, <2>4, StoreStays
  <2> QED
    BY <2>1, <2>5
<1>3. CASE NewStore(h)
  <2>1. SM!New /\ UNCHANGED wal
    BY <1>3 DEF NewStore
  <2>2. parts' = [parts EXCEPT ![h] = {"raft", "lmdb"}] /\ parts[h] = {"raft"}
    BY <1>3 DEF NewStore, OpenStore
  <2>3. parts'[h] = {"raft", "lmdb"} /\ \A g \in Handles : g # h => parts'[g] = parts[g]
    BY <2>2, HandleParts
  <2>4. \A g \in Handles : "raft" \in parts'[g] <=> "raft" \in parts[g]
    BY <2>2, <2>3
  <2>5. UNCHANGED Wal!vars
    BY <2>1, <2>4, LogStays
  <2> QED
    BY <2>1, <2>5
<1>4. CASE DropFields(h) \/ EndTasks(h)
  <2>1. LetGo(h) /\ (DropParts(h) \/ TasksEnd(h))
    BY <1>4 DEF DropFields, EndTasks
  <2>2. [SM!Drop]_SM!vars /\ [Wal!Crash]_Wal!vars
    BY <2>1, LessParts, LetGoSteps
  <2> QED
    BY <2>2
<1>5. CASE Kill(h)
    BY <1>5, KillSteps
<1> QED
    BY <1>1, <1>2, <1>3, <1>4, <1>5 DEF Lifecycle

(* The engine at work, as the log store sees it: one step of its own, or the *)
(* state machine's                                                          *)
LogWork ==
    \/ \E w \in Writers, n \in 1 .. 2, term \in 1 .. MaxTerm : Receive(w, n, term)
    \/ \E w \in Writers : Flush(w)
    \/ \E cutoff \in 1 .. MaxIndex : Purge(cutoff)

StoreWork ==
    \/ \E term \in 1 .. MaxTerm : Commit(term)
    \/ \E last \in 1 .. MaxLog : ApplyChunk(last)
    \/ \E i \in 0 .. MaxLog : Persist(i)
    \/ \E i \in 1 .. MaxLog : TakeSnapshot(i)
    \/ \E snap \in SM!PeerSnapshots : InstallSnapshot(snap)
    \/ Proceed

LEMMA LogWorkSteps ==
    ASSUME LogWork
    PROVE  UNCHANGED <<dir, SM!vars, overlap>> /\ Wal!Next /\ EngineRuns
<1>1. UNCHANGED <<dir, store, overlap>> /\ EngineRuns
    BY DEF LogWork, Receive, Flush, Purge
<1>2. UNCHANGED SM!vars
    BY <1>1, StoreStays DEF dir
<1>3. Wal!Next
    BY DEF LogWork, Receive, Flush, Purge, Wal!Next, Wal!Terms, Wal!Indexes
<1> QED
    BY <1>1, <1>2, <1>3

LEMMA StoreWorkSteps ==
    ASSUME StoreWork
    PROVE  UNCHANGED <<dir, Wal!vars, overlap>> /\ SM!Next /\ ~overlap
<1>1. UNCHANGED <<dir, wal, overlap>> /\ ~overlap
    BY DEF StoreWork, Commit, ApplyChunk, Persist, TakeSnapshot, InstallSnapshot, Proceed, EngineRuns
<1>2. UNCHANGED Wal!vars
    BY <1>1, LogStays DEF dir
<1>3. SM!Next
  <2>1. ASSUME NEW term \in 1 .. MaxTerm, Commit(term) PROVE SM!Next
    <3>1. Len(log) < Len(Workload) /\ SM!Commit(Workload[Len(log) + 1], term)
      BY <2>1 DEF Commit
    <3>2. Workload[Len(log) + 1] \in Cmds
      BY NodeAssumption, <3>1
    <3> QED
      BY <3>1, <3>2 DEF SM!Next
  <2>2. ASSUME NEW last \in 1 .. MaxLog, ApplyChunk(last) PROVE SM!Next
    BY <2>2 DEF ApplyChunk, SM!Next, SM!Apply
  <2>3. ASSUME NEW i \in 1 .. MaxLog, TakeSnapshot(i) PROVE SM!Next
    BY <2>3 DEF TakeSnapshot, SM!Next
  <2>4. ASSUME NEW snap \in SM!PeerSnapshots, InstallSnapshot(snap) PROVE SM!Next
    BY <2>4 DEF InstallSnapshot, SM!Next
  <2>5. CASE Proceed
    BY <2>5 DEF Proceed, SM!Next, SM!Apply, SM!Generate, SM!Restore
  <2>6. ASSUME NEW i \in 0 .. MaxLog, Persist(i) PROVE SM!Next
    BY <2>6 DEF Persist, SM!Next
  <2> QED
    BY <2>1, <2>2, <2>3, <2>4, <2>5, <2>6 DEF StoreWork
<1> QED
    BY <1>1, <1>2, <1>3

LEMMA NextCases == Next => (\E h \in Handles : Lifecycle(h)) \/ LogWork \/ StoreWork
BY DEF Next, LogWork, StoreWork

(* An overlap lasts, and freezes the stores *)
LEMMA OverlapFreezes ==
    ASSUME [Next]_vars
    PROVE  /\ overlap => overlap'
           /\ overlap' => UNCHANGED <<store, wal>>
<1>1. ASSUME NEW h \in Handles, Lifecycle(h)
      PROVE  (overlap => overlap') /\ (overlap' => UNCHANGED <<store, wal>>)
    BY <1>1 DEF Lifecycle, HandleOnly, NewLog, NewStore, StopEngine, DropFields, EndTasks, Kill, LetGo
<1>2. CASE LogWork
    BY <1>2, LogWorkSteps DEF EngineRuns
<1>3. CASE StoreWork
    BY <1>3, StoreWorkSteps
<1>4. CASE UNCHANGED vars
    BY <1>4 DEF vars
<1> QED
    BY <1>1, <1>2, <1>3, <1>4, NextCases
-----------------------------------------------------------------------------
(* The purge *)

(* Facts of a node at work *)
LEMMA AtWork ==
    ASSUME NodeInv, ~overlap
    PROVE  /\ SM!IInv /\ SM!TypeOK /\ SM!HistoryOK /\ Wal!WalInv /\ PurgeBehind /\ DirInv
           /\ purge_boundary \in Nat /\ kv_db \in SM!Image
           /\ last_applied.index \in Nat /\ snapshot_meta.index \in Nat /\ meta.index \in Nat
           /\ apply.pc \in {"idle", "loop", "committed"}
           /\ gen.pc \in {"idle", "dir", "copied"} /\ gen.snap.id.index \in Nat
           /\ restore.pc \in {"idle", "blocking", "committed"} /\ restore.snap.id.index \in Nat
           /\ restore.snap.image \in SM!Image /\ apply.image \in SM!Image
           /\ apply.next \in Nat /\ apply.last \in Nat
<1>1. /\ SM!IInv /\ Wal!WalInv /\ PurgeBehind /\ DirInv /\ Wal!TypeOK
    BY DEF NodeInv, TypeOK
<1>2. SM!TypeOK /\ SM!HistoryOK
    BY <1>1 DEF SM!IInv
<1>3. purge_boundary \in Nat
    BY <1>1, NodeAssumption DEF Wal!TypeOK, Wal!WalAssumption
<1>4. /\ kv_db \in SM!Image /\ meta \in SM!LogId /\ last_applied \in SM!LogId /\ snapshot_meta \in SM!LogId
    BY <1>2 DEF SM!TypeOK
<1>5. last_applied.index \in Nat /\ snapshot_meta.index \in Nat /\ meta.index \in Nat
    BY <1>4 DEF SM!LogId
<1>6. /\ apply.pc \in {"idle", "loop", "committed"}
      /\ apply.image \in SM!Image /\ apply.next \in Nat /\ apply.last \in Nat
    BY <1>2 DEF SM!TypeOK
<1>7. /\ gen.pc \in {"idle", "dir", "copied"} /\ gen.snap.id.index \in Nat
    BY <1>2 DEF SM!TypeOK, SM!Snapshot, SM!LogId
<1>8. /\ restore.pc \in {"idle", "blocking", "committed"} /\ restore.snap.id.index \in Nat
      /\ restore.snap.image \in SM!Image
    BY <1>2 DEF SM!TypeOK, SM!Snapshot, SM!LogId
<1> QED
    BY <1>1, <1>2, <1>3, <1>4, <1>5, <1>6, <1>7, <1>8

(* An image that can be replayed from a position can be from an earlier one *)
LEMMA Earlier ==
    ASSUME NodeInv, ~overlap, NEW image \in SM!Image, NEW i \in Nat, NEW j \in Nat, i <= j,
           SM!Good(image, j)
    PROVE  SM!Good(image, i)
BY AtWork, SM!ReplayableEarlier, NodeAssumption

LEMMA LogKept == ASSUME UNCHANGED <<log, hist>>, NEW image, NEW j, SM!Good(image, j) PROVE SM!Good(image, j)'
BY DEF SM!Good, SM!Replayable

LEMMA LifecycleBehind ==
    ASSUME NodeInv, ~overlap, [SM!New \/ SM!Drop \/ SM!Crash]_SM!vars, [Wal!New \/ Wal!Crash]_Wal!vars
    PROVE  PurgeBehind'
<1>1. purge_boundary' = purge_boundary
    BY DEF Wal!New, Wal!Crash, Wal!durable, Wal!vars
<1>2. UNCHANGED <<log, hist, kv_db>>
    BY DEF SM!New, SM!Drop, SM!Crash, SM!external, SM!durable, SM!vars
<1>3. SM!Good(kv_db, purge_boundary)'
    BY <1>1, <1>2, AtWork, LogKept DEF PurgeBehind
<1>4. CASE SM!New
  <2>1. ~StoreOpen /\ last_applied' = meta /\ snapshot_meta' = SM!NoId /\ UNCHANGED <<apply, gen, restore>>
    BY <1>4 DEF SM!New
  <2>2. apply.pc = "idle" /\ gen.pc = "idle" /\ restore.pc = "idle"
    BY <2>1, AtWork DEF SM!IInv, SM!ApplyOK, SM!GenOK, SM!RestoreOK
  <2>3. snapshot_meta'.index <= last_applied'.index
    BY <2>1, AtWork DEF SM!NoId
  <2> QED
    BY <1>3, <2>1, <2>2, <2>3 DEF PurgeBehind
<1>5. CASE SM!Drop \/ SM!Crash
  <2>1. ~StoreOpen' /\ apply'.pc = "idle" /\ gen'.pc = "idle" /\ restore'.pc = "idle"
    BY <1>5 DEF SM!Drop, SM!Crash, SM!Gone, SM!NoApply, SM!NoGen, SM!NoRestore
  <2> QED
    BY <1>3, <2>1 DEF PurgeBehind
<1>6. CASE UNCHANGED SM!vars
  <2>1. StoreOpen' = StoreOpen /\ UNCHANGED <<last_applied, snapshot_meta, apply, gen, restore>>
    BY <1>6 DEF SM!vars
  <2> QED
    BY <1>1, <1>3, <2>1, AtWork DEF PurgeBehind
<1> QED
    BY <1>4, <1>5, <1>6

(* The purge stays behind the snapshot, which is behind what is applied *)
LEMMA LogWorkBehind == ASSUME NodeInv, ~overlap, LogWork PROVE PurgeBehind'
<1>1. UNCHANGED SM!vars /\ EngineRuns
    BY LogWorkSteps
<1>2. /\ UNCHANGED <<log, hist, kv_db, last_applied, snapshot_meta, apply, gen, restore>>
      /\ StoreOpen' = StoreOpen
    BY <1>1 DEF SM!vars
<1>3. StoreOpen
    BY <1>1, AtWork DEF EngineRuns, DirInv, StoreOpen, Parts
<1>4. \/ purge_boundary' = purge_boundary
      \/ purge_boundary' \in 1 .. MaxIndex /\ purge_boundary' <= snapshot_meta.index
    BY DEF LogWork, Receive, Flush, Purge, Wal!Enqueue, Wal!PersistCommit, Wal!PersistReturn, Wal!Purge,
           Wal!durable
<1>5. CASE purge_boundary' = purge_boundary
    BY <1>2, <1>5, AtWork, LogKept DEF PurgeBehind
<1>6. CASE purge_boundary' \in 1 .. MaxIndex /\ purge_boundary' <= snapshot_meta.index
  <2>1. PICK b : b = purge_boundary'
    OBVIOUS
  <2>2. b \in Nat /\ b <= snapshot_meta.index
    BY <1>6, <2>1, NodeAssumption DEF Wal!WalAssumption
  <2>3. b <= last_applied.index
    BY <1>3, <2>2, AtWork DEF PurgeBehind
  <2>4. SM!Good(kv_db, last_applied.index)
    BY <1>3, AtWork DEF SM!IInv, SM!StoreOK
  <2>5. SM!Good(kv_db, b)
    BY <2>2, <2>3, <2>4, AtWork, Earlier
  <2>6. SM!Good(kv_db, purge_boundary)'
    BY <1>2, <2>1, <2>5, LogKept
  <2>7. restore.pc # "idle" => b <= restore.snap.id.index
    BY <2>2, <2>3, AtWork DEF SM!IInv, SM!RestoreOK
  <2> QED
    BY <1>2, <2>1, <2>3, <2>6, <2>7, AtWork DEF PurgeBehind
<1> QED
    BY <1>4, <1>5, <1>6

LEMMA CommitBehind ==
    ASSUME NodeInv, ~overlap, NEW term \in 1 .. MaxTerm, Commit(term)
    PROVE  PurgeBehind'
<1>1. /\ UNCHANGED <<kv_db, last_applied, snapshot_meta, apply, gen, restore, purge_boundary>>
      /\ StoreOpen' = StoreOpen
    BY DEF Commit, dir, wal, StoreOpen, SM!Commit, SM!durable, SM!cache
<1>2. PICK cmd \in Cmds : SM!Commit(cmd, term)
  <2>1. Len(log) < Len(Workload) /\ SM!Commit(Workload[Len(log) + 1], term)
    BY DEF Commit
  <2>2. Len(log) \in Nat
    BY AtWork DEF SM!TypeOK
  <2>3. Workload[Len(log) + 1] \in Cmds
    BY NodeAssumption, <2>1, <2>2
  <2> QED
    BY <2>1, <2>3
<1>3. PICK image : image = kv_db
    OBVIOUS
<1>4. PICK b : b = purge_boundary
    OBVIOUS
<1>5. /\ SM!TypeOK /\ term \in Nat /\ image \in SM!Image /\ b \in Nat /\ SM!Good(image, b)
    BY <1>3, <1>4, AtWork, NodeAssumption DEF PurgeBehind, Wal!WalAssumption
<1>6. SM!Good(image, b)'
    BY <1>2, <1>5, SM!CommitKeepsGood, NodeAssumption
<1>7. SM!Good(kv_db, purge_boundary)'
    BY <1>1, <1>3, <1>4, <1>6
<1> QED
    BY <1>1, <1>7, AtWork DEF PurgeBehind

(* A chunk begins above the boundary: its entries are in the log *)
LEMMA ChunkBehind ==
    ASSUME NodeInv, ~overlap, NEW last \in 1 .. MaxLog, ApplyChunk(last)
    PROVE  PurgeBehind'
<1>1. /\ UNCHANGED <<log, hist, kv_db, last_applied, snapshot_meta, gen, restore, purge_boundary>>
      /\ StoreOpen' = StoreOpen
    BY DEF ApplyChunk, dir, wal, StoreOpen, SM!ApplyBegin, SM!durable, SM!cache, SM!external
<1>2. last \in last_applied.index + 1 .. Len(log) /\ last_applied.index + 1 .. last \subseteq DOMAIN mem
    BY DEF ApplyChunk, SM!ApplyBegin
<1>3. last_applied.index \in Nat /\ purge_boundary \in Nat
    BY AtWork
<1>4. last_applied.index + 1 \in DOMAIN mem
    BY <1>2, <1>3
<1>5. last_applied.index + 1 > purge_boundary
    BY <1>4, AtWork DEF Wal!WalInv, Wal!PurgedOK
<1>6. purge_boundary <= last_applied.index
    BY <1>3, <1>5
<1>7. SM!Good(kv_db, purge_boundary)'
    BY <1>1, AtWork, LogKept DEF PurgeBehind
<1> QED
    BY <1>1, <1>6, <1>7, AtWork DEF PurgeBehind

(* A late log id is not before the snapshots the log is purged by *)
LEMMA PersistBehind ==
    ASSUME NodeInv, ~overlap, NEW i \in 0 .. MaxLog, Persist(i)
    PROVE  PurgeBehind'
<1>1. /\ UNCHANGED <<log, hist, kv_db, snapshot_meta, apply, gen, restore, purge_boundary>>
      /\ StoreOpen' = StoreOpen
    BY DEF Persist, dir, wal, StoreOpen, SM!PersistLastApplied, SM!external
<1>2. /\ apply.pc = "idle" /\ restore.pc = "idle" /\ last_applied' = SM!IdOf(i)
      /\ snapshot_meta.index <= i /\ (gen.pc # "idle" => gen.snap.id.index <= i)
    BY DEF Persist, SM!PersistLastApplied, SM!MayPersist, SM!Idle
<1>3. last_applied'.index = i
    BY <1>2 DEF SM!IdOf, SM!NoId
<1>4. SM!Good(kv_db, purge_boundary)'
    BY <1>1, AtWork, LogKept DEF PurgeBehind
<1> QED
    BY <1>1, <1>2, <1>3, <1>4 DEF PurgeBehind

LEMMA SnapshotBehind ==
    ASSUME NodeInv, ~overlap, NEW i \in 1 .. MaxLog, TakeSnapshot(i)
    PROVE  PurgeBehind'
<1>1. /\ UNCHANGED <<log, hist, kv_db, last_applied, snapshot_meta, apply, restore, purge_boundary>>
      /\ StoreOpen' = StoreOpen
    BY DEF TakeSnapshot, dir, wal, StoreOpen, SM!GenBegin, SM!durable, SM!cache, SM!external
<1>2. /\ i \in 1 .. last_applied.index
      /\ gen' = [pc |-> "dir", snap |-> [id |-> SM!IdOf(i), image |-> SM!Blank]]
    BY DEF TakeSnapshot, SM!GenBegin
<1>3. gen'.snap.id.index = i
    BY <1>2 DEF SM!IdOf
<1>4. gen'.snap.id.index <= last_applied.index
    BY <1>2, <1>3, AtWork
<1>5. SM!Good(kv_db, purge_boundary)'
    BY <1>1, AtWork, LogKept DEF PurgeBehind
<1> QED
    BY <1>1, <1>4, <1>5, AtWork DEF PurgeBehind

LEMMA InstallBehind ==
    ASSUME NodeInv, ~overlap, NEW snap \in SM!PeerSnapshots, InstallSnapshot(snap)
    PROVE  PurgeBehind'
<1>1. /\ UNCHANGED <<log, hist, kv_db, last_applied, snapshot_meta, apply, gen, purge_boundary>>
      /\ StoreOpen' = StoreOpen /\ restore' = [pc |-> "blocking", snap |-> snap]
    BY DEF InstallSnapshot, dir, wal, StoreOpen, SM!RestoreBegin, SM!durable, SM!cache, SM!external
<1>2. snap.id.index > purge_boundary /\ snap.id.index > last_applied.index
    BY DEF InstallSnapshot, SM!RestoreBegin
<1>3. SM!IInv'
    BY AtWork, StoreWorkSteps, StoreKeeps DEF StoreWork
<1>4. restore'.snap.id.index \in Nat
    BY <1>3 DEF SM!IInv, SM!TypeOK, SM!Snapshot, SM!LogId
<1>5. purge_boundary <= restore'.snap.id.index
    BY <1>1, <1>2, <1>4, AtWork
<1>6. SM!Good(kv_db, purge_boundary)'
    BY <1>1, AtWork, LogKept DEF PurgeBehind
<1> QED
    BY <1>1, <1>5, <1>6, AtWork DEF PurgeBehind

LEMMA ProceedBehind == ASSUME NodeInv, ~overlap, Proceed PROVE PurgeBehind'
<1>1. UNCHANGED <<dir, purge_boundary>> /\ StoreOpen' = StoreOpen
    BY DEF Proceed, dir, wal, StoreOpen
<1>2. UNCHANGED <<log, hist>>
    BY DEF Proceed, SM!ApplyEntry, SM!ApplyCommit, SM!ApplyPublish, SM!GenCopy,
           SM!GenFinish, SM!RestoreCommit, SM!RestoreFinish, SM!external
<1>3. StoreOpen
    BY AtWork DEF Proceed, EngineRuns, DirInv, StoreOpen, Parts
<1>4. ASSUME kv_db' = kv_db PROVE SM!Good(kv_db, purge_boundary)'
    BY <1>1, <1>2, <1>4, AtWork, LogKept DEF PurgeBehind
<1>5. CASE SM!ApplyEntry
  <2>1. UNCHANGED <<kv_db, last_applied, snapshot_meta, gen, restore>> /\ apply.pc = "loop"
    BY <1>5 DEF SM!ApplyEntry, SM!durable
  <2> QED
    BY <1>1, <1>4, <2>1, AtWork DEF PurgeBehind
<1>6. CASE SM!ApplyCommit
  <2>1. /\ UNCHANGED <<last_applied, snapshot_meta, gen, restore>>
        /\ apply.pc = "loop" /\ apply.next > apply.last /\ kv_db' = apply.image
    BY <1>6 DEF SM!ApplyCommit, SM!cache
  <2>2. /\ apply.next \in last_applied.index + 1 .. apply.last + 1
        /\ SM!Good(apply.image, apply.next - 1) /\ purge_boundary <= last_applied.index
    BY <2>1, AtWork DEF SM!IInv, SM!ApplyOK, PurgeBehind
  <2>3. apply.next - 1 \in Nat /\ purge_boundary <= apply.next - 1
    BY <2>1, <2>2, AtWork
  <2>4. SM!Good(apply.image, purge_boundary)
    BY <2>2, <2>3, AtWork, Earlier
  <2>5. PICK image : image = apply.image
    OBVIOUS
  <2>6. PICK b : b = purge_boundary
    OBVIOUS
  <2>7. SM!Good(image, b)'
    BY <1>2, <2>4, <2>5, <2>6, LogKept
  <2>8. SM!Good(kv_db, purge_boundary)'
    BY <1>1, <2>1, <2>5, <2>6, <2>7
  <2> QED
    BY <1>1, <2>1, <2>2, <2>8, AtWork DEF PurgeBehind
<1>7. CASE SM!ApplyPublish
  <2>1. /\ UNCHANGED <<kv_db, snapshot_meta, gen, restore>> /\ apply' = SM!NoApply
        /\ apply.pc = "committed" /\ last_applied' = SM!IdOf(apply.last)
    BY <1>7 DEF SM!ApplyPublish, SM!durable
  <2>2. apply.last \in 1 .. Len(log) /\ last_applied.index <= apply.last
    BY <2>1, AtWork DEF SM!IInv, SM!ApplyOK
  <2>3. last_applied'.index = apply.last /\ apply'.pc = "idle"
    BY <2>1, <2>2 DEF SM!IdOf, SM!NoApply
  <2>4. /\ snapshot_meta.index <= last_applied'.index
        /\ (gen.pc # "idle" => gen.snap.id.index <= last_applied'.index)
    BY <1>3, <2>2, <2>3, AtWork DEF PurgeBehind
  <2> QED
    BY <1>1, <1>4, <2>1, <2>3, <2>4, AtWork DEF PurgeBehind
<1>8. CASE SM!GenCopy
  <2>1. /\ UNCHANGED <<kv_db, last_applied, snapshot_meta, apply, restore>>
        /\ gen.pc = "dir" /\ gen' = [gen EXCEPT !.pc = "copied", !.snap.image = kv_db]
    BY <1>8 DEF SM!GenCopy, SM!cache, SM!durable
  <2>2. gen'.snap.id = gen.snap.id
    BY <2>1, AtWork DEF SM!TypeOK, SM!Snapshot
  <2> QED
    BY <1>1, <1>4, <2>1, <2>2, AtWork DEF PurgeBehind
<1>9. CASE SM!GenFinish
  <2>1. /\ UNCHANGED <<kv_db, last_applied, apply, restore>>
        /\ gen.pc = "copied" /\ snapshot_meta' = gen.snap.id /\ gen' = SM!NoGen
    BY <1>9 DEF SM!GenFinish
  <2>2. gen'.pc = "idle"
    BY <2>1 DEF SM!NoGen
  <2> QED
    BY <1>1, <1>4, <2>1, <2>2, AtWork DEF PurgeBehind
<1>10. CASE SM!RestoreCommit
  <2>1. /\ UNCHANGED <<last_applied, snapshot_meta, apply, gen>>
        /\ restore.pc = "blocking" /\ kv_db' = restore.snap.image
        /\ restore' = [restore EXCEPT !.pc = "committed"]
    BY <1>10 DEF SM!RestoreCommit, SM!cache
  <2>2. restore'.snap = restore.snap
    BY <2>1, AtWork DEF SM!TypeOK
  <2>3. SM!Good(restore.snap.image, restore.snap.id.index) /\ purge_boundary <= restore.snap.id.index
    BY <2>1, AtWork DEF SM!IInv, SM!RestoreOK, PurgeBehind
  <2>4. SM!Good(restore.snap.image, purge_boundary)
    BY <2>3, AtWork, Earlier
  <2>5. PICK image : image = restore.snap.image
    OBVIOUS
  <2>6. PICK b : b = purge_boundary
    OBVIOUS
  <2>7. SM!Good(image, b)'
    BY <1>2, <2>4, <2>5, <2>6, LogKept
  <2>8. SM!Good(kv_db, purge_boundary)'
    BY <1>1, <2>1, <2>5, <2>6, <2>7
  <2> QED
    BY <1>1, <2>1, <2>2, <2>3, <2>8, AtWork DEF PurgeBehind
<1>11. CASE SM!RestoreFinish
  <2>1. /\ UNCHANGED <<kv_db, apply, gen>> /\ restore.pc = "committed"
        /\ last_applied' = restore.snap.id /\ snapshot_meta' = restore.snap.id
        /\ restore' = SM!NoRestore
    BY <1>11 DEF SM!RestoreFinish, SM!durable
  <2>2. last_applied.index < restore.snap.id.index /\ apply.pc = "idle" /\ restore'.pc = "idle"
    BY <2>1, AtWork DEF SM!IInv, SM!RestoreOK, SM!ApplyOK, SM!NoRestore
  <2>3. snapshot_meta'.index <= last_applied'.index
    BY <2>1, AtWork
  <2>4. gen.pc # "idle" => gen.snap.id.index <= last_applied'.index
    BY <2>1, <2>2, AtWork DEF PurgeBehind
  <2> QED
    BY <1>1, <1>4, <2>1, <2>2, <2>3, <2>4, AtWork DEF PurgeBehind
<1> QED
    BY <1>5, <1>6, <1>7, <1>8, <1>9, <1>10, <1>11 DEF Proceed
-----------------------------------------------------------------------------
(* The node *)

LEMMA NodeInitially == ASSUME Init PROVE NodeInv
<1>1. DirInv /\ overlap = FALSE
    BY DirInitially DEF Init
<1>2. SM!IInv
    BY SM!InitInv, NodeAssumption DEF Init
<1>3. Wal!WalInv
    BY Wal!WalInitOK, NodeAssumption DEF Init
<1>4. TypeOK
    BY <1>1, <1>2, <1>3 DEF TypeOK, DirInv, SM!IInv, Wal!WalInv
<1>5. /\ kv_db = SM!Blank /\ meta = SM!NoId /\ purge_boundary = 0
      /\ apply.pc = "idle" /\ gen.pc = "idle" /\ restore.pc = "idle" /\ ~StoreOpen
    BY DEF Init, SM!Init, Wal!Init, SM!NoApply, SM!NoGen, SM!NoRestore
<1>6. SM!Good(kv_db, 0)
    BY <1>2, <1>5 DEF SM!IInv, SM!StoreOK, SM!NoId
<1>7. PurgeBehind
    BY <1>5, <1>6 DEF PurgeBehind
<1>8. PurgeCovered
    BY <1>5, <1>6 DEF PurgeCovered, SM!Good, SM!NoId, Wal!Larger
<1> QED
    BY <1>1, <1>2, <1>3, <1>4, <1>7, <1>8 DEF NodeInv

LEMMA NodeInductive == NodeInv /\ [Next]_vars => NodeInv'
<1> SUFFICES ASSUME NodeInv, [Next]_vars PROVE NodeInv'
    OBVIOUS
<1>1. DirInv'
    BY DirStep, DirInductive DEF NodeInv
<1>2. overlap' \in BOOLEAN
    BY DEF NodeInv, TypeOK, Next, Lifecycle, HandleOnly, NewLog, NewStore, StopEngine, DropFields,
           EndTasks, Kill, LetGo, Commit, Receive, Flush, Purge, ApplyChunk, Persist, TakeSnapshot,
           InstallSnapshot, Proceed, vars
<1>3. CASE overlap'
  <2>1. UNCHANGED <<store, wal>>
    BY <1>3, OverlapFreezes
  <2>2. /\ UNCHANGED <<log, hist, faults, panics, kv_db, meta, file, running, stopped, last_applied,
                       entry_terms, snapshot_meta, apply, gen, restore>>
        /\ UNCHANGED <<log_db, purge_boundary, hard_state, last_index, writing, cutting, mem, acked, crashes>>
    BY <2>1 DEF store, wal
  <2>3. SM!TypeOK'
    <3>1. SM!TypeOK
      BY DEF NodeInv, TypeOK
    <3>2. StoreOpen' \in BOOLEAN
      BY DEF StoreOpen
    <3> QED
      BY <2>2, <3>1, <3>2 DEF SM!TypeOK
  <2>4. Wal!TypeOK'
    <3>1. Wal!TypeOK
      BY DEF NodeInv, TypeOK
    <3>2. LogOpen' \in BOOLEAN
      BY DEF LogOpen
    <3> QED
      BY <2>2, <3>1, <3>2 DEF Wal!TypeOK
  <2>5. TypeOK'
    BY <1>1, <1>2, <2>3, <2>4 DEF TypeOK, DirInv
  <2>6. PurgeCovered'
    BY <2>2 DEF NodeInv, PurgeCovered, SM!Replayable
  <2> QED
    BY <1>1, <1>3, <2>5, <2>6 DEF NodeInv
<1>4. CASE ~overlap'
  <2>1. ~overlap /\ DirInv
    BY <1>4, OverlapFreezes DEF NodeInv
  <2>2. /\ [SM!Next]_SM!vars /\ [Wal!Next]_Wal!vars /\ PurgeBehind'
    <3>1. ASSUME NEW h \in Handles, Lifecycle(h)
          PROVE  [SM!Next]_SM!vars /\ [Wal!Next]_Wal!vars /\ PurgeBehind'
      <4>1. [SM!New \/ SM!Drop \/ SM!Crash]_SM!vars /\ [Wal!New \/ Wal!Crash]_Wal!vars
        BY <1>4, <2>1, <3>1, LifecycleSteps
      <4>2. PurgeBehind'
        BY <2>1, <4>1, LifecycleBehind
      <4> QED
        BY <4>1, <4>2 DEF SM!Next, Wal!Next
    <3>2. CASE LogWork
      BY <2>1, <3>2, LogWorkSteps, LogWorkBehind
    <3>3. CASE StoreWork
      <4>1. UNCHANGED Wal!vars /\ SM!Next
        BY <3>3, StoreWorkSteps
      <4>2. PurgeBehind'
        BY <2>1, <3>3, CommitBehind, ChunkBehind, PersistBehind, SnapshotBehind, InstallBehind, ProceedBehind DEF StoreWork
      <4> QED
        BY <4>1, <4>2
    <3>4. CASE UNCHANGED vars
      <4>1. UNCHANGED <<dir, store, wal>>
        BY <3>4 DEF vars
      <4>2. UNCHANGED SM!vars /\ UNCHANGED Wal!vars
        BY <4>1, StoreStays, LogStays DEF dir
      <4>3. PurgeBehind'
        BY <2>1, <4>2, LifecycleBehind
      <4> QED
        BY <4>2, <4>3
    <3> QED
      BY <3>1, <3>2, <3>3, <3>4, NextCases
  <2>3. SM!IInv'
    BY <2>1, <2>2, StoreKeeps DEF NodeInv
  <2>4. Wal!WalInv'
    BY <2>1, <2>2, LogKeeps DEF NodeInv
  <2>5. SM!TypeOK' /\ Wal!TypeOK'
    BY <2>3, <2>4 DEF SM!IInv, Wal!WalInv
  <2>6. TypeOK'
    BY <1>1, <1>2, <2>5 DEF TypeOK, DirInv
  <2>7. PurgeCovered'
    <3>1. SM!Replayable(kv_db, meta.index)' /\ SM!Replayable(kv_db, purge_boundary)'
      BY <2>2, <2>3 DEF SM!IInv, SM!StoreOK, PurgeBehind, SM!Good
    <3>2. Wal!Larger(meta.index, purge_boundary)' \in {meta'.index, purge_boundary'}
      BY DEF Wal!Larger
    <3> QED
      BY <3>1, <3>2 DEF PurgeCovered
  <2> QED
    BY <1>1, <1>4, <2>2, <2>3, <2>4, <2>6, <2>7 DEF NodeInv
<1> QED
    BY <1>3, <1>4

(* Handles, state machine and log store keep their invariants together,     *)
(* through opening, closing, drops and kills, until two engines overlap.    *)
THEOREM NodeInvariance == Spec => []NodeInv
BY NodeInitially, NodeInductive, PTL DEF Spec

(* Type correctness of the node, after an overlap too.                      *)
THEOREM NodeTypeCorrect == Spec => []TypeOK
<1>1. NodeInv => TypeOK
    BY DEF NodeInv
<1> QED
    BY <1>1, NodeInvariance, PTL

(* purge removes nothing from the log that the store may still need: with   *)
(* snapshot_metadata in memory only and last_applied persisted late, replay *)
(* of what the log still holds repairs the kv database at every instant,    *)
(* kills and restarts included.                                             *)
THEOREM PurgedEntriesCovered == Spec => []PurgeCovered
<1>1. NodeInv => PurgeCovered
    BY DEF NodeInv
<1> QED
    BY <1>1, NodeInvariance, PTL

(* The state machine of a node implements LmdbStateMachine, step by step,   *)
(* and its log store LmdbWal, until two engines overlap: the components'    *)
(* specifications are what the composition runs.                            *)
THEOREM NodeRunsComponents ==
    Spec => [][~overlap' => [SM!Next]_SM!vars /\ [Wal!Next]_Wal!vars]_vars
<1>1. NodeInv /\ [Next]_vars => [~overlap' => [SM!Next]_SM!vars /\ [Wal!Next]_Wal!vars]_vars
  <2> SUFFICES ASSUME NodeInv, Next, ~overlap' PROVE [SM!Next]_SM!vars /\ [Wal!Next]_Wal!vars
    OBVIOUS
  <2>1. ~overlap /\ DirInv
    BY OverlapFreezes DEF NodeInv
  <2>2. ASSUME NEW h \in Handles, Lifecycle(h) PROVE [SM!Next]_SM!vars /\ [Wal!Next]_Wal!vars
    BY <2>1, <2>2, LifecycleSteps DEF SM!Next, Wal!Next
  <2>3. CASE LogWork
    BY <2>3, LogWorkSteps
  <2>4. CASE StoreWork
    BY <2>4, StoreWorkSteps
  <2> QED
    BY <2>2, <2>3, <2>4, NextCases
<1> QED
    BY <1>1, NodeInvariance, PTL DEF Spec
=============================================================================
