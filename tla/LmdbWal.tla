------------------------------ MODULE LmdbWal ------------------------------
(***************************************************************************)
(* The Raft log store: struct LmdbWal (storage_engine.rs), the LogStore    *)
(* and MetaStore of one node.  An entry is its term.                       *)
(*                                                                         *)
(* External (d-engine's BufferedRaftLog): it keeps the log in memory, hands *)
(* batches of new entries to flush workers, which call persist_entries     *)
(* side by side, truncates and resets when no flush is in progress, purges *)
(* what is flushed (or, after a snapshot, the whole log), and on restart   *)
(* reads the stored entries and the purge boundary.                        *)
(***************************************************************************)
EXTENDS Naturals

CONSTANTS
    Writers,        \* flush workers
    MaxIndex,       \* bound: log indexes
    MaxTerm,        \* bound: terms
    MaxCrashes      \* bound: crashes

ASSUME WalAssumption == MaxIndex \in Nat /\ MaxTerm \in Nat /\ MaxCrashes \in Nat

VARIABLES
    \* durable: the LMDB environment
    log_db,         \* stored entries: a function from indexes to terms
    purge_boundary, \* index of the LogId under KEY_PURGE_BOUNDARY, 0 when missing
    hard_state,     \* term of the HardState under KEY_HARD_STATE, 0 when missing
    \* volatile
    up,             \* the LmdbWal is open
    last_index,     \* AtomicU64 last_index
    writing,        \* per flush worker: its persist_entries call
    cutting,        \* the truncate or reset call in progress
    \* external and ghost
    mem,            \* the engine's log above the boundary: indexes to terms
    acked,          \* indexes whose persist_entries returned and that nobody removed
    crashes         \* bound: crashes so far

durable == <<log_db, purge_boundary, hard_state>>
vars == <<log_db, purge_boundary, hard_state, up, last_index, writing, cutting, mem, acked, crashes>>

-----------------------------------------------------------------------------
Indexes == 1 .. MaxIndex
Terms == 1 .. MaxTerm
Logs == UNION {[S -> Terms] : S \in SUBSET Indexes}

NoWrite == [pc |-> "idle", batch |-> {}, term |-> 0]
NoCut == [pc |-> "idle", last |-> 0]

(* The entries of log f at the indexes in S *)
Only(f, S) == [i \in DOMAIN f \cap S |-> f[i]]

(* The log f with the entries of a batch put over it *)
Over(f, batch, term) == [i \in DOMAIN f \cup batch |-> IF i \in batch THEN term ELSE f[i]]

(* The greatest of a set of indexes, or 0 *)
LastOf(S) == IF S = {} THEN 0 ELSE CHOOSE i \in S : \A j \in S : j <= i

(* The key of log_db.last(), or 0 *)
LastKey(f) == LastOf(DOMAIN f)

Larger(a, b) == IF a >= b THEN a ELSE b

(* The last index of the engine's log *)
Tail == Larger(LastKey(mem), purge_boundary)

TypeOK ==
    /\ log_db \in Logs /\ mem \in Logs
    /\ purge_boundary \in 0 .. MaxIndex
    /\ hard_state \in 0 .. MaxTerm
    /\ up \in BOOLEAN
    /\ last_index \in 0 .. MaxIndex
    /\ writing \in [Writers -> [pc : {"idle", "queued", "committed"},
                                batch : SUBSET Indexes, term : 0 .. MaxTerm]]
    /\ cutting \in [pc : {"idle", "committed"}, last : 0 .. MaxIndex]
    /\ acked \subseteq Indexes
    /\ crashes \in 0 .. MaxCrashes

Init ==
    /\ log_db = Only([i \in {} |-> 0], {}) /\ mem = log_db
    /\ purge_boundary = 0 /\ hard_state = 0
    /\ up = FALSE /\ last_index = 0
    /\ writing = [w \in Writers |-> NoWrite] /\ cutting = NoCut
    /\ acked = {} /\ crashes = 0

Flushed == \A w \in Writers : writing[w].pc = "idle"

Quiescent == up /\ Flushed /\ cutting.pc = "idle"

-----------------------------------------------------------------------------
(* LmdbStorageEngine::new: last_index is the last key of the log database; *)
(* the engine then loads the entries and the purge boundary                *)
New ==
    /\ ~up
    /\ up' = TRUE
    /\ last_index' = LastKey(log_db)
    /\ mem' = log_db
    /\ UNCHANGED <<durable, writing, cutting, acked, crashes>>

(* External: the next n entries, all of one term, go to an idle flush worker *)
Enqueue(w, n, term) ==
    /\ up /\ cutting.pc = "idle" /\ writing[w].pc = "idle"
    /\ Tail + n <= MaxIndex
    /\ LET batch == Tail + 1 .. Tail + n
       IN  /\ mem' = Over(mem, batch, term)
           /\ writing' = [writing EXCEPT ![w] = [pc |-> "queued", batch |-> batch, term |-> term]]
    /\ UNCHANGED <<durable, up, last_index, cutting, acked, crashes>>

(* persist_entries: all puts in one transaction, committed *)
PersistCommit(w) ==
    /\ writing[w].pc = "queued"
    /\ log_db' = Over(log_db, writing[w].batch, writing[w].term)
    /\ writing' = [writing EXCEPT ![w].pc = "committed"]
    /\ UNCHANGED <<purge_boundary, hard_state, up, last_index, cutting, mem, acked, crashes>>

(* Mutant: last_index is stored, not fetch_max-ed *)
PersistReturnStore(w) ==
    /\ writing[w].pc = "committed"
    /\ last_index' = LastOf(writing[w].batch)
    /\ acked' = acked \cup writing[w].batch
    /\ writing' = [writing EXCEPT ![w] = NoWrite]
    /\ UNCHANGED <<durable, up, cutting, mem, crashes>>

(* persist_entries: fetch_max(max_index), return *)
PersistReturn(w) ==
    /\ writing[w].pc = "committed"
    /\ last_index' = Larger(last_index, LastOf(writing[w].batch))
    /\ acked' = acked \cup writing[w].batch
    /\ writing' = [writing EXCEPT ![w] = NoWrite]
    /\ UNCHANGED <<durable, up, cutting, mem, crashes>>

(* Mutant: the range ends before the cutoff *)
PurgeKeepsCutoff(cutoff) ==
    /\ up /\ cutting.pc = "idle"
    /\ cutoff > purge_boundary
    /\ \A w \in Writers : writing[w].pc # "idle" =>
          \A i \in writing[w].batch : cutoff < i
    /\ log_db' = Only(log_db, cutoff .. MaxIndex)
    /\ purge_boundary' = cutoff
    /\ mem' = Only(mem, cutoff + 1 .. MaxIndex)
    /\ acked' = acked \ 1 .. cutoff
    /\ UNCHANGED <<hard_state, up, last_index, writing, cutting, crashes>>

(* Mutant: the end of the range is persisted as the boundary *)
PurgeStoresEnd(cutoff) ==
    /\ up /\ cutting.pc = "idle"
    /\ cutoff > purge_boundary
    /\ \A w \in Writers : writing[w].pc # "idle" =>
          \A i \in writing[w].batch : cutoff < i
    /\ log_db' = Only(log_db, cutoff + 1 .. MaxIndex)
    /\ purge_boundary' = cutoff + 1
    /\ mem' = Only(mem, cutoff + 1 .. MaxIndex)
    /\ acked' = acked \ 1 .. cutoff
    /\ UNCHANGED <<hard_state, up, last_index, writing, cutting, crashes>>

(* purge(cutoff): the range delete and the boundary in one transaction *)
Purge(cutoff) ==
    /\ up /\ cutting.pc = "idle"
    /\ cutoff > purge_boundary
    /\ \A w \in Writers : writing[w].pc # "idle" =>
          \A i \in writing[w].batch : cutoff < i
    /\ log_db' = Only(log_db, cutoff + 1 .. MaxIndex)
    /\ purge_boundary' = cutoff
    /\ mem' = Only(mem, cutoff + 1 .. MaxIndex)
    /\ acked' = acked \ 1 .. cutoff
    /\ UNCHANGED <<hard_state, up, last_index, writing, cutting, crashes>>

(* Mutant: the range begins after `from` *)
TruncateKeepsFrom(from) ==
    /\ Quiescent
    /\ from \in purge_boundary + 1 .. Tail
    /\ log_db' = Only(log_db, 1 .. from)
    /\ cutting' = [pc |-> "committed", last |-> LastKey(log_db')]
    /\ mem' = Only(mem, 1 .. from - 1)
    /\ acked' = acked \cap 1 .. from - 1
    /\ UNCHANGED <<purge_boundary, hard_state, up, last_index, writing, crashes>>

(* truncate(from): the range delete, the new tail read in the transaction, commit *)
TruncateCommit(from) ==
    /\ Quiescent
    /\ from \in purge_boundary + 1 .. Tail
    /\ log_db' = Only(log_db, 1 .. from - 1)
    /\ cutting' = [pc |-> "committed", last |-> LastKey(log_db')]
    /\ mem' = Only(mem, 1 .. from - 1)
    /\ acked' = acked \cap 1 .. from - 1
    /\ UNCHANGED <<purge_boundary, hard_state, up, last_index, writing, crashes>>

(* Mutant: last_index is not zeroed *)
ResetKeepsLast ==
    /\ Quiescent
    /\ log_db' = Only(log_db, {})
    /\ cutting' = [pc |-> "committed", last |-> last_index]
    /\ mem' = Only(mem, {})
    /\ acked' = {}
    /\ UNCHANGED <<purge_boundary, hard_state, up, last_index, writing, crashes>>

(* reset: the log database is cleared; boundary and hard state stay *)
ResetCommit ==
    /\ Quiescent
    /\ log_db' = Only(log_db, {})
    /\ cutting' = [pc |-> "committed", last |-> 0]
    /\ mem' = Only(mem, {})
    /\ acked' = {}
    /\ UNCHANGED <<purge_boundary, hard_state, up, last_index, writing, crashes>>

(* Mutant: the new tail is not stored *)
CutReturnNoStore ==
    /\ cutting.pc = "committed"
    /\ cutting' = NoCut
    /\ UNCHANGED <<durable, up, last_index, writing, mem, acked, crashes>>

(* truncate and reset end with a store of last_index *)
CutReturn ==
    /\ cutting.pc = "committed"
    /\ last_index' = cutting.last
    /\ cutting' = NoCut
    /\ UNCHANGED <<durable, up, writing, mem, acked, crashes>>

(* save_hard_state; the engine's term only grows *)
SaveHardState(term) ==
    /\ up /\ term > hard_state
    /\ hard_state' = term
    /\ UNCHANGED <<log_db, purge_boundary, up, last_index, writing, cutting, mem, acked, crashes>>

(* The process dies: the transactions that committed are durable, nothing else *)
Crash ==
    /\ up /\ crashes < MaxCrashes
    /\ crashes' = crashes + 1
    /\ up' = FALSE /\ last_index' = 0 /\ mem' = log_db
    /\ writing' = [w \in Writers |-> NoWrite] /\ cutting' = NoCut
    /\ UNCHANGED <<durable, acked>>

Next ==
    \/ New \/ Crash
    \/ \E w \in Writers, n \in 1 .. 2, term \in Terms : Enqueue(w, n, term)
    \/ \E w \in Writers : PersistCommit(w) \/ PersistReturn(w)
    \/ \E cutoff \in Indexes : Purge(cutoff)
    \/ \E from \in Indexes : TruncateCommit(from)
    \/ ResetCommit \/ CutReturn
    \/ \E term \in Terms : SaveHardState(term)

Spec == Init /\ [][Next]_vars

-----------------------------------------------------------------------------
(* Properties *)

(* When no call is in progress, the stored log is the engine's log, entry  *)
(* by entry, whatever was overwritten, truncated and purged before.        *)
Faithful == Quiescent => log_db = mem

(* An entry whose persist_entries returned is in the log database, across  *)
(* crashes, and last_index counts it, whatever order the flush workers'    *)
(* commits and fetch_max steps came in.                                    *)
AckedVisible ==
    \A i \in acked :
        /\ i \in DOMAIN log_db
        /\ up /\ cutting.pc = "idle" => i <= last_index

(* last_index never counts an entry that a restart would not find          *)
(* ("LMDB commits are crash-safe", is_write_durable).                      *)
NeverAhead ==
    up /\ cutting.pc = "idle" => last_index <= Larger(LastKey(log_db), purge_boundary)

(* The log end the engine sees (last_index or the purge boundary) is the   *)
(* one it would see after a restart, although purge does not touch         *)
(* last_index and new() knows nothing of a log that was purged entirely.   *)
RestartAgrees ==
    Quiescent => Larger(last_index, purge_boundary) = Larger(LastKey(log_db), purge_boundary)
-----------------------------------------------------------------------------
(* The inductive invariant *)

(* Indexes a worker has committed and not yet counted *)
Uncounted(w) == IF writing[w].pc = "committed" THEN writing[w].batch ELSE {}

(* Indexes a worker has still to commit *)
Queued(w) == IF writing[w].pc = "queued" THEN writing[w].batch ELSE {}

(* A closed log store has no call in progress and no view of its own *)
ClosedOK == ~up => Flushed /\ cutting = NoCut /\ mem = log_db

(* Batches in flight are stretches of the log in memory, and do not overlap *)
BatchesOK ==
    /\ \A w \in Writers : writing[w].pc = "idle" => writing[w] = NoWrite
    /\ \A w \in Writers : \A i \in writing[w].batch : i \in DOMAIN mem /\ mem[i] = writing[w].term
    /\ \A w \in Writers : writing[w].pc # "idle" => writing[w].batch # {}
    /\ \A v, w \in Writers : v # w => writing[v].batch \cap writing[w].batch = {}

(* The stored log is the log in memory less what is queued *)
StoredOK ==
    /\ \A i \in Indexes : i \in DOMAIN log_db
          <=> i \in DOMAIN mem /\ \A w \in Writers : i \notin Queued(w)
    /\ \A i \in DOMAIN log_db : log_db[i] = mem[i]

(* What was acknowledged is stored, and no call in progress is about it *)
AckedOK ==
    /\ acked \subseteq DOMAIN log_db
    /\ \A w \in Writers : writing[w].batch \cap acked = {}

(* Nothing at or below the boundary is left *)
PurgedOK == \A i \in DOMAIN mem : i > purge_boundary

(* A cut is made alone, and has read the end of what it left *)
CutOK ==
    cutting.pc = "committed" =>
        /\ up /\ Flushed
        /\ cutting.last = LastKey(log_db)

(* last_index counts every stored entry but those a worker has yet to count, *)
(* and none that is neither stored nor purged                                *)
CountedOK ==
    up /\ cutting.pc = "idle" =>
        /\ \A i \in DOMAIN log_db : i <= last_index \/ \E w \in Writers : i \in Uncounted(w)
        /\ last_index <= purge_boundary \/ \E i \in DOMAIN log_db : last_index <= i

(* Calls in flight, the stored log, last_index and the engine's log in      *)
(* memory account for each other.                                           *)
WalInv == TypeOK /\ ClosedOK /\ BatchesOK /\ StoredOK /\ AckedOK /\ PurgedOK /\ CutOK /\ CountedOK
=============================================================================
