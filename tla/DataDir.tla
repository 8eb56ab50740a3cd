------------------------------ MODULE DataDir ------------------------------
(***************************************************************************)
(* Opening and closing DLmdb handles on one data_dir: DataDirLock          *)
(* (lock.rs), DLmdb::open, open_from_file and close, and the order in      *)
(* which a handle's fields are dropped (db.rs).  A handle is the one of    *)
(* its process.                                                            *)
(*                                                                         *)
(* External: the file lock goes with the file it is on, or the process;    *)
(* the engine's tasks share the storage engine and the state machine with  *)
(* the handle, so both stay open until the tasks have ended; stop() ends   *)
(* the tasks, and an engine that is dropped, or whose stop() fails, may    *)
(* leave them running.                                                     *)
(***************************************************************************)
CONSTANTS
    Handles,
    NoHandle        \* stands for "no handle"

ASSUME HandlesAssumption == NoHandle \notin Handles

VARIABLES
    lock,           \* the handle whose DataDirLock holds the lock, or NoHandle
    pc,             \* per handle: where it is
    parts,          \* per handle: what it or its tasks have open
    dropped         \* ghost: handles that were dropped with tasks that have not ended

dir == <<lock, pc, parts, dropped>>

-----------------------------------------------------------------------------
Parts == {"raft", "lmdb", "engine"}

Stages == {"none", "opening", "open", "stopping", "dropping", "unlocking"}

DirTypeOK ==
    /\ lock \in Handles \cup {NoHandle}
    /\ pc \in [Handles -> Stages]
    /\ parts \in [Handles -> SUBSET Parts]
    /\ dropped \subseteq Handles

DirInit ==
    /\ lock = NoHandle
    /\ pc = [h \in Handles |-> "none"]
    /\ parts = [h \in Handles |-> {}]
    /\ dropped = {}

(* Mutant: try_lock's answer is ignored *)
AcquireShared(h) ==
    /\ pc[h] = "none" /\ parts[h] = {}
    /\ lock' = h
    /\ pc' = [pc EXCEPT ![h] = "opening"]
    /\ UNCHANGED <<parts, dropped>>

(* DataDirLock::acquire; when another holds the lock, open returns an error at once *)
Acquire(h) ==
    /\ pc[h] = "none" /\ parts[h] = {}
    /\ lock = NoHandle
    /\ lock' = h
    /\ pc' = [pc EXCEPT ![h] = "opening"]
    /\ UNCHANGED <<parts, dropped>>

(* LmdbStorageEngine::new *)
OpenLog(h) ==
    /\ pc[h] = "opening" /\ parts[h] = {}
    /\ parts' = [parts EXCEPT ![h] = {"raft"}]
    /\ UNCHANGED <<lock, pc, dropped>>

(* LmdbStateMachine::new *)
OpenStore(h) ==
    /\ pc[h] = "opening" /\ parts[h] = {"raft"}
    /\ parts' = [parts EXCEPT ![h] = {"raft", "lmdb"}]
    /\ UNCHANGED <<lock, pc, dropped>>

(* EmbeddedEngine::start_node or start_custom, then Ok(Self { .. }) *)
StartEngine(h) ==
    /\ pc[h] = "opening" /\ parts[h] = {"raft", "lmdb"}
    /\ parts' = [parts EXCEPT ![h] = Parts]
    /\ pc' = [pc EXCEPT ![h] = "open"]
    /\ UNCHANGED <<lock, dropped>>

(* A `?` of open after the lock: the locals go, the lock last of them *)
OpenFails(h) ==
    /\ pc[h] = "opening"
    /\ pc' = [pc EXCEPT ![h] = "dropping"]
    /\ UNCHANGED <<lock, parts, dropped>>

(* close: inner.stop().await *)
Close(h) ==
    /\ pc[h] = "open"
    /\ pc' = [pc EXCEPT ![h] = "stopping"]
    /\ UNCHANGED <<lock, parts, dropped>>

(* Mutant: _data_dir_lock is the first field *)
StoppedUnlocks(h) ==
    /\ pc[h] = "stopping"
    /\ pc' = [pc EXCEPT ![h] = "dropping"]
    /\ parts' = [parts EXCEPT ![h] = @ \ {"engine"}]
    /\ lock' = NoHandle
    /\ UNCHANGED dropped

(* stop() returns Ok, its tasks have ended; close drops self *)
Stopped(h) ==
    /\ pc[h] = "stopping"
    /\ pc' = [pc EXCEPT ![h] = "dropping"]
    /\ parts' = [parts EXCEPT ![h] = @ \ {"engine"}]
    /\ UNCHANGED <<lock, dropped>>

(* The handle is dropped instead, or stop() fails: tasks may go on *)
Drop(h) ==
    /\ pc[h] \in {"open", "stopping"}
    /\ pc' = [pc EXCEPT ![h] = "dropping"]
    /\ dropped' = dropped \cup {h}
    /\ UNCHANGED <<lock, parts>>

(* The fields inner and state_machine go; with tasks left they stay open *)
DropParts(h) ==
    /\ pc[h] = "dropping"
    /\ pc' = [pc EXCEPT ![h] = "unlocking"]
    /\ parts' = [parts EXCEPT ![h] = IF "engine" \in @ THEN @ ELSE {}]
    /\ UNCHANGED <<lock, dropped>>

(* The field _data_dir_lock goes, last of the three *)
Unlock(h) ==
    /\ pc[h] = "unlocking"
    /\ pc' = [pc EXCEPT ![h] = "none"]
    /\ lock' = NoHandle
    /\ UNCHANGED <<parts, dropped>>

(* External: the tasks of a dropped handle end, and let go of what they shared *)
TasksEnd(h) ==
    /\ h \in dropped
    /\ parts' = [parts EXCEPT ![h] = IF pc[h] = "dropping" THEN @ \ {"engine"} ELSE {}]
    /\ dropped' = dropped \ {h}
    /\ UNCHANGED <<lock, pc>>

(* The process dies; the operating system closes the lock file *)
Exit(h) ==
    /\ pc[h] # "none" \/ parts[h] # {}
    /\ pc' = [pc EXCEPT ![h] = "none"]
    /\ parts' = [parts EXCEPT ![h] = {}]
    /\ dropped' = dropped \ {h}
    /\ lock' = IF lock = h THEN NoHandle ELSE lock

DirNext ==
    \E h \in Handles :
        \/ Acquire(h) \/ OpenLog(h) \/ OpenStore(h) \/ StartEngine(h) \/ OpenFails(h)
        \/ Close(h) \/ Stopped(h) \/ Drop(h) \/ DropParts(h) \/ Unlock(h)
        \/ TasksEnd(h) \/ Exit(h)

DirSpec == DirInit /\ [][DirNext]_dir

-----------------------------------------------------------------------------
(* Properties *)

(* "Two processes must not both be able to touch the same data_dir at once" *)
(* (lock_test.rs), whatever fails on the way in or out: two handles have    *)
(* something open in it only when one of them was dropped, not closed, and  *)
(* its engine's tasks have not ended.                                       *)
Exclusive ==
    \A g, h \in Handles :
        g # h /\ parts[g] # {} /\ parts[h] # {} => g \in dropped \/ h \in dropped

(* The handles that use the directory and have not been let go of *)
Users == {h \in Handles : pc[h] # "none" /\ parts[h] # {}}

Abstract == INSTANCE ExclusiveUse WITH users <- Users

(* Handles implement ExclusiveUse: a handle enters with its first           *)
(* environment, and only when nobody is in; it has left before the lock is  *)
(* free for the next (field order of DLmdb, declaration order in open).     *)
OneAtATime == Abstract!Spec

(* Inductive: the lock is with the handle that is on its way, and whatever  *)
(* is open outside the lock belongs to tasks that were left running.        *)
DirInv ==
    /\ DirTypeOK
    /\ \A h \in Handles : pc[h] # "none" <=> lock = h
    /\ \A h \in Handles : pc[h] \in {"none", "unlocking"} /\ parts[h] # {} => h \in dropped
    /\ \A h \in Handles : pc[h] \in {"open", "stopping"} => parts[h] = Parts
    /\ \A h \in dropped : parts[h] = Parts /\ pc[h] \in {"none", "dropping", "unlocking"}
    /\ \A h \in Handles : "engine" \in parts[h] => pc[h] \in {"open", "stopping"} \/ h \in dropped
=============================================================================
