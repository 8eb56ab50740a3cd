--------------------------- MODULE DataDir_proofs ---------------------------
(***************************************************************************)
(* Proofs about DataDir: the lock keeps the directory to one handle at a   *)
(* time, for any number of handles.                                        *)
(***************************************************************************)
EXTENDS DataDir, TLAPS

(* The inductive invariant holds at first *)
LEMMA DirInitially == DirInit => DirInv
BY HandlesAssumption DEF DirInit, DirInv, DirTypeOK, Stages, Parts

(* and every step keeps it *)
LEMMA DirInductive == DirInv /\ [DirNext]_dir => DirInv'
<1> SUFFICES ASSUME DirInv, [DirNext]_dir PROVE DirInv'
    OBVIOUS
<1> USE HandlesAssumption DEF DirInv, DirTypeOK, Stages, Parts
<1>1. ASSUME NEW h \in Handles, Acquire(h) PROVE DirInv'
    BY <1>1 DEF Acquire
<1>2. ASSUME NEW h \in Handles, OpenLog(h) PROVE DirInv'
    BY <1>2 DEF OpenLog
<1>3. ASSUME NEW h \in Handles, OpenStore(h) PROVE DirInv'
    BY <1>3 DEF OpenStore
<1>4. ASSUME NEW h \in Handles, StartEngine(h) PROVE DirInv'
    BY <1>4 DEF StartEngine
<1>5. ASSUME NEW h \in Handles, OpenFails(h) PROVE DirInv'
    BY <1>5 DEF OpenFails
<1>6. ASSUME NEW h \in Handles, Close(h) PROVE DirInv'
    BY <1>6 DEF Close
<1>7. ASSUME NEW h \in Handles, Stopped(h) PROVE DirInv'
    BY <1>7 DEF Stopped
<1>8. ASSUME NEW h \in Handles, Drop(h) PROVE DirInv'
    BY <1>8 DEF Drop
<1>9. ASSUME NEW h \in Handles, DropParts(h) PROVE DirInv'
    BY <1>9 DEF DropParts
<1>10. ASSUME NEW h \in Handles, Unlock(h) PROVE DirInv'
    BY <1>10 DEF Unlock
<1>11. ASSUME NEW h \in Handles, TasksEnd(h) PROVE DirInv'
    BY <1>11 DEF TasksEnd
<1>12. ASSUME NEW h \in Handles, Exit(h) PROVE DirInv'
    BY <1>12 DEF Exit
<1>13. CASE UNCHANGED dir
    BY <1>13 DEF dir
<1> QED
    BY <1>1, <1>2, <1>3, <1>4, <1>5, <1>6, <1>7, <1>8, <1>9, <1>10, <1>11, <1>12, <1>13
    DEF DirNext

(* Whoever has something open in the directory has the lock, or was dropped *)
LEMMA DirExclusive == DirInv => Exclusive
BY DEF DirInv, Exclusive

(* Each step of a handle is a step of ExclusiveUse or leaves users alone *)
LEMMA UsersStep == DirInv /\ DirInv' /\ [DirNext]_dir => [Abstract!Next]_Users
<1> SUFFICES ASSUME DirInv, DirInv', [DirNext]_dir PROVE [Abstract!Next]_Users
    OBVIOUS
<1> USE HandlesAssumption DEF DirInv, DirTypeOK, Users
<1>1. ASSUME NEW h \in Handles, OpenLog(h) PROVE Abstract!Enter(h)
    BY <1>1 DEF OpenLog, Abstract!Enter
<1>2. ASSUME NEW h \in Handles, Exit(h) PROVE Abstract!Leave(h) \/ Users' = Users
    BY <1>2 DEF Exit, Abstract!Leave
<1>3. ASSUME NEW h \in Handles, DropParts(h) PROVE Abstract!Leave(h) \/ Users' = Users
    BY <1>3 DEF DropParts, Abstract!Leave
<1>4. ASSUME NEW h \in Handles, Unlock(h) PROVE Abstract!Leave(h) \/ Users' = Users
    BY <1>4 DEF Unlock, Abstract!Leave
<1>5. ASSUME NEW h \in Handles, TasksEnd(h) PROVE Abstract!Leave(h) \/ Users' = Users
    BY <1>5 DEF TasksEnd, Abstract!Leave
<1>6. ASSUME NEW h \in Handles, Acquire(h) \/ OpenFails(h) \/ Close(h) \/ Drop(h)
      PROVE  Users' = Users
    BY <1>6 DEF Acquire, OpenFails, Close, Drop
<1>7. ASSUME NEW h \in Handles, OpenStore(h) \/ StartEngine(h) PROVE Users' = Users
    BY <1>7 DEF OpenStore, StartEngine, Parts
<1>8. ASSUME NEW h \in Handles, Stopped(h) PROVE Users' = Users
    BY <1>8 DEF Stopped, Parts
<1>9. CASE UNCHANGED dir
    BY <1>9 DEF dir
<1> QED
    BY <1>1, <1>2, <1>3, <1>4, <1>5, <1>6, <1>7, <1>8, <1>9 DEF DirNext, Abstract!Next

(* Two handles have something open in data_dir at once only when one was    *)
(* dropped, not closed, and left tasks behind (DataDirLock::acquire, `?` in *)
(* open, the field order of DLmdb).                                         *)
THEOREM ExclusiveUseOfDir == DirSpec => []Exclusive
<1>1. DirSpec => []DirInv
    BY DirInitially, DirInductive, PTL DEF DirSpec
<1> QED
    BY <1>1, DirExclusive, PTL

(* The handles of a directory implement ExclusiveUse.                       *)
THEOREM ImplementsExclusiveUse == DirSpec => OneAtATime
<1>1. DirInit => Abstract!Init
    BY DEF DirInit, Abstract!Init, Users
<1>2. DirSpec => []DirInv
    BY DirInitially, DirInductive, PTL DEF DirSpec
<1> QED
    BY <1>1, <1>2, UsersStep, PTL DEF DirSpec, OneAtATime, Abstract!Spec
=============================================================================
