--------------------------- MODULE LmdbWal_proofs ---------------------------
(***************************************************************************)
(* Proofs about LmdbWal, for any number of flush workers, indexes, terms   *)
(* and crashes.                                                            *)
(***************************************************************************)
EXTENDS LmdbWal, WellFoundedInduction, TLAPS

(* A set of indexes that is not empty has a greatest member *)
LEMMA GreatestExists ==
    ASSUME NEW S \in SUBSET Indexes, S # {}
    PROVE  \E i \in S : \A j \in S : j <= i
<1> DEFINE T == {MaxIndex - i : i \in S}
           R == OpToRel(<, Nat)
<1>1. MaxIndex \in Nat /\ \A i \in S : i \in 1 .. MaxIndex
    BY WalAssumption DEF Indexes
<1>2. T \subseteq Nat /\ T # {}
    BY <1>1
<1>3. PICK x \in T : \A y \in T : ~ (<<y, x>> \in R)
  <2> HIDE DEF T, R
  <2>1. IsWellFoundedOn(R, Nat)
    BY NatLessThanWellFounded DEF R
  <2> QED
    BY <1>2, <2>1, WFMin
<1>4. \A y \in T : ~ (y < x)
    BY <1>2, <1>3 DEF OpToRel
<1>5. PICK i \in S : x = MaxIndex - i
    BY DEF T
<1>6. \A j \in S : MaxIndex - j \in T
    OBVIOUS
<1>7. \A j \in S : j <= i
  <2> HIDE DEF T
  <2> QED
    BY <1>1, <1>4, <1>5, <1>6
<1> QED
    BY <1>7

(* What LastOf returns *)
LEMMA LastOfGreatest ==
    ASSUME NEW S \in SUBSET Indexes
    PROVE  /\ S = {} => LastOf(S) = 0
           /\ S # {} => LastOf(S) \in S
           /\ \A j \in S : j <= LastOf(S)
           /\ LastOf(S) \in 0 .. MaxIndex
<1>1. CASE S = {}
    BY <1>1, WalAssumption DEF LastOf
<1>2. CASE S # {}
  <2>1. \E i \in S : \A j \in S : j <= i
    BY <1>2, GreatestExists
  <2>2. LastOf(S) = CHOOSE i \in S : \A j \in S : j <= i
    BY <1>2 DEF LastOf
  <2>3. LastOf(S) \in S /\ \A j \in S : j <= LastOf(S)
    BY <2>1, <2>2, Zenon
  <2> DEFINE last == LastOf(S)
  <2>4. last \in 1 .. MaxIndex
    BY <2>3, Zenon DEF Indexes
  <2>5. last \in 0 .. MaxIndex
    <3> HIDE DEF last
    <3> QED  BY <2>4, WalAssumption
  <2> QED
    BY <1>2, <2>3, <2>5
<1> QED
    BY <1>1, <1>2

(* A log is a function from indexes to terms *)
LEMMA LogsMember ==
    ASSUME NEW S \in SUBSET Indexes, NEW f \in [S -> Terms]
    PROVE  f \in Logs
BY DEF Logs

LEMMA LogsParts ==
    ASSUME NEW f \in Logs
    PROVE  /\ DOMAIN f \in SUBSET Indexes
           /\ f \in [DOMAIN f -> Terms]
BY DEF Logs

LEMMA OnlyLog ==
    ASSUME NEW f \in Logs, NEW S
    PROVE  /\ Only(f, S) \in Logs
           /\ DOMAIN Only(f, S) = DOMAIN f \cap S
<1>1. DOMAIN f \cap S \in SUBSET Indexes /\ Only(f, S) \in [DOMAIN f \cap S -> Terms]
    BY LogsParts DEF Only
<1> QED
    BY <1>1, LogsMember DEF Only

LEMMA OverLog ==
    ASSUME NEW f \in Logs, NEW S \in SUBSET Indexes, NEW t \in Terms
    PROVE  /\ Over(f, S, t) \in Logs
           /\ DOMAIN Over(f, S, t) = DOMAIN f \cup S
           /\ \A i \in S : Over(f, S, t)[i] = t
<1>1. DOMAIN f \cup S \in SUBSET Indexes /\ Over(f, S, t) \in [DOMAIN f \cup S -> Terms]
    BY LogsParts DEF Over
<1> QED
    BY <1>1, LogsMember DEF Over

(* Logs that agree everywhere are the same *)
LEMMA LogsEqual ==
    ASSUME NEW f \in Logs, NEW g \in Logs,
           DOMAIN f = DOMAIN g, \A i \in DOMAIN f : f[i] = g[i]
    PROVE  f = g
BY LogsParts

(* The end of a stored log *)
LEMMA LastKeyGreatest ==
    ASSUME NEW f \in Logs
    PROVE  /\ DOMAIN f = {} => LastKey(f) = 0
           /\ DOMAIN f # {} => LastKey(f) \in DOMAIN f
           /\ \A j \in DOMAIN f : j <= LastKey(f)
           /\ LastKey(f) \in 0 .. MaxIndex
BY LogsParts, LastOfGreatest DEF LastKey

(* New entries go beyond everything the engine has *)
LEMMA TailBeyond ==
    ASSUME TypeOK
    PROVE  /\ Tail \in 0 .. MaxIndex /\ Tail >= purge_boundary
           /\ \A i \in DOMAIN mem : i <= Tail
<1>1. mem \in Logs /\ purge_boundary \in 0 .. MaxIndex
    BY DEF TypeOK
<1>2. \A i \in DOMAIN mem : i \in 1 .. MaxIndex
    BY <1>1, LogsParts DEF Indexes
<1> DEFINE k == LastKey(mem)
<1>3. k \in 0 .. MaxIndex /\ \A i \in DOMAIN mem : i <= k
    BY <1>1, LastKeyGreatest
<1> HIDE DEF k
<1>4. Tail = Larger(k, purge_boundary)
    BY DEF Tail, k
<1> QED
    BY <1>1, <1>2, <1>3, <1>4, WalAssumption DEF Larger
(* A call in progress means an open log store that is not being cut; its    *)
(* batch is of one term and in the log in memory                           *)
LEMMA CallInProgress ==
    ASSUME WalInv, NEW w \in Writers, writing[w].pc # "idle"
    PROVE  /\ up /\ cutting.pc = "idle"
           /\ writing[w].batch \in SUBSET Indexes /\ writing[w].batch \subseteq DOMAIN mem
           /\ writing[w].batch # {} /\ writing[w].term \in Terms
<1>1. up /\ cutting.pc = "idle"
    BY DEF WalInv, TypeOK, ClosedOK, CutOK, Flushed
<1>2. /\ writing[w].batch \in SUBSET Indexes /\ writing[w].batch # {}
      /\ \A i \in writing[w].batch : i \in DOMAIN mem /\ mem[i] = writing[w].term
    BY DEF WalInv, TypeOK, BatchesOK
<1>3. mem \in [DOMAIN mem -> Terms]
    BY LogsParts DEF WalInv, TypeOK
<1> QED
    BY <1>1, <1>2, <1>3

(* Nothing is stored that is not in memory *)
LEMMA StoredInMemory ==
    ASSUME WalInv
    PROVE  /\ log_db \in Logs /\ mem \in Logs
           /\ DOMAIN log_db \subseteq DOMAIN mem /\ DOMAIN mem \subseteq Indexes
BY LogsParts DEF WalInv, TypeOK, StoredOK
-----------------------------------------------------------------------------
(* Each step preserves WalInv *)

LEMMA WalInitOK == Init => WalInv
<1> SUFFICES ASSUME Init PROVE WalInv
    OBVIOUS
<1>1. log_db = [i \in {} |-> 0] /\ mem = log_db /\ DOMAIN log_db = {}
    BY DEF Init, Only
<1>2. log_db \in Logs
  <2>1. [i \in {} |-> 0] \in [{} -> Terms]
    OBVIOUS
  <2> QED
    BY <1>1, <2>1, LogsMember
<1>3. TypeOK
  <2>1. NoWrite \in [pc : {"idle", "queued", "committed"}, batch : SUBSET Indexes, term : 0 .. MaxTerm]
    BY WalAssumption DEF NoWrite
  <2>2. cutting \in [pc : {"idle", "committed"}, last : 0 .. MaxIndex]
    BY WalAssumption DEF NoCut, Init
  <2>3. writing \in [Writers -> [pc : {"idle", "queued", "committed"},
                                 batch : SUBSET Indexes, term : 0 .. MaxTerm]]
    BY <2>1, Zenon DEF Init
  <2>4. /\ purge_boundary \in 0 .. MaxIndex /\ hard_state \in 0 .. MaxTerm
        /\ last_index \in 0 .. MaxIndex /\ crashes \in 0 .. MaxCrashes
    BY WalAssumption DEF Init
  <2>5. up \in BOOLEAN /\ acked \subseteq Indexes
    BY DEF Init
  <2> QED
    BY <1>1, <1>2, <2>2, <2>3, <2>4, <2>5, Zenon DEF TypeOK
<1> QED
    BY <1>1, <1>3 DEF WalInv, Init, ClosedOK, BatchesOK, StoredOK, AckedOK, PurgedOK, CutOK, CountedOK,
                      Flushed, NoWrite, NoCut, Queued, Uncounted

LEMMA NewStep == WalInv /\ New => WalInv'
<1> SUFFICES ASSUME WalInv, New PROVE WalInv'
    OBVIOUS
<1> USE DEF New, durable
<1> DEFINE k == LastKey(log_db)
<1>1. /\ TypeOK /\ mem = log_db /\ mem' = mem /\ Flushed /\ cutting = NoCut
      /\ \A w \in Writers : writing[w] = NoWrite
    BY DEF WalInv, ClosedOK, BatchesOK, Flushed
<1>2. /\ k \in 0 .. MaxIndex /\ \A j \in DOMAIN log_db : j <= k
      /\ DOMAIN log_db = {} => k = 0
      /\ DOMAIN log_db # {} => k \in DOMAIN log_db
    BY <1>1, LastKeyGreatest DEF TypeOK
<1>3. last_index' = k
    OBVIOUS
<1> HIDE DEF k
<1>4. TypeOK'
    BY <1>1, <1>2, <1>3 DEF TypeOK
<1>5. CountedOK'
  <2>1. purge_boundary' = purge_boundary /\ log_db' = log_db
    OBVIOUS
  <2>2. k <= purge_boundary \/ \E i \in DOMAIN log_db : k <= i
    <3>1. purge_boundary \in Nat /\ k \in Nat
      BY <1>1, <1>2, WalAssumption DEF TypeOK
    <3> QED
      BY <1>2, <3>1
  <2> QED
    BY <1>2, <1>3, <2>1, <2>2 DEF CountedOK
<1>6. (ClosedOK /\ BatchesOK /\ StoredOK /\ AckedOK /\ PurgedOK /\ CutOK)'
    BY <1>1 DEF WalInv, ClosedOK, BatchesOK, StoredOK, AckedOK, PurgedOK, CutOK, Flushed, Queued, NoCut
<1> QED
    BY <1>4, <1>5, <1>6 DEF WalInv

LEMMA EnqueueStep ==
    ASSUME NEW w \in Writers, NEW n \in 1 .. 2, NEW term \in Terms, WalInv, Enqueue(w, n, term)
    PROVE  WalInv'
<1> DEFINE batch == Tail + 1 .. Tail + n
           call == [pc |-> "queued", batch |-> batch, term |-> term]
<1>1. TypeOK /\ mem \in Logs /\ log_db \in Logs
    BY DEF WalInv, TypeOK
<1>2. /\ up /\ cutting.pc = "idle" /\ writing[w].pc = "idle"
      /\ mem' = Over(mem, batch, term) /\ writing' = [writing EXCEPT ![w] = call]
      /\ UNCHANGED <<durable, up, last_index, cutting, acked, crashes>>
    BY DEF Enqueue
<1>3. batch \in SUBSET Indexes /\ batch # {}
      /\ \A i \in batch : i > purge_boundary /\ i \notin DOMAIN mem
  <2>1. Tail \in 0 .. MaxIndex /\ Tail >= purge_boundary /\ \A i \in DOMAIN mem : i <= Tail
    BY <1>1, TailBeyond
  <2>2. Tail + n <= MaxIndex
    BY DEF Enqueue
  <2>3. DOMAIN mem \in SUBSET Indexes /\ purge_boundary \in 0 .. MaxIndex
    BY <1>1, LogsParts DEF TypeOK
  <2> DEFINE t == Tail
  <2>4. batch = t + 1 .. t + n
    OBVIOUS
  <2>5. t \in 0 .. MaxIndex /\ t >= purge_boundary /\ t + n <= MaxIndex /\ \A i \in DOMAIN mem : i <= t
    BY <2>1, <2>2
  <2> HIDE DEF batch, t
  <2>6. t + 1 \in batch
    BY <2>4, <2>5
  <2>7. \A i \in batch : i \in Nat /\ i > t /\ i <= MaxIndex
    BY <2>4, <2>5, WalAssumption
  <2>8. batch \in SUBSET Indexes
    BY <2>5, <2>7, WalAssumption DEF Indexes
  <2> QED
    BY <2>3, <2>5, <2>6, <2>7, <2>8, WalAssumption DEF Indexes
<1> HIDE DEF batch
<1>4. /\ mem' \in Logs /\ DOMAIN mem' = DOMAIN mem \cup batch
      /\ \A i \in batch : mem'[i] = term
      /\ \A i \in DOMAIN mem : mem'[i] = mem[i]
  <2>1. /\ Over(mem, batch, term) \in Logs /\ DOMAIN Over(mem, batch, term) = DOMAIN mem \cup batch
        /\ \A i \in batch : Over(mem, batch, term)[i] = term
    BY <1>1, <1>3, OverLog
  <2>3. \A i \in DOMAIN mem : i \notin batch => Over(mem, batch, term)[i] = mem[i]
    BY DEF Over
  <2>2. mem' = Over(mem, batch, term)
    BY <1>2
  <2> QED
    BY <1>3, <2>1, <2>2, <2>3
<1>5. /\ writing[w] = NoWrite /\ writing'[w] = call
      /\ \A v \in Writers \ {w} : writing'[v] = writing[v]
      /\ \A v \in Writers : writing[v].batch \subseteq DOMAIN mem
    BY <1>1, <1>2 DEF WalInv, TypeOK, BatchesOK
<1>6. TypeOK'
  <2>1. call \in [pc : {"idle", "queued", "committed"}, batch : SUBSET Indexes, term : 0 .. MaxTerm]
    BY <1>3, WalAssumption DEF Terms
  <2>2. writing' \in [Writers -> [pc : {"idle", "queued", "committed"},
                                  batch : SUBSET Indexes, term : 0 .. MaxTerm]]
    BY <1>1, <1>2, <2>1 DEF TypeOK
  <2> QED
    BY <1>1, <1>2, <1>4, <2>2 DEF TypeOK, durable
<1>7. BatchesOK'
  <2>1. \A v \in Writers : writing'[v].pc = "idle" => writing'[v] = NoWrite
    BY <1>5 DEF WalInv, BatchesOK
  <2>2. \A v \in Writers : \A i \in writing'[v].batch : i \in DOMAIN mem' /\ mem'[i] = writing'[v].term
    BY <1>4, <1>5 DEF WalInv, BatchesOK
  <2>3. \A v \in Writers : writing'[v].pc # "idle" => writing'[v].batch # {}
    BY <1>3, <1>5 DEF WalInv, BatchesOK
  <2>4. \A u, v \in Writers : u # v => writing'[u].batch \cap writing'[v].batch = {}
    BY <1>3, <1>5 DEF WalInv, BatchesOK
  <2> QED
    BY <2>1, <2>2, <2>3, <2>4 DEF BatchesOK
<1>8. StoredOK'
  <2>1. /\ Queued(w) = {} /\ Queued(w)' = batch
        /\ \A v \in Writers \ {w} : Queued(v)' = Queued(v)
    BY <1>5 DEF Queued, NoWrite
  <2>2. log_db' = log_db /\ acked' = acked /\ DOMAIN log_db \subseteq DOMAIN mem
    BY <1>1, <1>2, LogsParts DEF WalInv, StoredOK, durable
  <2> HIDE DEF call
  <2>3. \A i \in Indexes : i \in DOMAIN log_db'
          <=> i \in DOMAIN mem' /\ \A v \in Writers : i \notin Queued(v)'
    BY <1>3, <1>4, <2>1, <2>2 DEF WalInv, StoredOK
  <2>4. \A i \in DOMAIN log_db' : log_db'[i] = mem'[i]
    BY <1>4, <2>2 DEF WalInv, StoredOK
  <2> QED
    BY <2>3, <2>4 DEF StoredOK
<1>9. AckedOK'
  <2>1. acked' = acked /\ log_db' = log_db /\ acked \subseteq DOMAIN mem
    BY <1>1, <1>2, LogsParts DEF WalInv, AckedOK, StoredOK, durable
  <2> QED
    BY <1>3, <1>5, <2>1 DEF WalInv, AckedOK
<1>10. PurgedOK'
    BY <1>2, <1>3, <1>4 DEF WalInv, PurgedOK, durable
<1>11. CountedOK'
  <2>1. \A v \in Writers : Uncounted(v)' = Uncounted(v)
    BY <1>5 DEF Uncounted, NoWrite
  <2> QED
    BY <1>2, <2>1 DEF WalInv, CountedOK, durable
<1>12. (ClosedOK /\ CutOK)'
    BY <1>2 DEF ClosedOK, CutOK
<1> QED
    BY <1>6, <1>7, <1>8, <1>10, <1>11, <1>12, <1>9 DEF WalInv

LEMMA PersistCommitStep ==
    ASSUME NEW w \in Writers, WalInv, PersistCommit(w)
    PROVE  WalInv'
<1> DEFINE batch == writing[w].batch
           term == writing[w].term
<1>1. /\ writing[w].pc = "queued" /\ log_db' = Over(log_db, batch, term)
      /\ writing' = [writing EXCEPT ![w].pc = "committed"]
      /\ UNCHANGED <<purge_boundary, hard_state, up, last_index, cutting, mem, acked, crashes>>
    BY DEF PersistCommit
<1>2. /\ up /\ cutting.pc = "idle" /\ batch \in SUBSET Indexes /\ batch \subseteq DOMAIN mem
      /\ batch # {} /\ term \in Terms
    BY <1>1, CallInProgress
<1>3. log_db \in Logs /\ DOMAIN log_db \subseteq Indexes /\ DOMAIN log_db \subseteq DOMAIN mem
    BY StoredInMemory
<1>4. /\ writing'[w].pc = "committed" /\ writing'[w].batch = batch /\ writing'[w].term = term
      /\ \A v \in Writers \ {w} : writing'[v] = writing[v]
      /\ \A v \in Writers : writing'[v].batch = writing[v].batch /\ writing'[v].term = writing[v].term
    BY <1>1 DEF WalInv, TypeOK
<1>5. /\ \A i \in batch : mem[i] = term
      /\ \A v \in Writers \ {w} : writing[v].batch \cap batch = {}
    BY DEF WalInv, BatchesOK
<1>6. writing' \in [Writers -> [pc : {"idle", "queued", "committed"},
                                batch : SUBSET Indexes, term : 0 .. MaxTerm]]
    BY <1>1 DEF WalInv, TypeOK
<1>7. /\ Queued(w) = batch /\ Queued(w)' = {} /\ Uncounted(w) = {} /\ Uncounted(w)' = batch
      /\ \A v \in Writers \ {w} : Queued(v)' = Queued(v) /\ Uncounted(v)' = Uncounted(v)
      /\ \A v \in Writers \ {w} : Queued(v) \cap batch = {}
    BY <1>1, <1>4, <1>5 DEF Queued, Uncounted
<1> HIDE DEF batch, term
<1>8. /\ log_db' \in Logs /\ DOMAIN log_db' = DOMAIN log_db \cup batch
      /\ \A i \in batch : log_db'[i] = term
  <2>1. /\ Over(log_db, batch, term) \in Logs
        /\ DOMAIN Over(log_db, batch, term) = DOMAIN log_db \cup batch
        /\ \A i \in batch : Over(log_db, batch, term)[i] = term
    BY <1>2, <1>3, OverLog
  <2>2. log_db' = Over(log_db, batch, term)
    BY <1>1
  <2> QED
    BY <2>1, <2>2
<1>9. \A i \in DOMAIN log_db : i \notin batch => log_db'[i] = log_db[i]
    BY <1>1 DEF Over
<1>10. TypeOK'
    BY <1>1, <1>6, <1>8 DEF WalInv, TypeOK
<1>11. BatchesOK'
    BY <1>1, <1>2, <1>4 DEF WalInv, BatchesOK
<1>12. StoredOK'
  <2>1. \A i \in Indexes : i \in DOMAIN log_db'
          <=> i \in DOMAIN mem' /\ \A v \in Writers : i \notin Queued(v)'
    <3>1. ASSUME NEW i \in Indexes, i \in batch
          PROVE  i \in DOMAIN mem /\ \A v \in Writers : i \notin Queued(v)'
      BY <1>2, <1>7, <3>1
    <3>2. ASSUME NEW i \in Indexes, i \notin batch
          PROVE  i \in DOMAIN log_db <=> i \in DOMAIN mem /\ \A v \in Writers : i \notin Queued(v)'
      BY <1>7, <3>2 DEF WalInv, StoredOK
    <3> QED
      BY <1>1, <1>8, <3>1, <3>2
  <2>2. \A i \in DOMAIN log_db' : log_db'[i] = mem'[i]
    BY <1>1, <1>5, <1>8, <1>9 DEF WalInv, StoredOK
  <2> QED
    BY <2>1, <2>2 DEF StoredOK
<1>13. AckedOK'
    BY <1>1, <1>4, <1>8 DEF WalInv, AckedOK
<1>14. CountedOK'
  <2>1. \A i \in DOMAIN log_db' : i <= last_index' \/ \E v \in Writers : i \in Uncounted(v)'
    BY <1>1, <1>2, <1>7, <1>8 DEF WalInv, CountedOK
  <2>2. last_index' <= purge_boundary' \/ \E i \in DOMAIN log_db' : last_index' <= i
    BY <1>1, <1>2, <1>8 DEF WalInv, CountedOK
  <2> QED
    BY <2>1, <2>2 DEF CountedOK
<1>15. (ClosedOK /\ PurgedOK /\ CutOK)'
    BY <1>1, <1>2 DEF WalInv, ClosedOK, PurgedOK, CutOK
<1> QED
    BY <1>10, <1>11, <1>12, <1>13, <1>14, <1>15 DEF WalInv

LEMMA PersistReturnStep ==
    ASSUME NEW w \in Writers, WalInv, PersistReturn(w)
    PROVE  WalInv'
<1> DEFINE batch == writing[w].batch
           last == LastOf(batch)
<1>1. /\ writing[w].pc = "committed" /\ last_index' = Larger(last_index, last)
      /\ acked' = acked \cup batch /\ writing' = [writing EXCEPT ![w] = NoWrite]
      /\ UNCHANGED <<log_db, purge_boundary, hard_state, up, cutting, mem, crashes>>
    BY DEF PersistReturn, durable
<1>2. /\ up /\ cutting.pc = "idle" /\ batch \in SUBSET Indexes /\ batch \subseteq DOMAIN mem
      /\ batch # {}
    BY <1>1, CallInProgress
<1>3. log_db \in Logs /\ DOMAIN log_db \subseteq Indexes
    BY StoredInMemory
<1>4. last \in batch /\ last \in 0 .. MaxIndex /\ \A i \in batch : i <= last
    BY <1>2, LastOfGreatest
<1>5. /\ writing'[w] = NoWrite /\ \A v \in Writers \ {w} : writing'[v] = writing[v]
      /\ \A v \in Writers \ {w} : writing[v].batch \cap batch = {}
    BY <1>1 DEF WalInv, TypeOK, BatchesOK
<1>6. writing' \in [Writers -> [pc : {"idle", "queued", "committed"},
                                batch : SUBSET Indexes, term : 0 .. MaxTerm]]
  <2>1. NoWrite \in [pc : {"idle", "queued", "committed"}, batch : SUBSET Indexes, term : 0 .. MaxTerm]
    BY WalAssumption DEF NoWrite
  <2> QED
    BY <1>1, <2>1 DEF WalInv, TypeOK
<1>7. /\ Queued(w) = {} /\ Queued(w)' = {} /\ Uncounted(w) = batch /\ Uncounted(w)' = {}
      /\ \A v \in Writers \ {w} : Queued(v)' = Queued(v) /\ Uncounted(v)' = Uncounted(v)
      /\ \A v \in Writers \ {w} : Queued(v) \cap batch = {}
    BY <1>1, <1>5 DEF Queued, Uncounted, NoWrite
<1>8. batch \subseteq DOMAIN log_db
    BY <1>2, <1>7 DEF WalInv, StoredOK
<1> HIDE DEF batch, last
<1>9. last_index \in 0 .. MaxIndex /\ last_index' \in 0 .. MaxIndex
      /\ last_index' >= last_index /\ last_index' >= last /\ last_index' \in {last_index, last}
    BY <1>1, <1>4, WalAssumption DEF WalInv, TypeOK, Larger
<1>10. TypeOK'
    BY <1>1, <1>2, <1>6, <1>9 DEF WalInv, TypeOK
<1>11. BatchesOK'
    BY <1>1, <1>5 DEF WalInv, BatchesOK, NoWrite
<1>12. StoredOK'
    BY <1>1, <1>7 DEF WalInv, StoredOK
<1>13. AckedOK'
    BY <1>1, <1>5, <1>8 DEF WalInv, AckedOK, NoWrite
<1>14. CountedOK'
  <2>1. \A i \in DOMAIN log_db : i <= last_index' \/ \E v \in Writers : i \in Uncounted(v)'
    <3> SUFFICES ASSUME NEW i \in DOMAIN log_db, ~ (i <= last_index')
                 PROVE  \E v \in Writers : i \in Uncounted(v)'
      OBVIOUS
    <3>1. i \in 1 .. MaxIndex
      BY <1>3 DEF Indexes
    <3>2. ~ (i <= last_index) /\ i \notin batch
      BY <1>4, <1>9, <3>1, WalAssumption
    <3>3. \E v \in Writers : i \in Uncounted(v)
      BY <1>2, <3>2 DEF WalInv, CountedOK
    <3> QED
      BY <1>7, <3>2, <3>3
  <2>2. last_index' <= purge_boundary \/ \E i \in DOMAIN log_db : last_index' <= i
    <3>1. CASE last_index' = last_index
      BY <1>2, <3>1 DEF WalInv, CountedOK
    <3>2. CASE last_index' = last
      BY <1>4, <1>8, <3>2, WalAssumption
    <3> QED
      BY <1>9, <3>1, <3>2
  <2> QED
    BY <1>1, <2>1, <2>2 DEF CountedOK
<1>15. (ClosedOK /\ PurgedOK /\ CutOK)'
    BY <1>1, <1>2 DEF WalInv, ClosedOK, PurgedOK, CutOK
<1> QED
    BY <1>10, <1>11, <1>12, <1>13, <1>14, <1>15 DEF WalInv

LEMMA PurgeStep ==
    ASSUME NEW cutoff \in Indexes, WalInv, Purge(cutoff)
    PROVE  WalInv'
<1> DEFINE rest == cutoff + 1 .. MaxIndex
<1>1. /\ up /\ cutting.pc = "idle" /\ cutoff > purge_boundary
      /\ \A w \in Writers : writing[w].pc # "idle" => \A i \in writing[w].batch : cutoff < i
      /\ log_db' = Only(log_db, rest) /\ mem' = Only(mem, rest)
      /\ purge_boundary' = cutoff /\ acked' = acked \ 1 .. cutoff
      /\ UNCHANGED <<hard_state, up, last_index, writing, cutting, crashes>>
    BY DEF Purge
<1>2. /\ cutoff \in 1 .. MaxIndex /\ MaxIndex \in Nat /\ purge_boundary \in 0 .. MaxIndex
      /\ last_index \in 0 .. MaxIndex
    BY WalAssumption DEF WalInv, TypeOK, Indexes
<1>3. \A i \in Indexes : i \in rest <=> i > cutoff
    BY <1>2 DEF Indexes
<1>4. \A i \in Indexes : i \in 1 .. cutoff <=> i \notin rest
    BY <1>2 DEF Indexes
<1> HIDE DEF rest
<1>5. /\ log_db \in Logs /\ mem \in Logs /\ DOMAIN log_db \subseteq Indexes
      /\ DOMAIN log_db \subseteq DOMAIN mem /\ DOMAIN mem \subseteq Indexes
    BY StoredInMemory
<1>6. /\ log_db' \in Logs /\ mem' \in Logs
      /\ DOMAIN log_db' = DOMAIN log_db \cap rest /\ DOMAIN mem' = DOMAIN mem \cap rest
    BY <1>1, <1>5, OnlyLog
<1>7. /\ \A i \in DOMAIN mem' : mem'[i] = mem[i]
      /\ \A i \in DOMAIN log_db' : log_db'[i] = log_db[i]
    BY <1>1 DEF Only
<1>8. \A w \in Writers : Queued(w)' = Queued(w) /\ Uncounted(w)' = Uncounted(w)
    BY <1>1 DEF Queued, Uncounted
<1>9. \A w \in Writers : writing[w].batch \subseteq rest
  <2> TAKE w \in Writers
  <2>1. CASE writing[w].pc = "idle"
    BY <2>1 DEF WalInv, BatchesOK, NoWrite
  <2>2. CASE writing[w].pc # "idle"
    BY <1>1, <1>3, <2>2, CallInProgress
  <2> QED
    BY <2>1, <2>2
<1>10. TypeOK'
  <2>1. acked' \subseteq Indexes /\ purge_boundary' \in 0 .. MaxIndex
    BY <1>1, <1>2 DEF WalInv, TypeOK
  <2> QED
    BY <1>1, <1>6, <2>1 DEF WalInv, TypeOK
<1>11. BatchesOK'
    BY <1>1, <1>6, <1>7, <1>9 DEF WalInv, BatchesOK
<1>12. StoredOK'
  <2>1. \A w \in Writers : Queued(w) \subseteq rest
    BY <1>9 DEF Queued
  <2>2. \A i \in Indexes : i \in DOMAIN log_db'
          <=> i \in DOMAIN mem' /\ \A w \in Writers : i \notin Queued(w)'
    BY <1>6, <1>8, <2>1 DEF WalInv, StoredOK
  <2>3. \A i \in DOMAIN log_db' : log_db'[i] = mem'[i]
    BY <1>5, <1>6, <1>7 DEF WalInv, StoredOK
  <2> QED
    BY <2>2, <2>3 DEF StoredOK
<1>13. AckedOK'
    BY <1>1, <1>4, <1>5, <1>6 DEF WalInv, AckedOK
<1>14. PurgedOK'
    BY <1>1, <1>3, <1>5, <1>6 DEF PurgedOK
<1>15. CountedOK'
  <2>1. \A i \in DOMAIN log_db' : i <= last_index' \/ \E w \in Writers : i \in Uncounted(w)'
    BY <1>1, <1>6, <1>8 DEF WalInv, CountedOK
  <2>2. last_index <= cutoff \/ \E i \in DOMAIN log_db' : last_index <= i
    <3>1. CASE last_index <= purge_boundary
      BY <1>1, <1>2, <3>1
    <3>2. CASE \E i \in DOMAIN log_db : last_index <= i
      <4>1. PICK i \in DOMAIN log_db : last_index <= i
        BY <3>2
      <4>2. i \in Indexes /\ i \in 1 .. MaxIndex
        BY <1>5, <4>1 DEF Indexes
      <4>3. CASE i > cutoff
        BY <1>3, <1>6, <4>1, <4>2, <4>3
      <4>4. CASE ~ (i > cutoff)
        BY <1>2, <4>1, <4>2, <4>4
      <4> QED
        BY <4>3, <4>4
    <3> QED
      BY <1>1, <3>1, <3>2 DEF WalInv, CountedOK
  <2> QED
    BY <1>1, <2>1, <2>2 DEF CountedOK
<1>16. (ClosedOK /\ CutOK)'
    BY <1>1 DEF ClosedOK, CutOK
<1> QED
    BY <1>10, <1>11, <1>12, <1>13, <1>14, <1>15, <1>16 DEF WalInv

(* truncate and reset keep the entries at the indexes in keep *)
LEMMA CutStep ==
    ASSUME NEW keep, WalInv, Quiescent,
           log_db' = Only(log_db, keep), mem' = Only(mem, keep), acked' = acked \cap keep,
           cutting' = [pc |-> "committed", last |-> LastKey(log_db')],
           UNCHANGED <<purge_boundary, hard_state, up, last_index, writing, crashes>>
    PROVE  WalInv'
<1>1. /\ log_db \in Logs /\ mem \in Logs /\ DOMAIN log_db \subseteq Indexes
      /\ DOMAIN log_db \subseteq DOMAIN mem /\ DOMAIN mem \subseteq Indexes
    BY StoredInMemory
<1>2. up /\ Flushed /\ \A w \in Writers : writing[w] = NoWrite
    BY DEF WalInv, Quiescent, Flushed, BatchesOK
<1>3. /\ log_db' \in Logs /\ mem' \in Logs
      /\ DOMAIN log_db' = DOMAIN log_db \cap keep /\ DOMAIN mem' = DOMAIN mem \cap keep
    BY <1>1, OnlyLog
<1>4. /\ \A i \in DOMAIN mem' : mem'[i] = mem[i]
      /\ \A i \in DOMAIN log_db' : log_db'[i] = log_db[i]
    BY DEF Only
<1>5. \A w \in Writers : Queued(w) = {} /\ Queued(w)' = {}
    BY <1>2 DEF Queued, NoWrite
<1>6. TypeOK'
  <2>1. LastKey(log_db') \in 0 .. MaxIndex
    BY <1>3, LastKeyGreatest
  <2>2. cutting' \in [pc : {"idle", "committed"}, last : 0 .. MaxIndex]
    BY <2>1
  <2> QED
    BY <1>3, <2>2 DEF WalInv, TypeOK
<1>7. BatchesOK'
    BY <1>2 DEF WalInv, BatchesOK, NoWrite
<1>8. StoredOK'
  <2>1. \A i \in Indexes : i \in DOMAIN log_db'
          <=> i \in DOMAIN mem' /\ \A w \in Writers : i \notin Queued(w)'
    BY <1>3, <1>5 DEF WalInv, StoredOK
  <2>2. \A i \in DOMAIN log_db' : log_db'[i] = mem'[i]
    BY <1>1, <1>3, <1>4 DEF WalInv, StoredOK
  <2> QED
    BY <2>1, <2>2 DEF StoredOK
<1>9. AckedOK'
    BY <1>3 DEF WalInv, AckedOK
<1>10. PurgedOK'
    BY <1>3 DEF WalInv, PurgedOK
<1>11. (ClosedOK /\ CutOK /\ CountedOK)'
    BY <1>2 DEF ClosedOK, CutOK, CountedOK, Flushed
<1> QED
    BY <1>6, <1>7, <1>8, <1>9, <1>10, <1>11 DEF WalInv

LEMMA TruncateStep ==
    ASSUME NEW from \in Indexes, WalInv, TruncateCommit(from)
    PROVE  WalInv'
<1> DEFINE keep == 1 .. from - 1
<1>1. /\ Quiescent /\ log_db' = Only(log_db, keep) /\ mem' = Only(mem, keep)
      /\ acked' = acked \cap keep
      /\ cutting' = [pc |-> "committed", last |-> LastKey(log_db')]
      /\ UNCHANGED <<purge_boundary, hard_state, up, last_index, writing, crashes>>
    BY DEF TruncateCommit
<1> HIDE DEF keep
<1> QED
    BY <1>1, CutStep

LEMMA ResetStep == ASSUME WalInv, ResetCommit PROVE WalInv'
<1>1. log_db \in Logs
    BY StoredInMemory
<1>2. log_db' = Only(log_db, {}) /\ log_db' \in Logs /\ DOMAIN log_db' = {}
  <2>1. Only(log_db, {}) \in Logs /\ DOMAIN Only(log_db, {}) = DOMAIN log_db \cap {}
    BY <1>1, OnlyLog, Zenon
  <2>2. log_db' = Only(log_db, {})
    BY DEF ResetCommit
  <2> QED
    BY <2>1, <2>2
<1>3. LastKey(log_db') = 0
    BY <1>2, LastKeyGreatest
<1>4. acked' = acked \cap {}
    BY DEF ResetCommit
<1>5. /\ Quiescent /\ mem' = Only(mem, {})
      /\ cutting' = [pc |-> "committed", last |-> LastKey(log_db')]
      /\ UNCHANGED <<purge_boundary, hard_state, up, last_index, writing, crashes>>
    BY <1>3 DEF ResetCommit
<1> QED
    BY <1>2, <1>4, <1>5, CutStep, Zenon

LEMMA CutReturnStep == ASSUME WalInv, CutReturn PROVE WalInv'
<1> DEFINE k == LastKey(log_db)
<1>1. /\ cutting.pc = "committed" /\ last_index' = cutting.last /\ cutting' = NoCut
      /\ UNCHANGED <<log_db, purge_boundary, hard_state, up, writing, mem, acked, crashes>>
    BY DEF CutReturn, durable
<1>2. up /\ cutting.last = k
    BY <1>1 DEF WalInv, CutOK
<1>3. /\ k \in 0 .. MaxIndex /\ \A j \in DOMAIN log_db : j <= k
      /\ DOMAIN log_db = {} => k = 0
      /\ DOMAIN log_db # {} => k \in DOMAIN log_db
    BY StoredInMemory, LastKeyGreatest
<1> HIDE DEF k
<1>4. TypeOK'
  <2>1. NoCut \in [pc : {"idle", "committed"}, last : 0 .. MaxIndex]
    BY WalAssumption DEF NoCut
  <2> QED
    BY <1>1, <1>2, <1>3, <2>1 DEF WalInv, TypeOK
<1>5. CountedOK'
  <2>1. k <= purge_boundary \/ \E i \in DOMAIN log_db : k <= i
    <3>1. purge_boundary \in 0 .. MaxIndex
      BY DEF WalInv, TypeOK
    <3>2. purge_boundary \in Nat /\ k \in Nat
      BY <1>3, <3>1, WalAssumption
    <3>3. CASE DOMAIN log_db = {}
      BY <1>3, <3>2, <3>3
    <3>4. CASE DOMAIN log_db # {}
      <4>1. k \in DOMAIN log_db /\ k <= k
        BY <1>3, <3>2, <3>4
      <4> QED
        BY <4>1, Zenon
    <3> QED
      BY <3>3, <3>4
  <2> QED
    BY <1>1, <1>2, <1>3, <2>1 DEF CountedOK
<1>6. (ClosedOK /\ BatchesOK /\ StoredOK /\ AckedOK /\ PurgedOK /\ CutOK)'
    BY <1>1, <1>2 DEF WalInv, ClosedOK, BatchesOK, StoredOK, AckedOK, PurgedOK, CutOK, Queued, NoCut
<1> QED
    BY <1>4, <1>5, <1>6 DEF WalInv

LEMMA CrashStep == ASSUME WalInv, Crash PROVE WalInv'
<1>1. /\ crashes < MaxCrashes /\ crashes' = crashes + 1 /\ up' = FALSE /\ last_index' = 0
      /\ mem' = log_db /\ writing' = [w \in Writers |-> NoWrite] /\ cutting' = NoCut
      /\ UNCHANGED <<log_db, purge_boundary, hard_state, acked>>
    BY DEF Crash, durable
<1>2. \A w \in Writers : writing'[w] = NoWrite /\ Queued(w)' = {}
    BY <1>1 DEF Queued, NoWrite
<1>3. /\ log_db \in Logs /\ DOMAIN log_db \subseteq Indexes
      /\ DOMAIN log_db \subseteq DOMAIN mem
    BY StoredInMemory
<1>4. TypeOK'
  <2>1. NoWrite \in [pc : {"idle", "queued", "committed"}, batch : SUBSET Indexes, term : 0 .. MaxTerm]
    BY WalAssumption DEF NoWrite
  <2>2. writing' \in [Writers -> [pc : {"idle", "queued", "committed"},
                                  batch : SUBSET Indexes, term : 0 .. MaxTerm]]
    BY <1>1, <2>1, Zenon
  <2>3. cutting' \in [pc : {"idle", "committed"}, last : 0 .. MaxIndex]
    BY <1>1, WalAssumption DEF NoCut
  <2>4. crashes' \in 0 .. MaxCrashes /\ last_index' \in 0 .. MaxIndex
    BY <1>1, WalAssumption DEF WalInv, TypeOK
  <2>5. up' \in BOOLEAN
    BY <1>1
  <2> QED
    BY <1>1, <1>3, <2>2, <2>3, <2>4, <2>5 DEF WalInv, TypeOK
<1>5. BatchesOK'
    BY <1>2 DEF BatchesOK, NoWrite
<1>6. StoredOK' /\ AckedOK'
    BY <1>1, <1>2, <1>3 DEF WalInv, StoredOK, AckedOK, NoWrite
<1>7. PurgedOK'
    BY <1>1, <1>3 DEF WalInv, PurgedOK
<1>8. (ClosedOK /\ CutOK /\ CountedOK)'
    BY <1>1, <1>2 DEF ClosedOK, CutOK, CountedOK, Flushed, NoWrite, NoCut
<1> QED
    BY <1>4, <1>5, <1>6, <1>7, <1>8 DEF WalInv

LEMMA SaveHardStateStep ==
    ASSUME NEW term \in Terms, WalInv, SaveHardState(term)
    PROVE  WalInv'
<1>1. /\ hard_state' = term /\ term \in 0 .. MaxTerm
      /\ UNCHANGED <<log_db, purge_boundary, up, last_index, writing, cutting, mem, acked, crashes>>
    BY WalAssumption DEF SaveHardState, Terms
<1>2. TypeOK'
    BY <1>1 DEF WalInv, TypeOK
<1> QED
    BY <1>1, <1>2 DEF WalInv, ClosedOK, BatchesOK, StoredOK, AckedOK, PurgedOK, CutOK, CountedOK,
                      Flushed, Queued, Uncounted

LEMMA WalStutter == WalInv /\ UNCHANGED vars => WalInv'
BY DEF vars, WalInv, TypeOK, ClosedOK, BatchesOK, StoredOK, AckedOK, PurgedOK, CutOK, CountedOK,
       Flushed, Queued, Uncounted

(* WalInv is inductive *)
LEMMA WalNextInv == WalInv /\ [Next]_vars => WalInv'
<1> SUFFICES ASSUME WalInv, [Next]_vars PROVE WalInv'
    OBVIOUS
<1>1. CASE New
    BY <1>1, NewStep
<1>2. CASE Crash
    BY <1>2, CrashStep
<1>3. ASSUME NEW w \in Writers, NEW n \in 1 .. 2, NEW term \in Terms, Enqueue(w, n, term)
      PROVE  WalInv'
    BY <1>3, EnqueueStep
<1>4. ASSUME NEW w \in Writers, PersistCommit(w) PROVE WalInv'
    BY <1>4, PersistCommitStep
<1>5. ASSUME NEW w \in Writers, PersistReturn(w) PROVE WalInv'
    BY <1>5, PersistReturnStep
<1>6. ASSUME NEW cutoff \in Indexes, Purge(cutoff) PROVE WalInv'
    BY <1>6, PurgeStep
<1>7. ASSUME NEW from \in Indexes, TruncateCommit(from) PROVE WalInv'
    BY <1>7, TruncateStep
<1>8. CASE ResetCommit
    BY <1>8, ResetStep
<1>9. CASE CutReturn
    BY <1>9, CutReturnStep
<1>10. ASSUME NEW term \in Terms, SaveHardState(term) PROVE WalInv'
    BY <1>10, SaveHardStateStep
<1>11. CASE UNCHANGED vars
    BY <1>11, WalStutter
<1> QED
    BY <1>1, <1>2, <1>3, <1>4, <1>5, <1>6, <1>7, <1>8, <1>9, <1>10, <1>11 DEF Next
-----------------------------------------------------------------------------
(* What the invariant gives *)

LEMMA FaithfulHolds == ASSUME WalInv PROVE Faithful
<1> SUFFICES ASSUME Quiescent PROVE log_db = mem
    BY DEF Faithful
<1>1. /\ log_db \in Logs /\ mem \in Logs /\ DOMAIN mem \subseteq Indexes
      /\ DOMAIN log_db \subseteq DOMAIN mem
    BY StoredInMemory
<1>2. \A w \in Writers : Queued(w) = {}
    BY DEF Quiescent, Flushed, Queued
<1>3. DOMAIN log_db = DOMAIN mem /\ \A i \in DOMAIN log_db : log_db[i] = mem[i]
    BY <1>1, <1>2 DEF WalInv, StoredOK
<1> QED
    BY <1>1, <1>3, LogsEqual

LEMMA AckedVisibleHolds == ASSUME WalInv PROVE AckedVisible
<1> SUFFICES ASSUME NEW i \in acked
             PROVE  i \in DOMAIN log_db /\ (up /\ cutting.pc = "idle" => i <= last_index)
    BY DEF AckedVisible
<1>1. i \in DOMAIN log_db /\ \A w \in Writers : i \notin writing[w].batch
    BY DEF WalInv, AckedOK
<1>2. \A w \in Writers : i \notin Uncounted(w)
    BY <1>1 DEF Uncounted
<1> QED
    BY <1>1, <1>2 DEF WalInv, CountedOK

LEMMA NeverAheadHolds == ASSUME WalInv PROVE NeverAhead
<1> SUFFICES ASSUME up, cutting.pc = "idle"
             PROVE  last_index <= Larger(LastKey(log_db), purge_boundary)
    BY DEF NeverAhead
<1> DEFINE k == LastKey(log_db)
<1>1. /\ k \in 0 .. MaxIndex /\ \A i \in DOMAIN log_db : i <= k
      /\ DOMAIN log_db \subseteq 1 .. MaxIndex
    BY StoredInMemory, LastKeyGreatest DEF Indexes
<1>2. last_index \in 0 .. MaxIndex /\ purge_boundary \in 0 .. MaxIndex
    BY DEF WalInv, TypeOK
<1>3. last_index <= purge_boundary \/ \E i \in DOMAIN log_db : last_index <= i
    BY DEF WalInv, CountedOK
<1> HIDE DEF k
<1>4. last_index <= Larger(k, purge_boundary)
  <2>1. CASE last_index <= purge_boundary
    BY <1>1, <1>2, <2>1, WalAssumption DEF Larger
  <2>2. CASE \E i \in DOMAIN log_db : last_index <= i
    <3>1. PICK i \in DOMAIN log_db : last_index <= i
      BY <2>2
    <3>2. i \in 1 .. MaxIndex /\ i <= k
      BY <1>1, <3>1
    <3> QED
      BY <1>1, <1>2, <3>1, <3>2, WalAssumption DEF Larger
  <2> QED
    BY <1>3, <2>1, <2>2
<1> QED
    BY <1>4 DEF k

LEMMA RestartAgreesHolds == ASSUME WalInv PROVE RestartAgrees
<1> SUFFICES ASSUME Quiescent
             PROVE  Larger(last_index, purge_boundary) = Larger(LastKey(log_db), purge_boundary)
    BY DEF RestartAgrees
<1> DEFINE k == LastKey(log_db)
<1>1. /\ k \in 0 .. MaxIndex
      /\ DOMAIN log_db = {} => k = 0
      /\ DOMAIN log_db # {} => k \in DOMAIN log_db
    BY StoredInMemory, LastKeyGreatest
<1>2. last_index \in 0 .. MaxIndex /\ purge_boundary \in 0 .. MaxIndex
    BY DEF WalInv, TypeOK
<1>3. \A i \in DOMAIN log_db : i <= last_index
  <2>1. \A w \in Writers : Uncounted(w) = {}
    BY DEF Quiescent, Flushed, Uncounted
  <2> QED
    BY <2>1 DEF WalInv, CountedOK, Quiescent
<1>4. last_index <= Larger(k, purge_boundary)
    BY NeverAheadHolds DEF NeverAhead, Quiescent
<1> HIDE DEF k
<1>5. k <= last_index
  <2>1. CASE DOMAIN log_db = {}
    <3>1. k = 0
      BY <1>1, <2>1
    <3> QED
      BY <1>2, <3>1
  <2>2. CASE DOMAIN log_db # {}
    BY <1>1, <1>3, <2>2
  <2> QED
    BY <2>1, <2>2
<1>6. Larger(last_index, purge_boundary) = Larger(k, purge_boundary)
    BY <1>1, <1>2, <1>4, <1>5, WalAssumption DEF Larger
<1> QED
    BY <1>6 DEF k
-----------------------------------------------------------------------------
(* Theorems of the specification *)

(* Through any interleaving of flushes, purges, cuts and crashes, calls in  *)
(* flight, the stored log, last_index and the log in memory account for     *)
(* each other.                                                              *)
THEOREM WalInvariance == Spec => []WalInv
<1>1. Init => WalInv
    BY WalInitOK
<1>2. WalInv /\ [Next]_vars => WalInv'
    BY WalNextInv
<1> QED
    BY <1>1, <1>2, PTL DEF Spec

(* The state of the log store stays of its type. *)
THEOREM TypeCorrect == Spec => []TypeOK
<1>1. WalInv => TypeOK
    BY DEF WalInv
<1> QED
    BY <1>1, WalInvariance, PTL

(* With no call in progress the log database holds the engine's log, entry  *)
(* by entry (persist_entries, truncate, purge, reset).                      *)
THEOREM StoredLogFaithful == Spec => []Faithful
<1>1. WalInv => Faithful
    BY FaithfulHolds
<1> QED
    BY <1>1, WalInvariance, PTL

(* What persist_entries has returned for is stored across crashes, and      *)
(* last_index counts it in whatever order the workers' fetch_max steps come. *)
THEOREM AckedEntriesVisible == Spec => []AckedVisible
<1>1. WalInv => AckedVisible
    BY AckedVisibleHolds
<1> QED
    BY <1>1, WalInvariance, PTL

(* last_index counts nothing a restart would not find.                      *)
THEOREM CounterNeverAhead == Spec => []NeverAhead
<1>1. WalInv => NeverAhead
    BY NeverAheadHolds
<1> QED
    BY <1>1, WalInvariance, PTL

(* The log end of a running node is the one new() would read back.          *)
THEOREM RestartSeesSameEnd == Spec => []RestartAgrees
<1>1. WalInv => RestartAgrees
    BY RestartAgreesHolds
<1> QED
    BY <1>1, WalInvariance, PTL
=============================================================================
