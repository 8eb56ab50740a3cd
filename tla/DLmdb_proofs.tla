---------------------------- MODULE DLmdb_proofs ----------------------------
(***************************************************************************)
(* Expiry and local reaping of DLmdb, for any number of nodes, keys,       *)
(* payloads and ttls, and every interleaving of readers with the log.      *)
(***************************************************************************)
EXTENDS DLmdb, Commands_proofs

-----------------------------------------------------------------------------
(* Values and commands *)

LEMMA RawType ==
    ASSUME NEW p \in Payloads
    PROVE  Raw(p) \in Values /\ NoExpiry(Raw(p))
<1>1. Raw(p) \in Values
  BY ValuesAssumption
<1>2. NoExpiry(Raw(p))
  BY DEF Raw, NoExpiry
<1> QED  BY <1>1, <1>2

LEMMA TtlType ==
    ASSUME NEW p \in Payloads, NEW t \in 0 .. MaxTime, NEW ttl \in Ttls
    PROVE  Ttl(p, t + ttl) \in Values
BY ValuesAssumption

(* A value without an expiry is never expired *)
LEMMA PlainNeverExpires ==
    ASSUME NEW v, NEW t, NoExpiry(v)
    PROVE  ~ Expired(v, t)
BY DEF NoExpiry, Expired

(* What has expired stays expired *)
LEMMA ExpiryMonotone ==
    ASSUME NEW v \in Values \cup {Absent}, NEW t \in Nat, Expired(v, t)
    PROVE  Expired(v, t + 1)
<1>1. v \in Values /\ v.tag = "ttl" /\ v.expires_at <= t
  BY DEF Expired
<1>2. PICK p \in Payloads, u \in 0 .. MaxTime, ttl \in Ttls : v = Ttl(p, u + ttl)
  <2>1. \A p \in Payloads : Raw(p).tag = "raw"
    BY DEF Raw
  <2> QED  BY <1>1, <2>1, ValuesAssumption
<1>3. v.expires_at \in Nat
  BY <1>2, CallsAssumption DEF Ttl
<1> QED  BY <1>1, <1>3, AbsentAssumption DEF Expired

(* Only a put with an expiry puts an expiry under a key *)
LEMMA ApplyCommandPlain ==
    ASSUME NEW cmd \in Command, RawOnly(cmd), NEW db \in Contents, NEW k \in Keys,
           NoExpiry(db[k]),
           ~ (cmd.op = "insert" /\ cmd.key = k /\ cmd.value.tag = "ttl")
    PROVE  NoExpiry(ApplyCommand(cmd, db)[k])
<1>1. CASE k \notin Writes(cmd)
  BY <1>1, ApplyCommandFrame
<1>2. CASE k \in Writes(cmd) /\ cmd.op = "batch"
  <2>1. cmd.ops \in Seq(WriteOp)
    BY <1>2 DEF Command, WriteOp, CasOp
  <2>2. \E i \in DOMAIN cmd.ops : cmd.ops[i].key = k
    BY <1>2 DEF Writes
  <2>3. LastOn(cmd.ops, k) \in DOMAIN cmd.ops
    BY <2>1, <2>2, LastOnInBatch
  <2>4. ApplyCommand(cmd, db)[k] = Written(cmd.ops[LastOn(cmd.ops, k)])
    BY <1>2, <2>2 DEF ApplyCommand, BatchWrites
  <2> QED  BY <1>2, <2>3, <2>4 DEF RawOnly
<1>3. CASE k \in Writes(cmd) /\ cmd.op = "cas"
  <2>1. cmd.key = k /\ NoExpiry(cmd.value)
    BY <1>3 DEF Writes, RawOnly
  <2>2. ApplyCommand(cmd, db) = CompareAndSwap(cmd, db)
    BY <1>3 DEF ApplyCommand
  <2>3. CompareAndSwap(cmd, db)[k] \in {cmd.value, db[k]}
    BY <2>1 DEF CompareAndSwap, Contents
  <2> QED  BY <2>1, <2>2, <2>3
<1>4. CASE k \in Writes(cmd) /\ cmd.op \in {"insert", "delete"}
  <2>1. cmd.key = k
    BY <1>4 DEF Writes
  <2>2. ApplyCommand(cmd, db) = [db EXCEPT ![cmd.key] = Written(cmd)]
    BY <1>4 DEF ApplyCommand
  <2>3. ApplyCommand(cmd, db)[k] = Written(cmd)
    BY <2>1, <2>2 DEF Contents
  <2> QED  BY <1>4, <2>1, <2>3 DEF Written, NoExpiry
<1>5. cmd.op \in {"insert", "delete", "cas", "batch", "noop"}
  BY DEF Command, WriteOp, CasOp
<1>6. CASE cmd.op = "noop"
  BY <1>6, <1>1 DEF Writes
<1> QED  BY <1>1, <1>2, <1>3, <1>4, <1>5, <1>6

(* Every write method of DLmdb makes one call with a well-formed command *)
LEMMA WriteIsCall ==
    ASSUME TypeOK, NEW n \in Nodes, Write(n)
    PROVE  \E kind \in CallKinds : \E cmd \in Command : RawOnly(cmd) /\ Call(n, kind, cmd)
<1>1. CASE \E k \in Keys, p \in Payloads : Put(n, k, p) \/ PutIfAbsent(n, k, p)
  <2>1. PICK k \in Keys, p \in Payloads : Put(n, k, p) \/ PutIfAbsent(n, k, p)
    BY <1>1
  <2> DEFINE put == [op |-> "insert", key |-> k, value |-> Raw(p)]
             cas == [op |-> "cas", key |-> k, expected |-> Absent, value |-> Raw(p)]
  <2>2. put \in Command /\ cas \in Command
    BY RawType DEF Command, WriteOp, CasOp
  <2>3. RawOnly(put) /\ RawOnly(cas)
    BY RawType DEF RawOnly
  <2>4. Call(n, "put", put) \/ Call(n, "put_if_absent", cas)
    BY <2>1 DEF Put, PutIfAbsent
  <2> HIDE DEF put, cas
  <2> QED  BY <2>2, <2>3, <2>4 DEF CallKinds
<1>2. CASE \E k \in Keys, p \in Payloads, ttl \in Ttls : PutWithTtl(n, k, p, ttl)
  <2>1. PICK k \in Keys, p \in Payloads, ttl \in Ttls : PutWithTtl(n, k, p, ttl)
    BY <1>2
  <2> DEFINE put == [op |-> "insert", key |-> k, value |-> Ttl(p, now + ttl)]
  <2>2. Ttl(p, now + ttl) \in Values
    BY TtlType DEF TypeOK
  <2>3. put \in Command
    BY <2>2 DEF Command, WriteOp
  <2>4. RawOnly(put)
    BY DEF RawOnly
  <2>5. Call(n, "put_with_ttl", put)
    BY <2>1 DEF PutWithTtl
  <2> HIDE DEF put
  <2> QED  BY <2>3, <2>4, <2>5 DEF CallKinds
<1>3. CASE \E k \in Keys, e, p \in Payloads : Cas(n, k, e, p)
  <2>1. PICK k \in Keys, e \in Payloads, p \in Payloads : Cas(n, k, e, p)
    BY <1>3
  <2> DEFINE cas == [op |-> "cas", key |-> k, expected |-> Raw(e), value |-> Raw(p)]
  <2>2. cas \in Command
    BY RawType DEF Command, CasOp
  <2>3. RawOnly(cas)
    BY RawType DEF RawOnly
  <2>4. Call(n, "compare_and_swap", cas)
    BY <2>1 DEF Cas
  <2> HIDE DEF cas
  <2> QED  BY <2>2, <2>3, <2>4 DEF CallKinds
<1>4. CASE \E k, d \in Keys, p \in Payloads : Batch(n, k, p, d)
  <2>1. PICK k \in Keys, d \in Keys, p \in Payloads : Batch(n, k, p, d)
    BY <1>4
  <2> DEFINE ins == [op |-> "insert", key |-> k, value |-> Raw(p)]
             del == [op |-> "delete", key |-> d]
             batch == [op |-> "batch", ops |-> <<ins, del>>]
  <2>2. ins \in WriteOp /\ del \in WriteOp
    BY RawType DEF WriteOp
  <2>3. NoExpiry(Written(ins)) /\ NoExpiry(Written(del))
    <3>1. NoExpiry(Written(ins))
      BY RawType DEF Written
    <3>2. NoExpiry(Written(del))
      BY DEF Written, NoExpiry
    <3> QED  BY <3>1, <3>2
  <2>4. Call(n, "batch", batch)
    BY <2>1 DEF Batch
  <2> HIDE DEF ins, del
  <2>5. batch \in Command
    BY <2>2 DEF Command
  <2>6. RawOnly(batch)
    <3>1. \A i \in DOMAIN batch.ops : NoExpiry(Written(batch.ops[i]))
      BY <2>3
    <3> QED  BY <3>1 DEF RawOnly
  <2> HIDE DEF batch
  <2> QED  BY <2>4, <2>5, <2>6 DEF CallKinds
<1>5. CASE \E k \in Keys : Delete(n, k)
  <2>1. PICK k \in Keys : Delete(n, k)
    BY <1>5
  <2> DEFINE del == [op |-> "delete", key |-> k]
  <2>2. del \in Command /\ RawOnly(del)
    BY DEF Command, WriteOp, RawOnly
  <2>3. Call(n, "delete", del)
    BY <2>1 DEF Delete
  <2> HIDE DEF del
  <2> QED  BY <2>2, <2>3 DEF CallKinds
<1> QED  BY <1>1, <1>2, <1>3, <1>4, <1>5 DEF Write

-----------------------------------------------------------------------------
(* The invariant, action by action *)

LEMMA Facts ==
    ASSUME TypeOK
    PROVE  /\ Len(log) \in Nat /\ now \in Nat
           /\ \A i \in 1 .. Len(log) : log[i] \in Command
           /\ \A i \in 0 .. Len(log) : hist[i] \in Contents
           /\ \A n \in Nodes : kv[n] \in Contents /\ applied[n] \in 0 .. Len(log)
           /\ \A n \in Nodes : reading[n] # NoRead =>
                 /\ reading[n].key \in Keys
                 /\ reading[n].raw \in Values \cup {Absent}
                 /\ reading[n].pc \in {"fetched", "expired"}
           /\ \A n \in Nodes : calling[n] # NoCall => calling[n] \in Command
<1>1. Len(log) \in Nat /\ \A i \in 1 .. Len(log) : log[i] \in Command
  <2>1. log \in Seq(Command)
    BY DEF TypeOK
  <2> HIDE DEF Command
  <2> QED  BY <2>1
<1>2. now \in Nat
  BY CallsAssumption DEF TypeOK
<1>3. \A i \in 0 .. Len(log) : hist[i] \in Contents
  BY DEF TypeOK
<1>4. \A n \in Nodes : kv[n] \in Contents /\ applied[n] \in 0 .. Len(log)
  BY DEF TypeOK
<1>5. \A n \in Nodes : reading[n] # NoRead =>
         /\ reading[n].key \in Keys
         /\ reading[n].raw \in Values \cup {Absent}
         /\ reading[n].pc \in {"fetched", "expired"}
  BY DEF TypeOK, Reads
<1>6. \A n \in Nodes : calling[n] # NoCall => calling[n] \in Command
  BY DEF TypeOK
<1> QED  BY <1>1, <1>2, <1>3, <1>4, <1>5, <1>6

LEMMA InitInv == Init => TtlInv
<1> SUFFICES ASSUME Init PROVE TtlInv
  OBVIOUS
<1>1. Empty \in Contents /\ \A k \in Keys : Empty[k] = Absent
  BY DEF Empty, Contents
<1>2. Len(log) = 0 /\ log = <<>> /\ hist = [i \in 0 .. 0 |-> Empty] /\ hist[0] = Empty
  BY DEF Init
<1>3. TypeOK
  <2>1. now \in 0 .. MaxTime
    BY CallsAssumption DEF Init
  <2>2. log \in Seq(Command) /\ hist \in [0 .. Len(log) -> Contents]
    BY <1>1, <1>2
  <2>3. /\ calling \in [Nodes -> Command \cup {NoCall}]
        /\ kv \in [Nodes -> Contents] /\ applied \in [Nodes -> 0 .. Len(log)]
        /\ outcomes \in [Nodes -> Seq(BOOLEAN)]
        /\ reading \in [Nodes -> Reads] /\ torn \in [Nodes -> SUBSET Keys]
    BY <1>1, <1>2 DEF Init, Reads
  <2> QED  BY <2>1, <2>2, <2>3 DEF TypeOK
<1>4. LogOK
  BY <1>2 DEF Init, LogOK
<1>5. ReadOK
  BY DEF Init, ReadOK
<1>6. \A n \in Nodes : kv[n] = Empty /\ applied[n] = 0
  BY DEF Init
<1>7. ReapOK
  BY <1>2, <1>6 DEF ReapOK
<1>8. PlainOK
  BY <1>1, <1>2, <1>6 DEF Init, PlainOK, NoExpiry
<1>9. OutcomesOK
  BY <1>6 DEF Init, OutcomesOK
<1> QED  BY <1>3, <1>4, <1>5, <1>7, <1>8, <1>9 DEF TtlInv

(* Time passes: what has expired stays expired *)
LEMMA TickInv ==
    ASSUME TtlInv, Tick
    PROVE  TtlInv'
<1>1. TypeOK /\ now' = now + 1 /\ now \in Nat
  BY Facts DEF TtlInv, Tick
<1>2. TypeOK'
  BY <1>1, CallsAssumption DEF TypeOK, Tick
<1>3. LogOK' /\ PlainOK' /\ OutcomesOK'
  BY DEF TtlInv, Tick, LogOK, PlainOK, OutcomesOK, TtlKeys
<1>4. ReadOK'
  BY <1>1, Facts, ExpiryMonotone DEF TtlInv, Tick, ReadOK
<1>5. ReapOK'
  <2>1. \A n \in Nodes, k \in Keys : hist[applied[n]][k] \in Values \cup {Absent}
    BY <1>1, Facts DEF Contents
  <2>2. \A n \in Nodes, k \in Keys : Expired(hist[applied[n]][k], now)
                                       => Expired(hist[applied[n]][k], now + 1)
    BY <1>1, <2>1, ExpiryMonotone
  <2> QED  BY <1>1, <2>2 DEF TtlInv, Tick, ReapOK, CasKeys
<1> QED  BY <1>2, <1>3, <1>4, <1>5 DEF TtlInv

(* A call only waits *)
LEMMA CallInv ==
    ASSUME TtlInv, NEW n \in Nodes, NEW kind \in CallKinds, NEW cmd \in Command,
           RawOnly(cmd), Call(n, kind, cmd)
    PROVE  TtlInv'
<1>1. TypeOK'
  BY DEF TtlInv, TypeOK, Call
<1>2. LogOK'
  <2>1. \A m \in Nodes : calling'[m] = IF m = n THEN cmd ELSE calling[m]
    BY DEF TtlInv, TypeOK, Call
  <2> QED  BY <2>1 DEF TtlInv, LogOK, Call
<1>3. ReadOK' /\ ReapOK' /\ PlainOK' /\ OutcomesOK'
  BY DEF TtlInv, Call, ReadOK, ReapOK, PlainOK, OutcomesOK, TtlKeys, CasKeys
<1> QED  BY <1>1, <1>2, <1>3 DEF TtlInv

(* The log grows: nothing that was said about its prefixes changes *)
LEMMA CommitInv ==
    ASSUME TtlInv, NEW n \in Nodes, Commit(n)
    PROVE  TtlInv'
<1> DEFINE cmd == calling[n]
           last == Len(log)
<1>1. /\ TypeOK /\ last \in Nat /\ cmd \in Command /\ RawOnly(cmd)
      /\ log \in Seq(Command) /\ hist[last] \in Contents
  BY Facts DEF TtlInv, Commit, LogOK, TypeOK
<1>2. /\ log' = Append(log, cmd)
      /\ hist' = [i \in 0 .. last + 1 |->
                    IF i <= last THEN hist[i] ELSE ApplyCommand(cmd, hist[last])]
      /\ calling' = [calling EXCEPT ![n] = NoCall]
      /\ UNCHANGED <<now, kv, applied, outcomes, reading, torn>>
  BY DEF Commit
<1> HIDE DEF cmd
<1>3. /\ log' \in Seq(Command) /\ Len(log') = last + 1
      /\ \A i \in 1 .. last : log'[i] = log[i]
      /\ log'[last + 1] = cmd
  <2> HIDE DEF Command
  <2> QED  BY <1>1, <1>2
<1> HIDE DEF last
<1>4. /\ \A i \in 0 .. last : hist'[i] = hist[i]
      /\ hist'[last + 1] = ApplyCommand(cmd, hist[last])
  BY <1>1, <1>2
<1>5. ApplyCommand(cmd, hist[last]) \in Contents
  BY <1>1, ApplyCommandType
<1>6. TypeOK'
  <2>1. hist' \in [0 .. Len(log') -> Contents]
    <3>1. \A i \in 0 .. last : hist[i] \in Contents
      BY <1>1, Facts DEF last
    <3> QED  BY <1>1, <1>2, <1>3, <1>5, <3>1
  <2>2. calling' \in [Nodes -> Command \cup {NoCall}]
    BY <1>1, <1>2 DEF TypeOK
  <2>3. applied' \in [Nodes -> 0 .. Len(log')]
    <3>1. applied \in [Nodes -> 0 .. last]
      BY <1>1 DEF TypeOK, last
    <3> QED  BY <1>1, <1>2, <1>3, <3>1
  <2>4. /\ now' \in 0 .. MaxTime /\ kv' \in [Nodes -> Contents]
        /\ outcomes' \in [Nodes -> Seq(BOOLEAN)]
        /\ reading' \in [Nodes -> Reads] /\ torn' \in [Nodes -> SUBSET Keys]
    BY <1>1, <1>2 DEF TypeOK
  <2> QED  BY <1>3, <2>1, <2>2, <2>3, <2>4 DEF TypeOK
<1>7. LogOK'
  <2>1. ASSUME NEW i \in 1 .. last + 1
        PROVE  hist'[i] = ApplyCommand(log'[i], hist'[i - 1]) /\ RawOnly(log'[i])
    <3>1. CASE i \in 1 .. last
      <4>1. i \in 0 .. last /\ i - 1 \in 0 .. last
        BY <1>1, <3>1
      <4> QED  BY <3>1, <4>1, <1>3, <1>4 DEF TtlInv, LogOK, last
    <3>2. CASE i = last + 1
      BY <3>2, <1>1, <1>3, <1>4
    <3> QED  BY <3>1, <3>2, <1>1
  <2>2. \A m \in Nodes : calling'[m] # NoCall => RawOnly(calling'[m])
    <3>1. \A m \in Nodes : calling'[m] # NoCall => calling'[m] = calling[m]
      BY <1>1, <1>2 DEF TypeOK
    <3> QED  BY <3>1 DEF TtlInv, LogOK
  <2> QED  BY <2>1, <2>2, <1>3 DEF LogOK
<1>8. ReadOK'
  BY <1>2 DEF TtlInv, ReadOK
<1>9. \A m \in Nodes : applied[m] \in 0 .. last
  BY <1>1, Facts DEF last
<1>10. ReapOK'
  <2>1. ASSUME NEW m \in Nodes PROVE (CasKeys(applied[m]))' = CasKeys(applied[m])
    <3>1. applied'[m] = applied[m] /\ \A j \in 1 .. applied[m] : log'[j] = log[j]
      BY <1>1, <1>2, <1>3, <1>9
    <3> QED  BY <3>1 DEF CasKeys
  <2> QED  BY <2>1, <1>2, <1>4, <1>9 DEF TtlInv, ReapOK
<1>11. TtlKeys \subseteq TtlKeys'
  <2>1. \A j \in 1 .. last : j \in 1 .. Len(log')
    BY <1>1, <1>3
  <2> QED  BY <2>1, <1>3 DEF TtlKeys, last
<1>12. PlainOK'
  <2> SUFFICES ASSUME NEW k \in Keys, k \notin TtlKeys'
               PROVE  /\ \A i \in 0 .. last + 1 : NoExpiry(hist'[i][k])
                      /\ \A m \in Nodes :
                           /\ kv[m][k] = hist'[applied[m]][k]
                           /\ reading[m] # NoRead /\ reading[m].key = k
                                => NoExpiry(reading[m].raw)
    BY <1>2, <1>3 DEF PlainOK
  <2>1. k \notin TtlKeys
    BY <1>11
  <2>2. \A i \in 0 .. last : NoExpiry(hist[i][k])
    BY <2>1 DEF TtlInv, PlainOK, last
  <2>3. ~ (cmd.op = "insert" /\ cmd.key = k /\ cmd.value.tag = "ttl")
    <3>1. last + 1 \in 1 .. Len(log')
      BY <1>1, <1>3
    <3> QED  BY <1>3, <3>1 DEF TtlKeys
  <2>4. NoExpiry(hist'[last + 1][k])
    <3>1. NoExpiry(hist[last][k])
      BY <1>1, <2>2
    <3> QED  BY <1>1, <1>4, <2>3, <3>1, ApplyCommandPlain
  <2>5. \A i \in 0 .. last + 1 : i \in 0 .. last \/ i = last + 1
    BY <1>1
  <2>6. \A m \in Nodes :
           /\ kv[m][k] = hist'[applied[m]][k]
           /\ reading[m] # NoRead /\ reading[m].key = k => NoExpiry(reading[m].raw)
    BY <2>1, <1>4, <1>9 DEF TtlInv, PlainOK
  <2> QED  BY <2>2, <2>4, <2>5, <2>6, <1>4
<1>13. OutcomesOK'
  <2>1. ASSUME NEW m \in Nodes, NEW i \in 1 .. applied[m],
               log'[i].op = "cas", log'[i].key \notin TtlKeys'
        PROVE  outcomes[m][i] = Matches(log'[i], hist'[i - 1])
    <3>1. i \in 1 .. last /\ i - 1 \in 0 .. last
      BY <1>1, <1>9
    <3>2. log'[i] = log[i] /\ hist'[i - 1] = hist[i - 1] /\ log[i].key \notin TtlKeys
      BY <3>1, <2>1, <1>3, <1>4, <1>11
    <3> QED  BY <2>1, <3>2 DEF TtlInv, OutcomesOK
  <2> QED  BY <2>1, <1>2 DEF TtlInv, OutcomesOK
<1> QED  BY <1>6, <1>7, <1>8, <1>10, <1>12, <1>13 DEF TtlInv

(* A node applies its next entry: equal stays equal, and a key the entry   *)
(* writes becomes equal                                                    *)
LEMMA ApplyInv ==
    ASSUME TtlInv, NEW n \in Nodes, Apply(n)
    PROVE  TtlInv'
<1> DEFINE a == applied[n]
           cmd == log[a + 1]
<1>1. /\ TypeOK /\ a \in Nat /\ Len(log) \in Nat /\ a + 1 \in 1 .. Len(log)
      /\ kv[n] \in Contents /\ a \in 0 .. Len(log) /\ a + 1 \in 0 .. Len(log)
  BY Facts DEF TtlInv, Apply
<1>2. cmd \in Command /\ hist[a] \in Contents /\ hist[a + 1] = ApplyCommand(cmd, hist[a])
  <2>1. (a + 1) - 1 = a
    BY <1>1
  <2> QED  BY <1>1, <2>1, Facts DEF TtlInv, LogOK
<1>3. /\ kv' = [kv EXCEPT ![n] = ApplyCommand(cmd, @)]
      /\ outcomes' = [outcomes EXCEPT ![n] = Append(@, Succeeds(cmd, kv[n]))]
      /\ torn' = [torn EXCEPT ![n] = IF cmd.op = "cas" THEN @ ELSE @ \ Writes(cmd)]
      /\ applied' = [applied EXCEPT ![n] = @ + 1]
      /\ UNCHANGED <<now, log, hist, calling, reading>>
  BY DEF Apply
<1>4. ApplyCommand(cmd, kv[n]) \in Contents
  BY <1>1, <1>2, ApplyCommandType
<1>5. /\ kv'[n] = ApplyCommand(cmd, kv[n]) /\ applied'[n] = a + 1
      /\ outcomes'[n] = Append(outcomes[n], Succeeds(cmd, kv[n]))
      /\ torn'[n] = IF cmd.op = "cas" THEN torn[n] ELSE torn[n] \ Writes(cmd)
      /\ \A m \in Nodes \ {n} : /\ kv'[m] = kv[m] /\ applied'[m] = applied[m]
                                /\ outcomes'[m] = outcomes[m] /\ torn'[m] = torn[m]
  BY <1>1, <1>3 DEF TypeOK
<1> HIDE DEF a, cmd
<1>6. TypeOK'
  <2>1. kv' \in [Nodes -> Contents]
    BY <1>1, <1>3, <1>4 DEF TypeOK
  <2>2. applied' \in [Nodes -> 0 .. Len(log')]
    BY <1>1, <1>3 DEF TypeOK, a
  <2>3. outcomes' \in [Nodes -> Seq(BOOLEAN)]
    <3>1. Succeeds(cmd, kv[n]) \in BOOLEAN
      BY DEF Succeeds, Matches
    <3>2. outcomes[n] \in Seq(BOOLEAN)
      BY <1>1 DEF TypeOK
    <3>3. Append(outcomes[n], Succeeds(cmd, kv[n])) \in Seq(BOOLEAN)
      BY <3>1, <3>2
    <3> QED  BY <1>1, <1>3, <3>3 DEF TypeOK
  <2>4. torn' \in [Nodes -> SUBSET Keys]
    BY <1>1, <1>3 DEF TypeOK
  <2> QED  BY <1>1, <1>3, <2>1, <2>2, <2>3, <2>4 DEF TypeOK
<1>7. LogOK' /\ ReadOK'
  BY <1>3 DEF TtlInv, LogOK, ReadOK
<1>8. TtlKeys' = TtlKeys
  BY <1>3 DEF TtlKeys
<1>9. ReapOK'
  <2>1. ASSUME NEW m \in Nodes \ {n}, NEW k \in Keys,
               k \notin torn'[m], k \notin (CasKeys(applied[m]))'
        PROVE  \/ kv'[m][k] = hist'[applied'[m]][k]
               \/ kv'[m][k] = Absent /\ Expired(hist'[applied'[m]][k], now')
    <3>1. (CasKeys(applied[m]))' = CasKeys(applied[m])
      BY <1>3, <1>5 DEF CasKeys
    <3> QED  BY <2>1, <3>1, <1>3, <1>5 DEF TtlInv, ReapOK
  <2>2. ASSUME NEW k \in Keys, k \notin torn'[n], k \notin (CasKeys(applied[n]))'
        PROVE  \/ kv'[n][k] = hist'[applied'[n]][k]
               \/ kv'[n][k] = Absent /\ Expired(hist'[applied'[n]][k], now')
    <3>1. (CasKeys(applied[n]))' = {log[j].key : j \in {j \in 1 .. a + 1 : log[j].op = "cas"}}
      BY <1>3, <1>5 DEF CasKeys
    <3>2. cmd.op = "cas" => cmd.key # k
      BY <2>2, <3>1, <1>1 DEF cmd
    <3>3. k \notin CasKeys(a)
      <4>1. \A j \in 1 .. a : j \in 1 .. a + 1
        BY <1>1
      <4> QED  BY <2>2, <3>1, <4>1 DEF CasKeys
    <3>4. CASE k \in Writes(cmd)
      <4>1. cmd.op # "cas"
        BY <3>2, <3>4 DEF Writes
      <4>2. ApplyCommand(cmd, kv[n])[k] = ApplyCommand(cmd, hist[a])[k]
        BY <1>1, <1>2, <3>4, <4>1, ApplyCommandBlind
      <4> QED  BY <4>2, <1>2, <1>3, <1>5
    <3>5. CASE k \notin Writes(cmd)
      <4>1. kv'[n][k] = kv[n][k]
        BY <1>1, <1>2, <1>5, <3>5, ApplyCommandFrame
      <4>2. hist[a + 1][k] = hist[a][k]
        BY <1>2, <3>5, ApplyCommandFrame
      <4>3. k \notin torn[n]
        BY <2>2, <1>5, <3>5
      <4>4. \/ kv[n][k] = hist[a][k]
            \/ kv[n][k] = Absent /\ Expired(hist[a][k], now)
        BY <3>3, <4>3 DEF TtlInv, ReapOK, a
      <4> QED  BY <4>1, <4>2, <4>4, <1>3, <1>5
    <3> QED  BY <3>4, <3>5
  <2> QED  BY <2>1, <2>2 DEF ReapOK
<1>10. PlainOK'
  <2> SUFFICES ASSUME NEW k \in Keys, k \notin TtlKeys
               PROVE  /\ \A i \in 0 .. Len(log) : NoExpiry(hist[i][k])
                      /\ \A m \in Nodes :
                           /\ kv'[m][k] = hist[applied'[m]][k]
                           /\ reading[m] # NoRead /\ reading[m].key = k
                                => NoExpiry(reading[m].raw)
    BY <1>3, <1>8 DEF PlainOK
  <2>1. kv'[n][k] = hist[applied'[n]][k]
    <3>1. kv[n][k] = hist[a][k]
      BY DEF TtlInv, PlainOK, a
    <3>2. ApplyCommand(cmd, kv[n])[k] = ApplyCommand(cmd, hist[a])[k]
      BY <1>1, <1>2, <3>1, ApplyCommandLocal
    <3> QED  BY <1>2, <1>5, <3>2
  <2>2. \A m \in Nodes \ {n} : kv'[m][k] = hist[applied'[m]][k]
    BY <1>5 DEF TtlInv, PlainOK
  <2> QED  BY <2>1, <2>2 DEF TtlInv, PlainOK
<1>11. OutcomesOK'
  <2>1. ASSUME NEW m \in Nodes \ {n}
        PROVE  /\ Len(outcomes'[m]) = applied'[m]
               /\ \A i \in 1 .. applied'[m] :
                    log'[i].op = "cas" /\ log'[i].key \notin TtlKeys'
                        => outcomes'[m][i] = Matches(log'[i], hist'[i - 1])
    BY <1>3, <1>5, <1>8 DEF TtlInv, OutcomesOK
  <2>2. /\ outcomes[n] \in Seq(BOOLEAN) /\ Len(outcomes[n]) = a
        /\ \A i \in 1 .. a : log[i].op = "cas" /\ log[i].key \notin TtlKeys
                => outcomes[n][i] = Matches(log[i], hist[i - 1])
    BY <1>1 DEF TtlInv, OutcomesOK, TypeOK, a
  <2>3. /\ Len(outcomes'[n]) = a + 1
        /\ \A i \in 1 .. a : outcomes'[n][i] = outcomes[n][i]
        /\ outcomes'[n][a + 1] = Succeeds(cmd, kv[n])
    <3>1. Succeeds(cmd, kv[n]) \in BOOLEAN
      BY DEF Succeeds, Matches
    <3> QED  BY <1>5, <2>2, <3>1
  <2>4. ASSUME NEW i \in 1 .. a + 1, log[i].op = "cas", log[i].key \notin TtlKeys
        PROVE  outcomes'[n][i] = Matches(log[i], hist[i - 1])
    <3>1. CASE i \in 1 .. a
      BY <3>1, <2>2, <2>3, <2>4
    <3>2. CASE i = a + 1
      <4>1. log[i] = cmd /\ i - 1 = a
        BY <3>2, <1>1 DEF cmd
      <4>2. cmd.key \in Keys
        BY <4>1, <2>4, <1>2 DEF Command, WriteOp, CasOp
      <4>3. kv[n][cmd.key] = hist[a][cmd.key]
        BY <4>1, <4>2, <2>4 DEF TtlInv, PlainOK, a
      <4>4. Succeeds(cmd, kv[n]) = Matches(cmd, hist[a])
        BY <4>1, <4>3, <2>4 DEF Succeeds, Matches
      <4> QED  BY <4>1, <4>4, <2>3, <3>2
    <3> QED  BY <3>1, <3>2, <1>1
  <2> QED  BY <2>1, <2>3, <2>4, <1>3, <1>5, <1>8 DEF OutcomesOK
<1> QED  BY <1>6, <1>7, <1>9, <1>10, <1>11 DEF TtlInv

(* What is said of log and contents is not about the readers *)
LEMMA LogFrame ==
    ASSUME TtlInv, UNCHANGED <<now, log, hist, calling, kv, applied, outcomes, torn>>
    PROVE  LogOK' /\ ReapOK' /\ OutcomesOK'
<1>1. LogOK'
  BY DEF TtlInv, LogOK
<1>2. \A n \in Nodes : (CasKeys(applied[n]))' = CasKeys(applied[n])
  BY DEF CasKeys
<1>3. ReapOK'
  BY <1>2 DEF TtlInv, ReapOK
<1>4. TtlKeys' = TtlKeys
  BY DEF TtlKeys
<1>5. OutcomesOK'
  BY <1>4 DEF TtlInv, OutcomesOK
<1> QED  BY <1>1, <1>3, <1>5

(* Readers: the bytes are fetched and judged *)
LEMMA ReadInv ==
    ASSUME TtlInv, NEW n \in Nodes, (\E k \in Keys : Fetch(n, k)) \/ Decode(n)
    PROVE  TtlInv'
<1>1. TypeOK
  BY DEF TtlInv
<1>2. CASE \E k \in Keys : Fetch(n, k)
  <2>1. PICK k \in Keys : Fetch(n, k)
    BY <1>2
  <2> DEFINE read == [pc |-> "fetched", key |-> k, raw |-> kv[n][k]]
  <2>2. kv[n][k] \in Values \cup {Absent}
    BY <1>1, Facts DEF Contents
  <2>3. read \in Reads
    BY <2>2 DEF Reads
  <2>4. reading' = [reading EXCEPT ![n] = read]
    BY <2>1 DEF Fetch
  <2>5. UNCHANGED <<now, log, hist, calling, kv, applied, outcomes, torn>>
    BY <2>1 DEF Fetch
  <2>6. \A m \in Nodes : reading'[m] = IF m = n THEN read ELSE reading[m]
    BY <1>1, <2>4 DEF TypeOK
  <2>7. TypeOK'
    BY <1>1, <2>3, <2>4, <2>5 DEF TypeOK
  <2>8. LogOK' /\ ReapOK' /\ OutcomesOK'
    BY <2>5, LogFrame
  <2>9. ReadOK'
    BY <2>5, <2>6 DEF TtlInv, ReadOK
  <2>10. PlainOK'
    <3>1. k \notin TtlKeys => NoExpiry(kv[n][k])
      BY <1>1, Facts DEF TtlInv, PlainOK
    <3> QED  BY <3>1, <2>5, <2>6 DEF TtlInv, PlainOK, TtlKeys
  <2> QED  BY <2>7, <2>8, <2>9, <2>10 DEF TtlInv
<1>3. CASE Decode(n)
  <2>1. /\ reading[n] # NoRead /\ reading[n].pc = "fetched"
        /\ UNCHANGED <<now, log, hist, calling, kv, applied, outcomes, torn>>
    BY <1>3 DEF Decode
  <2>2. reading[n] \in [pc : {"fetched", "expired"}, key : Keys, raw : Values \cup {Absent}]
    BY <1>1, <2>1 DEF TypeOK, Reads
  <2> DEFINE next == IF Expired(reading[n].raw, now)
                       THEN [reading[n] EXCEPT !.pc = "expired"] ELSE NoRead
  <2>3. reading' = [reading EXCEPT ![n] = next]
    BY <1>3 DEF Decode
  <2>4. /\ next \in Reads
        /\ next # NoRead => /\ next.key = reading[n].key /\ next.raw = reading[n].raw
                            /\ Expired(next.raw, now)
    BY <2>2 DEF Reads
  <2> HIDE DEF next
  <2>5. \A m \in Nodes : reading'[m] = IF m = n THEN next ELSE reading[m]
    BY <1>1, <2>3 DEF TypeOK
  <2>6. TypeOK'
    BY <1>1, <2>1, <2>3, <2>4 DEF TypeOK
  <2>7. LogOK' /\ ReapOK' /\ OutcomesOK'
    BY <2>1, LogFrame
  <2>8. ReadOK'
    BY <2>1, <2>4, <2>5 DEF TtlInv, ReadOK
  <2>9. PlainOK'
    BY <2>1, <2>4, <2>5 DEF TtlInv, PlainOK, TtlKeys
  <2> QED  BY <2>6, <2>7, <2>8, <2>9 DEF TtlInv
<1> QED  BY <1>2, <1>3

(* delete_local removes expired bytes, or the key is torn *)
LEMMA DeleteLocalInv ==
    ASSUME TtlInv, NEW n \in Nodes, DeleteLocal(n)
    PROVE  TtlInv'
<1> DEFINE k == reading[n].key
           raw == reading[n].raw
<1>1. /\ TypeOK /\ reading[n] # NoRead /\ reading[n].pc = "expired" /\ k \in Keys
      /\ Expired(raw, now)
  BY Facts DEF TtlInv, ReadOK, DeleteLocal
<1>2. /\ kv' = [kv EXCEPT ![n][k] = Absent]
      /\ torn' = [torn EXCEPT ![n] = IF kv[n][k] \in {raw, Absent} THEN @ ELSE @ \cup {k}]
      /\ reading' = [reading EXCEPT ![n] = NoRead]
      /\ UNCHANGED <<now, log, hist, calling, applied, outcomes>>
  BY DEF DeleteLocal
<1>3. k \in TtlKeys
  <2>1. ~ NoExpiry(raw)
    BY <1>1, PlainNeverExpires
  <2> QED  BY <1>1, <2>1 DEF TtlInv, PlainOK
<1> HIDE DEF k, raw
<1>4. /\ \A m \in Nodes \ {n} : kv'[m] = kv[m] /\ torn'[m] = torn[m] /\ reading'[m] = reading[m]
      /\ kv'[n] = [kv[n] EXCEPT ![k] = Absent]
      /\ torn'[n] = IF kv[n][k] \in {raw, Absent} THEN torn[n] ELSE torn[n] \cup {k}
      /\ reading'[n] = NoRead
  BY <1>1, <1>2 DEF TypeOK
<1>5. kv'[n][k] = Absent /\ \A l \in Keys \ {k} : kv'[n][l] = kv[n][l]
  BY <1>1, <1>4, Facts DEF Contents
<1>6. TypeOK'
  <2>1. kv' \in [Nodes -> Contents]
    BY <1>1, <1>2 DEF TypeOK, Contents
  <2>2. torn' \in [Nodes -> SUBSET Keys]
    BY <1>1, <1>2 DEF TypeOK
  <2>3. reading' \in [Nodes -> Reads]
    BY <1>1, <1>2 DEF TypeOK, Reads
  <2> QED  BY <1>1, <1>2, <2>1, <2>2, <2>3 DEF TypeOK
<1>7. LogOK' /\ OutcomesOK'
  BY <1>2 DEF TtlInv, LogOK, OutcomesOK, TtlKeys
<1>8. ReadOK'
  BY <1>2, <1>4 DEF TtlInv, ReadOK
<1>9. \A m \in Nodes : (CasKeys(applied[m]))' = CasKeys(applied[m])
  BY <1>2 DEF CasKeys
<1>10. ReapOK'
  <2>1. ASSUME NEW m \in Nodes, NEW l \in Keys, l \notin torn'[m], l \notin CasKeys(applied[m])
        PROVE  \/ kv'[m][l] = hist[applied[m]][l]
               \/ kv'[m][l] = Absent /\ Expired(hist[applied[m]][l], now)
    <3>1. l \notin torn[m]
      BY <2>1, <1>4
    <3>2. \/ kv[m][l] = hist[applied[m]][l]
          \/ kv[m][l] = Absent /\ Expired(hist[applied[m]][l], now)
      BY <2>1, <3>1 DEF TtlInv, ReapOK
    <3>3. CASE m # n \/ l # k
      BY <3>2, <3>3, <1>4, <1>5
    <3>4. CASE m = n /\ l = k
      <4>1. kv[n][k] \in {raw, Absent}
        BY <2>1, <3>4, <1>4
      <4> QED  BY <3>2, <3>4, <4>1, <1>1, <1>5
    <3> QED  BY <3>3, <3>4
  <2> QED  BY <2>1, <1>2, <1>9 DEF ReapOK
<1>11. PlainOK'
  <2>1. TtlKeys' = TtlKeys
    BY <1>2 DEF TtlKeys
  <2>2. \A l \in Keys \ TtlKeys : \A m \in Nodes : kv'[m][l] = kv[m][l]
    BY <1>3, <1>4, <1>5
  <2> QED  BY <2>1, <2>2, <1>2, <1>4 DEF TtlInv, PlainOK
<1> QED  BY <1>6, <1>7, <1>8, <1>10, <1>11 DEF TtlInv

LEMMA NextInv == TtlInv /\ [Next]_vars => TtlInv'
<1> SUFFICES ASSUME TtlInv, [Next]_vars PROVE TtlInv'
  OBVIOUS
<1>1. CASE Tick
  BY <1>1, TickInv
<1>2. ASSUME NEW n \in Nodes, Write(n) PROVE TtlInv'
  <2>1. TypeOK
    BY DEF TtlInv
  <2> QED  BY <1>2, <2>1, WriteIsCall, CallInv
<1>3. ASSUME NEW n \in Nodes, Commit(n) PROVE TtlInv'
  BY <1>3, CommitInv
<1>4. ASSUME NEW n \in Nodes, Apply(n) PROVE TtlInv'
  BY <1>4, ApplyInv
<1>5. ASSUME NEW n \in Nodes, Read(n) PROVE TtlInv'
  BY <1>5, ReadInv, DeleteLocalInv DEF Read
<1>6. CASE UNCHANGED vars
  <2>1. LogOK' /\ ReapOK' /\ OutcomesOK'
    BY <1>6, LogFrame DEF vars
  <2>2. TypeOK'
    BY <1>6 DEF vars, TtlInv, TypeOK
  <2>3. ReadOK'
    BY <1>6 DEF vars, TtlInv, ReadOK
  <2>4. TtlKeys' = TtlKeys
    BY <1>6 DEF vars, TtlKeys
  <2>5. PlainOK'
    BY <1>6, <2>4 DEF vars, TtlInv, PlainOK
  <2> QED  BY <2>1, <2>2, <2>3, <2>5 DEF TtlInv
<1> QED  BY <1>1, <1>2, <1>3, <1>4, <1>5, <1>6 DEF Next

-----------------------------------------------------------------------------
(* The inductive invariant of expiry holds in every reachable state: what  *)
(* a node stores differs from what the log prefix it applied defines only  *)
(* by bytes that expired and that decode_and_reap removed.                 *)
THEOREM TtlInvariance == Spec => []TtlInv
<1>1. Init => TtlInv
  BY InitInv
<1>2. TtlInv /\ [Next]_vars => TtlInv'
  BY NextInv
<1> QED  BY <1>1, <1>2, PTL DEF Spec

(* The state of the nodes and of the calls in progress stays of its type.  *)
THEOREM TypeCorrect == Spec => []TypeOK
<1>1. TtlInv => TypeOK
  BY DEF TtlInv
<1> QED  BY <1>1, TtlInvariance, PTL

(* delete_local is invisible: every key that was not rewritten in the      *)
(* check-to-delete window, and is not under compare-and-swap, is reported  *)
(* by every node as the log prefix it applied defines it.                  *)
THEOREM ReapingInvisible == Spec => []ReapInvisible
<1>1. TtlInv => ReapInvisible
  <2> SUFFICES ASSUME TtlInv, NEW n \in Nodes, NEW k \in Keys \ torn[n],
                      k \notin CasKeys(applied[n])
               PROVE  Shown(kv[n][k], now) = Shown(hist[applied[n]][k], now)
    BY DEF ReapInvisible
  <2>1. \/ kv[n][k] = hist[applied[n]][k]
        \/ kv[n][k] = Absent /\ Expired(hist[applied[n]][k], now)
    BY DEF TtlInv, ReapOK
  <2> QED  BY <2>1 DEF Shown
<1> QED  BY <1>1, TtlInvariance, PTL

(* On a key that never has an expiry, apply_chunk comes to the same        *)
(* outcome of a compare-and-swap on every node.                            *)
THEOREM CasDeterministic == Spec => []CasAgreeWithoutTtl
<1>1. TtlInv => CasAgreeWithoutTtl
  <2> SUFFICES ASSUME TtlInv, NEW i \in 1 .. Len(log), log[i].op = "cas",
                      log[i].key \notin TtlKeys, NEW n \in Nodes, NEW m \in Nodes,
                      i <= applied[n], i <= applied[m]
               PROVE  outcomes[n][i] = outcomes[m][i]
    BY DEF CasAgreeWithoutTtl, AgreeOn
  <2>1. TypeOK
    BY DEF TtlInv
  <2>2. i \in 1 .. applied[n] /\ i \in 1 .. applied[m]
    BY <2>1, Facts
  <2> QED  BY <2>2 DEF TtlInv, OutcomesOK
<1> QED  BY <1>1, TtlInvariance, PTL
=============================================================================
