------------------------------- MODULE DLmdb -------------------------------
(***************************************************************************)
(* The DLmdb handle (db.rs) on the nodes of a cluster: writes that become  *)
(* log entries, values with an expiry, and point reads that decide about   *)
(* expiry with the node's clock and delete expired bytes locally.          *)
(*                                                                         *)
(* External (d-engine): a write is appended to the one committed log; each *)
(* node applies the log in order; a linearizable or lease read returns raw *)
(* bytes of the node it was made on, once that has applied every committed *)
(* entry.  All nodes read the same clock: nothing depends on clock skew.   *)
(***************************************************************************)
EXTENDS Commands

CONSTANTS
    Nodes,          \* members of the cluster
    Payloads,       \* values as clients see them
    Ttls,           \* ttl_secs clients pass
    Calls,          \* write calls clients make: a subset of CallKinds
    MaxLog,         \* bound: committed entries
    MaxTime         \* bound: the clock

CallKinds == {"put", "put_with_ttl", "batch", "delete", "put_if_absent", "compare_and_swap"}

ASSUME CallsAssumption ==
    /\ Calls \subseteq CallKinds
    /\ MaxLog \in Nat /\ MaxTime \in Nat /\ Ttls \subseteq Nat

(* Value::encode_raw and Value::encode_ttl: a tag, the expiry, the payload *)
Raw(p) == [tag |-> "raw", payload |-> p]
Ttl(p, e) == [tag |-> "ttl", expires_at |-> e, payload |-> p]

ASSUME ValuesAssumption ==
    Values = {Raw(p) : p \in Payloads}
               \cup UNION {{Ttl(p, t + ttl) : t \in 0 .. MaxTime, ttl \in Ttls} : p \in Payloads}

VARIABLES
    now,        \* unix_now_secs()
    log,        \* external: the committed commands
    hist,       \* ghost: hist[i] is the database after entries 1..i, nothing deleted locally
    calling,    \* per node: the command of a write call that awaits its commit
    kv,         \* per node: contents of its kv database
    applied,    \* per node: entries applied
    outcomes,   \* per node: per entry, ApplyResult success
    reading,    \* per node: the point read in progress
    torn        \* ghost: per node, keys delete_local removed another value of than was read

vars == <<now, log, hist, calling, kv, applied, outcomes, reading, torn>>

-----------------------------------------------------------------------------
NoCall == [op |-> "none"]
NoRead == [pc |-> "idle"]

Reads == {NoRead} \cup [pc : {"fetched", "expired"}, key : Keys, raw : Values \cup {Absent}]

TypeOK ==
    /\ now \in 0 .. MaxTime
    /\ log \in Seq(Command)
    /\ hist \in [0 .. Len(log) -> Contents]
    /\ calling \in [Nodes -> Command \cup {NoCall}]
    /\ kv \in [Nodes -> Contents]
    /\ applied \in [Nodes -> 0 .. Len(log)]
    /\ outcomes \in [Nodes -> Seq(BOOLEAN)]
    /\ reading \in [Nodes -> Reads]
    /\ torn \in [Nodes -> SUBSET Keys]

Init ==
    /\ now = 0
    /\ log = <<>> /\ hist = [i \in 0 .. 0 |-> Empty]
    /\ calling = [n \in Nodes |-> NoCall]
    /\ kv = [n \in Nodes |-> Empty] /\ applied = [n \in Nodes |-> 0]
    /\ outcomes = [n \in Nodes |-> <<>>]
    /\ reading = [n \in Nodes |-> NoRead]
    /\ torn = [n \in Nodes |-> {}]

Tick ==
    /\ now < MaxTime
    /\ now' = now + 1
    /\ UNCHANGED <<log, hist, calling, kv, applied, outcomes, reading, torn>>

-----------------------------------------------------------------------------
(* Writes: the value is encoded, with its expiry, when the call is made *)

Call(n, kind, cmd) ==
    /\ kind \in Calls /\ calling[n] = NoCall /\ Len(log) < MaxLog
    /\ calling' = [calling EXCEPT ![n] = cmd]
    /\ UNCHANGED <<now, log, hist, kv, applied, outcomes, reading, torn>>

Put(n, k, p) == Call(n, "put", [op |-> "insert", key |-> k, value |-> Raw(p)])

(* Mutant: the expiry lies one second too late *)
PutWithTtlLate(n, k, p, ttl) ==
    Call(n, "put_with_ttl", [op |-> "insert", key |-> k, value |-> Ttl(p, now + ttl + 1)])

PutWithTtl(n, k, p, ttl) ==
    Call(n, "put_with_ttl", [op |-> "insert", key |-> k, value |-> Ttl(p, now + ttl)])

(* Every inserted value is encoded raw *)
Batch(n, k, p, d) ==
    Call(n, "batch", [op |-> "batch", ops |-> <<[op |-> "insert", key |-> k, value |-> Raw(p)],
                                               [op |-> "delete", key |-> d]>>])

Delete(n, k) == Call(n, "delete", [op |-> "delete", key |-> k])

PutIfAbsent(n, k, p) ==
    Call(n, "put_if_absent", [op |-> "cas", key |-> k, expected |-> Absent, value |-> Raw(p)])

(* The expected value is encoded raw too *)
Cas(n, k, e, p) ==
    Call(n, "compare_and_swap", [op |-> "cas", key |-> k, expected |-> Raw(e), value |-> Raw(p)])

(* External: Raft commits the call's command *)
Commit(n) ==
    /\ calling[n] # NoCall /\ Len(log) < MaxLog
    /\ log' = Append(log, calling[n])
    /\ hist' = [i \in 0 .. Len(log) + 1 |->
                  IF i <= Len(log) THEN hist[i] ELSE ApplyCommand(calling[n], hist[Len(log)])]
    /\ calling' = [calling EXCEPT ![n] = NoCall]
    /\ UNCHANGED <<now, kv, applied, outcomes, reading, torn>>

(* apply_chunk on a node: the next entry *)
Apply(n) ==
    /\ applied[n] < Len(log)
    /\ LET cmd == log[applied[n] + 1]
       IN  /\ kv' = [kv EXCEPT ![n] = ApplyCommand(cmd, @)]
           /\ outcomes' = [outcomes EXCEPT ![n] = Append(@, Succeeds(cmd, kv[n]))]
           /\ torn' = [torn EXCEPT ![n] = IF cmd.op = "cas" THEN @ ELSE @ \ Writes(cmd)]
    /\ applied' = [applied EXCEPT ![n] = @ + 1]
    /\ UNCHANGED <<now, log, hist, calling, reading>>

-----------------------------------------------------------------------------
(* Point reads *)

(* Mutant: the tag is not looked at *)
ExpiredAnyTag(v, t) == v # Absent /\ (v.tag = "ttl" => v.expires_at <= t)

(* decode_live_value: past its expiry at time t *)
Expired(v, t) == v # Absent /\ v.tag = "ttl" /\ v.expires_at <= t

(* What a reader is told about a stored value at time t *)
Shown(v, t) == IF v = Absent \/ Expired(v, t) THEN Absent ELSE v.payload

(* get, exists, get_multi: raw bytes from a read transaction of the node.   *)
(* get_linearizable and get_lease take the same step on a node that has    *)
(* applied every committed entry, and await their answer before decoding.  *)
Fetch(n, k) ==
    /\ reading[n] = NoRead
    /\ reading' = [reading EXCEPT ![n] = [pc |-> "fetched", key |-> k, raw |-> kv[n][k]]]
    /\ UNCHANGED <<now, log, hist, calling, kv, applied, outcomes, torn>>

(* Mutant: any value with an expiry counts as expired *)
DecodeIgnoresClock(n) ==
    /\ reading[n] # NoRead /\ reading[n].pc = "fetched"
    /\ reading' = [reading EXCEPT ![n] =
                     IF reading[n].raw # Absent /\ reading[n].raw.tag = "ttl"
                       THEN [@ EXCEPT !.pc = "expired"] ELSE NoRead]
    /\ UNCHANGED <<now, log, hist, calling, kv, applied, outcomes, torn>>

(* Mutant: the expiry is checked against a clock that is ahead *)
DecodeEarly(n) ==
    /\ reading[n] # NoRead /\ reading[n].pc = "fetched"
    /\ reading' = [reading EXCEPT ![n] =
                     IF Expired(reading[n].raw, now + 1) THEN [@ EXCEPT !.pc = "expired"] ELSE NoRead]
    /\ UNCHANGED <<now, log, hist, calling, kv, applied, outcomes, torn>>

(* decode_and_reap: nothing there or live: return; expired: go on to delete *)
Decode(n) ==
    /\ reading[n] # NoRead /\ reading[n].pc = "fetched"
    /\ reading' = [reading EXCEPT ![n] =
                     IF Expired(reading[n].raw, now) THEN [@ EXCEPT !.pc = "expired"] ELSE NoRead]
    /\ UNCHANGED <<now, log, hist, calling, kv, applied, outcomes, torn>>

(* delete_local: whatever is under the key by now *)
DeleteLocal(n) ==
    /\ reading[n] # NoRead /\ reading[n].pc = "expired"
    /\ LET k == reading[n].key
       IN  /\ kv' = [kv EXCEPT ![n][k] = Absent]
           /\ torn' = [torn EXCEPT ![n] =
                         IF kv[n][k] \in {reading[n].raw, Absent} THEN @ ELSE @ \cup {k}]
    /\ reading' = [reading EXCEPT ![n] = NoRead]
    /\ UNCHANGED <<now, log, hist, calling, applied, outcomes>>

Write(n) ==
    \/ \E k \in Keys, p \in Payloads : Put(n, k, p) \/ PutIfAbsent(n, k, p)
    \/ \E k \in Keys, p \in Payloads, ttl \in Ttls : PutWithTtl(n, k, p, ttl)
    \/ \E k \in Keys, e, p \in Payloads : Cas(n, k, e, p)
    \/ \E k, d \in Keys, p \in Payloads : Batch(n, k, p, d)
    \/ \E k \in Keys : Delete(n, k)

Read(n) ==
    \/ \E k \in Keys : Fetch(n, k)
    \/ Decode(n) \/ DeleteLocal(n)

Next ==
    \/ Tick
    \/ \E n \in Nodes : Write(n) \/ Commit(n) \/ Apply(n) \/ Read(n)

Spec == Init /\ [][Next]_vars

-----------------------------------------------------------------------------
(* Properties *)

(* Keys a compare-and-swap among the first i entries is about *)
CasKeys(i) == {log[j].key : j \in {j \in 1 .. i : log[j].op = "cas"}}

(* Deleting expired bytes locally does not change what a node reports: for *)
(* every key it shows what the log prefix it applied makes of it, whoever  *)
(* has read it before; except for keys that were written between a reader's *)
(* expiry check and its delete_local, and for keys under compare-and-swap. *)
ReapInvisible ==
    \A n \in Nodes : \A k \in Keys \ torn[n] :
        k \notin CasKeys(applied[n])
            => Shown(kv[n][k], now) = Shown(hist[applied[n]][k], now)

(* "it doesn't change what any node reports for this key" (delete_local):  *)
(* without the exception for the check-to-delete window.                   *)
ReapSafe ==
    \A n \in Nodes, k \in Keys :
        k \notin CasKeys(applied[n])
            => Shown(kv[n][k], now) = Shown(hist[applied[n]][k], now)

(* Keys that are ever given an expiry *)
TtlKeys == {log[j].key : j \in {j \in 1 .. Len(log) :
              log[j].op = "insert" /\ log[j].value.tag = "ttl"}}

AgreeOn(i) ==
    \A n, m \in Nodes : i <= applied[n] /\ i <= applied[m] => outcomes[n][i] = outcomes[m][i]

(* On a key that never has an expiry, all nodes come to the same outcome   *)
(* of a compare-and-swap or put_if_absent, whatever they were read for.    *)
CasAgreeWithoutTtl ==
    \A i \in 1 .. Len(log) : log[i].op = "cas" /\ log[i].key \notin TtlKeys => AgreeOn(i)

(* The same for every key ("replicated and strongly consistent", lib.rs).  *)
CasAgree == \A i \in 1 .. Len(log) : AgreeOn(i)

-----------------------------------------------------------------------------
(* The inductive invariant *)

NoExpiry(v) == v = Absent \/ v.tag # "ttl"

(* Only a put on its own stores an expiry *)
RawOnly(cmd) ==
    /\ cmd.op = "cas" => NoExpiry(cmd.value)
    /\ cmd.op = "batch" => \A i \in DOMAIN cmd.ops : NoExpiry(Written(cmd.ops[i]))

LogOK ==
    /\ \A i \in 1 .. Len(log) : hist[i] = ApplyCommand(log[i], hist[i - 1]) /\ RawOnly(log[i])
    /\ \A n \in Nodes : calling[n] # NoCall => RawOnly(calling[n])

(* An expiry that has passed stays passed until the delete *)
ReadOK ==
    \A n \in Nodes : reading[n] # NoRead /\ reading[n].pc = "expired"
                        => Expired(reading[n].raw, now)

(* What a node stores is what its log prefix makes of a key, or the node   *)
(* has removed it and it is past its expiry                                *)
ReapOK ==
    \A n \in Nodes : \A k \in Keys \ (torn[n] \cup CasKeys(applied[n])) :
        \/ kv[n][k] = hist[applied[n]][k]
        \/ kv[n][k] = Absent /\ Expired(hist[applied[n]][k], now)

(* A key without expiry is never touched by a reader *)
PlainOK ==
    \A k \in Keys \ TtlKeys :
        /\ \A i \in 0 .. Len(log) : NoExpiry(hist[i][k])
        /\ \A n \in Nodes :
              /\ kv[n][k] = hist[applied[n]][k]
              /\ reading[n] # NoRead /\ reading[n].key = k => NoExpiry(reading[n].raw)

OutcomesOK ==
    \A n \in Nodes :
        /\ Len(outcomes[n]) = applied[n]
        /\ \A i \in 1 .. applied[n] :
              log[i].op = "cas" /\ log[i].key \notin TtlKeys
                  => outcomes[n][i] = Matches(log[i], hist[i - 1])

(* Contents, outcomes and pending reaps of every node are those the log    *)
(* defines, up to expired values that a reader has removed.                *)
TtlInv == TypeOK /\ LogOK /\ ReadOK /\ ReapOK /\ PlainOK /\ OutcomesOK
=============================================================================
