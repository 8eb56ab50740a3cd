-------------------------- MODULE Commands_proofs --------------------------
(* What replaying a command does to a key, for every command and database *)
EXTENDS Commands, WellFoundedInduction, TLAPS

(* A non-empty set of positions of a sequence has a greatest element *)
LEMMA GreatestPosition ==
    ASSUME NEW n \in Nat, NEW S, S \subseteq 1 .. n, S # {}
    PROVE  \E i \in S : \A j \in S : j <= i
<1> DEFINE T == {n - i : i \in S}
<1>1. T \subseteq Nat /\ T # {}
  <2>1. \A i \in S : n - i \in Nat
    OBVIOUS
  <2>2. PICK i \in S : TRUE
    OBVIOUS
  <2> QED  BY <2>1, <2>2
<1>2. PICK m \in T : \A y \in T : ~ (<<y, m>> \in OpToRel(<, Nat))
  <2> HIDE DEF T
  <2> QED  BY <1>1, WFMin, NatLessThanWellFounded
<1>3. PICK i \in S : m = n - i
  OBVIOUS
<1>4. \A j \in S : j <= i
  <2> SUFFICES ASSUME NEW j \in S PROVE j <= i
    OBVIOUS
  <2>1. n - j \in T /\ n - j \in Nat /\ m \in Nat
    BY <1>1
  <2>2. ~ (n - j < m)
    BY <1>2, <2>1 DEF OpToRel
  <2> QED  BY <2>1, <2>2, <1>3
<1> QED  BY <1>4

(* The operation of a batch that decides about a key is one of its operations *)
LEMMA LastOnInBatch ==
    ASSUME NEW ops \in Seq(WriteOp), NEW k, \E i \in DOMAIN ops : ops[i].key = k
    PROVE  LastOn(ops, k) \in DOMAIN ops
<1> DEFINE S == {i \in DOMAIN ops : ops[i].key = k}
<1>1. S \subseteq 1 .. Len(ops) /\ S # {} /\ Len(ops) \in Nat
  OBVIOUS
<1>2. \E i \in S : \A j \in S : j <= i
  <2> HIDE DEF S
  <2> QED  BY <1>1, GreatestPosition
<1> QED  BY <1>2 DEF LastOn

(* apply_chunk keeps the database a function from keys to a value or Absent *)
LEMMA ApplyCommandType ==
    ASSUME NEW cmd \in Command, NEW kv \in Contents
    PROVE  ApplyCommand(cmd, kv) \in Contents
<1>1. CASE cmd.op = "batch"
  <2>1. cmd.ops \in Seq(WriteOp)
    BY <1>1 DEF Command, WriteOp, CasOp
  <2>2. ASSUME NEW o \in WriteOp PROVE Written(o) \in Values \cup {Absent}
    BY DEF WriteOp, Written
  <2>3. ASSUME NEW k \in Keys, \E i \in DOMAIN cmd.ops : cmd.ops[i].key = k
        PROVE  Written(cmd.ops[LastOn(cmd.ops, k)]) \in Values \cup {Absent}
    <3>1. LastOn(cmd.ops, k) \in DOMAIN cmd.ops
      BY <2>1, <2>3, LastOnInBatch
    <3>2. cmd.ops[LastOn(cmd.ops, k)] \in WriteOp
      BY <2>1, <3>1
    <3> QED  BY <3>2, <2>2
  <2> QED  BY <1>1, <2>3 DEF ApplyCommand, BatchWrites, Contents
<1>2. CASE cmd.op # "batch"
  BY <1>2 DEF Command, WriteOp, CasOp, ApplyCommand, CompareAndSwap, Written, Contents
<1> QED  BY <1>1, <1>2

(* A command leaves the keys it does not write alone *)
LEMMA ApplyCommandFrame ==
    ASSUME NEW cmd \in Command, NEW kv \in Contents, NEW k \in Keys, k \notin Writes(cmd)
    PROVE  ApplyCommand(cmd, kv)[k] = kv[k]
<1>1. CASE cmd.op = "batch"
  BY <1>1 DEF ApplyCommand, BatchWrites, Writes
<1>2. CASE cmd.op # "batch"
  BY <1>2 DEF Command, WriteOp, CasOp, ApplyCommand, CompareAndSwap, Written, Writes, Contents
<1> QED  BY <1>1, <1>2

(* Except for a compare-and-swap, what a command writes under a key does   *)
(* not depend on the database it is applied to                             *)
LEMMA ApplyCommandBlind ==
    ASSUME NEW cmd \in Command, cmd.op # "cas",
           NEW kv1 \in Contents, NEW kv2 \in Contents, NEW k \in Writes(cmd), k \in Keys
    PROVE  ApplyCommand(cmd, kv1)[k] = ApplyCommand(cmd, kv2)[k]
<1>1. CASE cmd.op = "batch"
  <2>1. \E i \in DOMAIN cmd.ops : cmd.ops[i].key = k
    BY <1>1 DEF Writes
  <2> QED  BY <1>1, <2>1 DEF ApplyCommand, BatchWrites
<1>2. CASE cmd.op # "batch"
  BY <1>2 DEF Command, WriteOp, CasOp, ApplyCommand, Written, Writes, Contents
<1> QED  BY <1>1, <1>2

(* What a command leaves under a key depends on the database only through that key *)
LEMMA ApplyCommandLocal ==
    ASSUME NEW cmd \in Command, NEW kv1 \in Contents, NEW kv2 \in Contents, NEW k \in Keys,
           kv1[k] = kv2[k]
    PROVE  ApplyCommand(cmd, kv1)[k] = ApplyCommand(cmd, kv2)[k]
<1>1. CASE k \notin Writes(cmd)
  BY <1>1, ApplyCommandFrame
<1>2. CASE k \in Writes(cmd) /\ cmd.op # "cas"
  BY <1>2, ApplyCommandBlind
<1>3. CASE k \in Writes(cmd) /\ cmd.op = "cas"
  <2>1. cmd.key = k
    BY <1>3 DEF Writes
  <2>2. /\ ApplyCommand(cmd, kv1) = CompareAndSwap(cmd, kv1)
        /\ ApplyCommand(cmd, kv2) = CompareAndSwap(cmd, kv2)
    BY <1>3 DEF ApplyCommand
  <2> QED  BY <2>1, <2>2 DEF CompareAndSwap, Matches, Contents
<1> QED  BY <1>1, <1>2, <1>3
=============================================================================
