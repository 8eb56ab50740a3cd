------------------------------ MODULE Commands ------------------------------
(***************************************************************************)
(* What one replicated command does to the key-value database: the match   *)
(* of LmdbStateMachine::apply_chunk (state_machine.rs).  A database is a   *)
(* total function from keys to a value or Absent (no entry in LMDB).       *)
(* Values stand for the stored bytes: the wire tag and an expiry, where    *)
(* there is one, are part of a value.                                      *)
(***************************************************************************)
EXTENDS Naturals, Sequences

CONSTANTS
    Keys,       \* keys of the kv database
    Values,     \* raw byte strings stored under a key
    Absent      \* stands for "no entry"

ASSUME AbsentAssumption == Absent \notin Values

Contents == [Keys -> Values \cup {Absent}]

Empty == [k \in Keys |-> Absent]

(* BatchOp::Insert / BatchOp::Delete; the same two as commands of their own *)
WriteOp == [op : {"insert"}, key : Keys, value : Values]
             \cup [op : {"delete"}, key : Keys]

(* Command::CompareAndSwap; expected = Absent is the None of put_if_absent *)
CasOp == [op : {"cas"}, key : Keys, expected : Values \cup {Absent}, value : Values]

Command == WriteOp \cup CasOp
             \cup [op : {"batch"}, ops : Seq(WriteOp)]
             \cup [op : {"noop"}]

(* The keys a command may write *)
Writes(cmd) ==
    CASE cmd.op = "batch" -> {cmd.ops[i].key : i \in DOMAIN cmd.ops}
      [] cmd.op = "noop"  -> {}
      [] cmd.op \in {"insert", "delete", "cas"} -> {cmd.key}

(* What a put or a delete leaves under its key *)
Written(o) == IF o.op = "insert" THEN o.value ELSE Absent

(* The position of the last operation of a batch on key k: the ops are put *)
(* and deleted in order in one write transaction, so that one decides.     *)
LastOn(ops, k) ==
    CHOOSE i \in DOMAIN ops :
        ops[i].key = k /\ \A j \in DOMAIN ops : ops[j].key = k => j <= i

BatchWrites(ops, kv) ==
    [k \in Keys |-> IF \E i \in DOMAIN ops : ops[i].key = k
                      THEN Written(ops[LastOn(ops, k)]) ELSE kv[k]]

(* (None, None) and (Some(c), Some(e)) with c == e match; bytes are compared raw *)
Matches(cmd, kv) == kv[cmd.key] = cmd.expected

CompareAndSwap(cmd, kv) ==
    IF Matches(cmd, kv) THEN [kv EXCEPT ![cmd.key] = cmd.value] ELSE kv

(* The database after one entry of apply_chunk *)
ApplyCommand(cmd, kv) ==
    CASE cmd.op = "batch" -> BatchWrites(cmd.ops, kv)
      [] cmd.op = "noop"  -> kv
      [] cmd.op = "cas"   -> CompareAndSwap(cmd, kv)
      [] cmd.op \in {"insert", "delete"} -> [kv EXCEPT ![cmd.key] = Written(cmd)]

(* ApplyResult::success / ApplyResult::failure of the entry *)
Succeeds(cmd, kv) == cmd.op = "cas" => Matches(cmd, kv)
=============================================================================
