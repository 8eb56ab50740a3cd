--------------------------- MODULE MCStateMachine ---------------------------
(* Commands for checking LmdbStateMachine: two keys, two values *)
EXTENDS LmdbStateMachine

Insert(k, v) == [op |-> "insert", key |-> k, value |-> v]
Delete(k) == [op |-> "delete", key |-> k]
Cas(k, e, v) == [op |-> "cas", key |-> k, expected |-> e, value |-> v]

TwoKeys == [op |-> "batch", ops |-> <<Insert("a", "x"), Insert("b", "y"), Insert("a", "y")>>]

(* With compare-and-swap: one on a fresh key, one on a value *)
MixedCmds == {Delete("a"), TwoKeys, Cas("a", "x", "y"), Cas("a", Absent, "x")}

(* Writes that do not look at the database *)
BlindCmds == {Delete("a"), TwoKeys, [op |-> "noop"]}

(* A batch that puts one key and removes the other, and a compare-and-swap *)
PutAndRemove == [op |-> "batch", ops |-> <<Insert("a", "y"), Insert("b", "y"), Delete("a")>>]
BatchAndCas == {PutAndRemove, Cas("a", Absent, "x")}

(* The loop of Command::Batch taken literally: each op on what the previous left *)
RECURSIVE InOrder(_, _)
InOrder(ops, kv) ==
    IF ops = <<>> THEN kv
    ELSE InOrder(Tail(ops), [kv EXCEPT ![Head(ops).key] = Written(Head(ops))])

(* BatchWrites against that loop, for every batch of up to three operations *)
ASSUME BatchInOrder ==
    \A n \in 0 .. 3 : \A ops \in [1 .. n -> WriteOp] :
        \A kv \in Contents : BatchWrites(ops, kv) = InOrder(ops, kv)
=============================================================================
