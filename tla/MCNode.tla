------------------------------- MODULE MCNode -------------------------------
(* Node with two handles, one after the other, and one key *)
EXTENDS Node, TLC

CONSTANTS h1, h2, w1

TwoHandles == {h1, h2}
OneWriter == {w1}

(* Handles are interchangeable *)
HandlePermutations == Permutations(TwoHandles)

Set == [op |-> "insert", key |-> "a", value |-> "x"]
Remove == [op |-> "delete", key |-> "a"]

(* From an overlap on the databases stand still as they were checked before *)
(* it and no step depends on them: what is left to tell states apart by is  *)
(* the directory                                                            *)
NodeView == IF overlap THEN <<dir>> ELSE <<dir, store, wal>>

SetThenRemove == <<Set, Remove>>
SetAndRemove == {Set, Remove}
=============================================================================
