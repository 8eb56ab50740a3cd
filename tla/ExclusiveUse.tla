---------------------------- MODULE ExclusiveUse ----------------------------
(***************************************************************************)
(* What the data_dir lock promises (lock.rs): of all handles, at most one  *)
(* at a time uses the directory, from the moment it opens something in it  *)
(* until it has nothing open any more.                                     *)
(***************************************************************************)
CONSTANT Handles

VARIABLE users

Init == users = {}

Enter(h) == users = {} /\ users' = {h}

Leave(h) == users = {h} /\ users' = {}

Next == \E h \in Handles : Enter(h) \/ Leave(h)

Spec == Init /\ [][Next]_users
=============================================================================
