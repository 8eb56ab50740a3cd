------------------------------ MODULE MCDLmdb ------------------------------
(* A cluster of two nodes *)
EXTENDS DLmdb, TLC

CONSTANTS n1, n2

TwoNodes == {n1, n2}

(* The nodes are interchangeable *)
Members == Permutations(TwoNodes)

(* Every stored value that can come up *)
StoredValues ==
    {Raw(p) : p \in Payloads}
      \cup UNION {{Ttl(p, t + ttl) : t \in 0 .. MaxTime, ttl \in Ttls} : p \in Payloads}
=============================================================================
