SPECIFICATION Spec
CONSTANTS
    n1 = n1
    n2 = n2
    Nodes <- TwoNodes
    Keys = {"a", "b"}
    Payloads = {"p"}
    Ttls = {1}
    Calls = {"put", "put_with_ttl", "batch", "delete", "put_if_absent", "compare_and_swap"}
    Values <- StoredValues
    Absent = Absent
    MaxLog = 2
    MaxTime = 1
SYMMETRY Members
INVARIANTS TypeOK TtlInv ReapInvisible CasAgreeWithoutTtl
CHECK_DEADLOCK FALSE
