SPECIFICATION Spec
CONSTANTS
    n1 = n1
    n2 = n2
    Nodes <- TwoNodes
    Keys = {"a"}
    Payloads = {"p"}
    Ttls = {1}
    Calls = {"put", "put_with_ttl"}
    Values <- StoredValues
    Absent = Absent
    MaxLog = 2
    MaxTime = 1
INVARIANT ReapSafe
CHECK_DEADLOCK FALSE
