SPECIFICATION Spec
CONSTANTS
    n1 = n1
    n2 = n2
    Nodes <- TwoNodes
    Keys = {"a"}
    Payloads = {"p"}
    Ttls = {1}
    Calls = {"put_with_ttl", "put_if_absent"}
    Values <- StoredValues
    Absent = Absent
    MaxLog = 2
    MaxTime = 1
INVARIANT CasAgree
CHECK_DEADLOCK FALSE
