SPECIFICATION Spec
CONSTANTS
    Keys = {"a", "b"}
    Values = {"x", "y"}
    Absent = Absent
    Cmds <- MixedCmds
    MaxLog = 2
    MaxTerm = 1
    MaxLag = 0
    MaxFaults = 1
    MaxPanics = 0
INVARIANT ReplicaConsistent
