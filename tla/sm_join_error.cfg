SPECIFICATION Spec
CONSTANTS
    Keys = {"a", "b"}
    Values = {"x", "y"}
    Absent = Absent
    Cmds <- BlindCmds
    MaxLog = 1
    MaxTerm = 1
    MaxLag = 0
    MaxFaults = 1
    MaxPanics = 1
INVARIANT ResumesServing
