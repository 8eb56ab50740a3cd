SPECIFICATION Spec
CONSTANTS
    h1 = h1
    h2 = h2
    w1 = w1
    Handles <- TwoHandles
    NoHandle = NoHandle
    Keys = {"a"}
    Values = {"x"}
    Absent = Absent
    Workload <- SetThenRemove
    Cmds <- SetAndRemove
    MaxLog = 2
    MaxTerm = 1
    MaxLag = 1
    MaxFaults = 1
    MaxPanics = 0
    Writers <- OneWriter
    MaxIndex = 3
    MaxCrashes = 1
SYMMETRY HandlePermutations
VIEW NodeView
INVARIANTS TypeOK NodeInv Exclusive PurgeCovered
PROPERTIES OneAtATime PersistedUnderLock
CHECK_DEADLOCK FALSE
