SPECIFICATION LiveSpec
CONSTANTS
    Keys = {"a", "b"}
    Values = {"x", "y"}
    Absent = Absent
    Cmds <- BatchAndCas
    MaxLog = 2
    MaxTerm = 2
    MaxLag = 2
    MaxFaults = 2
    MaxPanics = 1
INVARIANTS TypeOK IInv RecoverySound SnapshotSound Converged IdsAreLogIds ServesUnlessPanic
PROPERTIES BackOnlyTogether EventuallyApplied
