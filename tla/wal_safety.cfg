SPECIFICATION Spec
CONSTANTS
    w1 = w1
    w2 = w2
    Writers <- TwoWriters
    MaxIndex = 4
    MaxTerm = 2
    MaxCrashes = 2
SYMMETRY Workers
INVARIANTS TypeOK WalInv Faithful AckedVisible NeverAhead RestartAgrees
