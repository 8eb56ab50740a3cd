SPECIFICATION Spec
CONSTANTS
    MaxByte = 1
    Keys <- StoredKeys
    Bounds <- CallerKeys
    Limits = {0, 1, 2}
    MaxUsize = 9
    MaxWrites = 1
INVARIANTS TypeOK ScanInv ScanCorrect PagesComplete
