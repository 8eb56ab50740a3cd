SPECIFICATION Spec
CONSTANTS
    MaxByte = 1
    Keys <- StoredKeys
    Bounds <- CallerKeys
    Limits = {0, 1}
    MaxUsize = 9
    MaxWrites = 0
INVARIANT AtMostLimit
