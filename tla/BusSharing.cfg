\* Two caches, false sharing of a line of two bytes, an evicting line, fences.
SPECIFICATION Spec
CONSTANTS
    NUM_MASTERS = 2
    SETS = 1
    WAYS = 1
    Q_DEPTH = 2
    Lines = {a, b}
    IndexOf <- AllInSetZero
    Bytes = {b0, b1}
    Val = {0, 1}
    NoData = NoData
    Workload <- FalseSharing
    Fences = TRUE
CHECK_DEADLOCK FALSE
INVARIANTS
    CopiesAreLatest
    MemoryInv
    FlushedToL2
PROPERTY
    RefinesLineMemory
