\* Two caches of two ways, three lines and a queue of two slots.
SPECIFICATION Spec
CONSTANTS
    NUM_MASTERS = 2
    SETS = 1
    WAYS = 2
    Q_DEPTH = 2
    Lines = {a, b, c}
    IndexOf <- AllInSetZero
    Bytes = {b0}
    Val = {0}
    NoData = NoData
    Workload <- AnyWorkload
    Fences = FALSE
SYMMETRY LineSymmetry
INVARIANTS
    OneTransactionPerLine
    QueueHasRoom
    IInv
