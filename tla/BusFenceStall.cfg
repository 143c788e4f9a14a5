\* Two caches, two lines that evict each other, and a fence at any time: progress?
CONSTANTS
    NUM_MASTERS = 2
    SETS = 1
    WAYS = 1
    Q_DEPTH = 2
    Lines = {a, b}
    IndexOf <- AllInSetZero
    Bytes = {b0}
    Val = {0}
    NoData = NoData
    Workload <- AnyWorkload
    Fences = TRUE
SPECIFICATION LiveSpec
CHECK_DEADLOCK FALSE
PROPERTY EverySnoopAnswered
