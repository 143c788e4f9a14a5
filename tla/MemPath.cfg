\* Two lines that evict each other, stores, fences and narrow traffic.
SPECIFICATION LiveSpec
CONSTANTS
    SETS = 1
    WAYS = 1
    FIFO_DEPTH = 2
    WORDS = 2
    Lines = {a, b}
    IndexOf <- AllInSetZero
    Val = {0, 1}
    Zero = 0
    Contents <- Plain
    AtReset <- Cleared
    NoLine = NoLine
INVARIANTS
    MemInv
    StoresAreDurable
    FlushLeavesNothing
PROPERTIES
    EveryRequestServed
    NarrowServed
    PoppedIsServed
