\* Three caches racing for a line that one of them is evicting; no fence, so progress too.
SPECIFICATION LiveSpec
CONSTANTS
    NUM_MASTERS = 3
    SETS = 1
    WAYS = 1
    Q_DEPTH = 2
    Lines = {a, b}
    IndexOf <- AllInSetZero
    Bytes = {b0}
    Val = {0, 1}
    NoData = NoData
    Workload <- EvictRace
    Fences = FALSE
INVARIANTS
    SingleOwner
    ResponsesAreAwaited
    LatestSurvives
PROPERTIES
    EverySnoopAnswered
    EveryRequestCompletes
