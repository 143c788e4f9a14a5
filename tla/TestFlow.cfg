SPECIFICATION Spec
CONSTANTS
    FILES = {top, sm}
    MASKS <- Masks
    SUITES <- AllSuites
    REQUESTS <- Requests
    MAX_TIME = 1
    MAX_EDITS = 1
    MAX_RUNS = 2
INVARIANT ImageIsTheOneAsked
INVARIANT VerdictIsTrue
SYMMETRY Symmetry
CHECK_DEADLOCK FALSE
