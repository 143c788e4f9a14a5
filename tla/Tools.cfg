SPECIFICATION ToolsSpec
CONSTANTS
    W = 26
    WMMA_TILE = 2
    MAX_STEPS = 500
    FXW = 12
    STACK_DEPTH = 2
    Jobs <- AllJobs
    Queries <- AllQueries
    REF <- SixBits
INVARIANT KernelKeepsItsMeaning
INVARIANT TilesComputeTheProduct
INVARIANT RegistersAreReturned
INVARIANT FpRefRoundsOnce
INVARIANT MultipliersAgree
INVARIANT Fp8ProductIsExact
INVARIANT Fp8RoundsToNearest
INVARIANT AdderLosesLessThanAnUlp
INVARIANT TensorGoldenIsTheProduct
INVARIANT ReciprocalConverges
INVARIANT HitsAreGeometric
INVARIANT TraversalFindsNearest
INVARIANT StimulusHitsItsCorner
PROPERTY KernelsExit
CHECK_DEADLOCK FALSE
