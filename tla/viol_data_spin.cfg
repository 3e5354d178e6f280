SPECIFICATION FairSpec
CONSTANTS
    Datasets <- RaggedBatch
    ValidTotal = 10
    Layouts <- MCLayouts
    GBS = 8
    RampGBS = 4
    RampUntil = 0
    TrainIters = 4
    EvalInterval = 2
    EvalIters = 0
    Skip <- NoSkip
    Perm <- MCPerm
    MaxCrashes = 1
INVARIANTS
    NeverSpins
CHECK_DEADLOCK FALSE
