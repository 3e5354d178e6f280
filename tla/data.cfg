SPECIFICATION FairSpec
CONSTANTS
    Datasets <- MCDatasets
    ValidTotal = 10
    Layouts <- MCLayouts
    GBS = 8
    RampGBS = 4
    RampUntil = 4
    TrainIters = 4
    EvalInterval = 1
    EvalIters = 1
    Skip <- MCSkip
    Perm <- MCPerm
    MaxCrashes = 2
INVARIANTS
    TypeOK
    RanksAligned
    DisjointBatches
    ExactlyOnce
    ResumesTheStream
PROPERTIES
    CountersFollowSteps
    Finishes
CHECK_DEADLOCK FALSE
