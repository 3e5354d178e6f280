SPECIFICATION FairSpec
CONSTANTS
    r0 = r0
    r1 = r1
    r2 = r2
    Ranks <- MCRanks
    TrainIters = 6
    SaveInterval = 4
    NonPersistentInterval = 2
    AsyncSave = TRUE
    EvalInterval = 2
    ExitInterval = 4
    ExitOnDuration = TRUE
    ExitOnSignal = TRUE
    HandlerInstalled = TRUE
    MaxSignals = 2
    Detecting <- MCRanks
    Skip <- SkippedSteps
    RampUp <- RampUpSteps
    RerunResults <- AnyResult
INVARIANTS
    TypeOK
    InStep
    EndsSaved
PROPERTIES
    TimeLimitHonoured
    JobEnds
