SPECIFICATION Spec
CONSTANTS
    r0 = r0
    r1 = r1
    r2 = r2
    Ranks <- MCRanks
    TrainIters = 5
    SaveInterval = 4
    NonPersistentInterval = 0
    AsyncSave = FALSE
    EvalInterval = 0
    ExitInterval = 0
    ExitOnDuration = FALSE
    ExitOnSignal = TRUE
    HandlerInstalled = FALSE
    MaxSignals = 1
    Detecting <- NoRanks
    Skip <- NoSteps
    RampUp <- NoSteps
    RerunResults <- NoReruns
INVARIANTS
    SignalSavesBeforeExit
CHECK_DEADLOCK FALSE
