SPECIFICATION Spec
CONSTANTS
    Warmup = 1
    MinIters = 2
    TrainIters = 3
    EvalIters = 2
    Calculating = TRUE
    AsyncSave = FALSE
    InProcess = TRUE
    MaxFaults = 1
INVARIANTS
    LaunchesStart
CHECK_DEADLOCK FALSE
