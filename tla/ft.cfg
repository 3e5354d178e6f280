SPECIFICATION FairSpec
CONSTANTS
    Warmup = 1
    MinIters = 2
    TrainIters = 3
    EvalIters = 2
    Calculating = TRUE
    AsyncSave = FALSE
    InProcess = TRUE
    MaxFaults = 2
INVARIANTS
    TypeOK
    SectionsPaired
    SectionsMatchWork
    TimeoutsFounded
    TimeoutsKept
PROPERTIES
    JobEnds
CHECK_DEADLOCK FALSE
