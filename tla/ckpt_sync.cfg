SPECIFICATION Spec
CONSTANTS
    r0 = r0
    r1 = r1
    Ranks <- MCRanks
    TrainIters = 4
    AsyncSave = FALSE
    MostRecentK = 2
    NonPersistent = FALSE
    SavesTwice = FALSE
    MaxCrashes = 1
    MaxInFlight = 1
SYMMETRY RankSymmetry
INVARIANTS
    TypeOK
    LatestRestorable
    TrackerNamesCheckpoint
PROPERTIES
    SaveReturnsDurable
    ImplementsDurableProgress
