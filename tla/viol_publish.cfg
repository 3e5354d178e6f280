SPECIFICATION Spec
CONSTANTS
    r0 = r0
    r1 = r1
    Ranks <- MCRanks
    TrainIters = 3
    AsyncSave = FALSE
    MostRecentK <- KeepAll
    NonPersistent = FALSE
    SavesTwice = FALSE
    MaxCrashes = 1
    MaxInFlight = 1
SYMMETRY RankSymmetry
INVARIANTS
    RelaunchNeverFails
