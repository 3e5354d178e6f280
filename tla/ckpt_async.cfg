SPECIFICATION FairSpec
CONSTANTS
    r0 = r0
    r1 = r1
    Ranks <- MCRanks
    TrainIters = 2
    AsyncSave = TRUE
    MostRecentK <- KeepAll
    NonPersistent = TRUE
    SavesTwice = FALSE
    MaxCrashes = 1
    MaxInFlight = 2
INVARIANTS
    LatestRestorable
    QueueIsAhead
PROPERTIES
    PublishesOnlyRestorable
    LatestNeverRegresses
    ResumesFromLatest
    SavesEventuallyPublished
    ImplementsDurableProgress
