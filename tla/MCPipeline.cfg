SPECIFICATION FairSpec
CONSTANTS
    a1 = a1
    a2 = a2
    Actors <- MCActors
    MaxVersion = 4
    ReportMayFail = FALSE
    ItemsPerPush = 1
    BatchSize = 2
    SyncEvery = 2
    MaxLag = 1
    FirstStep = 1
    MaxQueue = 2
    MaxFaults = 1
    MaxRestarts = 1
INVARIANTS
    TypeOK
    TagIsConservative
    TrainedWithinLag
    ServerWithinOneSync
PROPERTIES
    TrainingProgresses
CHECK_DEADLOCK FALSE
