SPECIFICATION FairSpec
CONSTANTS
    w1 = w1
    w2 = w2
    Workers <- MCWorkers
    NParams = 2
    SyncEvery = 2
    MaxConcurrent = 2
    MaxStep = 6
    Faults <- FaultKinds
INVARIANTS
    TypeOK
    ServingWorkersAgree
    ReportedPolicyIsLoaded
    CacheIsCurrent
    PublishSettled
PROPERTIES
    PublishReturns
    RefinesPolicyStore
CHECK_DEADLOCK FALSE
