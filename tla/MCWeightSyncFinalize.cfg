SPECIFICATION Spec
CONSTANTS
    w1 = w1
    w2 = w2
    Workers <- MCWorkers
    NParams = 2
    SyncEvery = 2
    MaxConcurrent = 2
    MaxStep = 6
    Faults = {"reset"}
INVARIANT
    FinalizeMeansApplied
CHECK_DEADLOCK FALSE
