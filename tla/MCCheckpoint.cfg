SPECIFICATION Spec
CONSTANTS
    SaveEvery = 2
    MaxToKeep = 2
    SaveOptimizer = TRUE
    AskedSteps = {3, 4}
    MaxStep = 4
    MaxStarts = 4
INVARIANTS
    TypeOK
    NextLoadIsWhole
    LatestNeverFallsBack
    CounterNeverAhead
CHECK_DEADLOCK FALSE
