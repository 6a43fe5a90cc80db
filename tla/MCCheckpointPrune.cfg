SPECIFICATION Spec
CONSTANTS
    SaveEvery = 1
    MaxToKeep = 3
    SaveOptimizer = FALSE
    AskedSteps = {}
    MaxStep = 4
    MaxStarts = 1
PROPERTIES
    PruneKeepsN
CHECK_DEADLOCK FALSE
