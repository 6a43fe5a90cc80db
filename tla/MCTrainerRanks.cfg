SPECIFICATION FairSpec
CONSTANTS
    NoGroup = NoGroup
    GroupSize = 2
    NoLogps = NoLogps
    MaxSeqLen = 3
    TokenBudget = 6
    NumSteps = 3
    SyncEvery = 2
    SaveEvery = 3
    LogEvery = 1
    EvalEvery = 2
    EvalAtStart = TRUE
    Confs <- MCConfs
INVARIANTS
    TypeOK
    ChunksFit
    MacroMean
    TrustRegion
    Lockstep
    AtMostOneSyncBehind
PROPERTIES
    ReportedIsMean
    TrainReturns
CHECK_DEADLOCK FALSE
