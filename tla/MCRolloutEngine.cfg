SPECIFICATION FairSpec
CONSTANTS
    NoGroup = NoGroup
    GroupSize = 2
    NumSamples = 3
    PerCall = 2
    Concurrency = 2
    Confs <- MCConfs
    MaxCalls = 2
    MaxFaults = 1
INVARIANTS
    TypeOK
    CallWithinLimit
    GroupsComparable
PROPERTIES
    NothingRefused
    EpisodesEnd
    RefinesBatchService
CHECK_DEADLOCK FALSE
