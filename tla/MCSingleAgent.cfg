SPECIFICATION Spec
CONSTANTS
    Agents <- MCAgents
    Me = me
    MaxReact = 2
    MaxSteps = 3
    MaxExternal = 2
INVARIANTS
    TypeOK
    RolloutCollectable
    RewardCountedOnce
    EndsOnce
    SawWhatItActedOn
