SPECIFICATION Spec
CONSTANTS
    Agents = {a, b}
    Others = {npc}
    MaxReact = 2
    MaxSteps = 2
SYMMETRY Alike
INVARIANTS
    TypeOK
    RolloutsCollectable
    RewardsCountedOnce
    EachEndsOnce
    EachSawWhatItActedOn
