SPECIFICATION Spec
CONSTANTS
    Agents = {a, b}
    Others = {npc}
    MaxReact = 2
    MaxSteps = 2
INVARIANTS
    OnlyUnfinishedMarked
