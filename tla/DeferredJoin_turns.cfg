CONSTANTS
    MaxAid = 1
    MaxCalls = 1
    MaxSteps = 2
    MaxTurns = 2
    Keys = {k1}
    NoKey = NoKey
    Resistant = {1}
    Events = {"restore", "cancel", "cleanup", "failure"}
SPECIFICATION Spec
INVARIANTS SettlesWhole
PROPERTIES BatchDrainsWhole TurnEnds
