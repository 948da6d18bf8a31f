CONSTANTS
    MaxAid = 2
    MaxCalls = 2
    MaxSteps = 2
    MaxTurns = 1
    Keys = {k1, k2}
    NoKey = NoKey
    Resistant = {}
    Events = {"failure"}
SPECIFICATION Spec
INVARIANTS OneDriver SingleFlight NothingDangles NoLostWake
SYMMETRY KeySymmetry
