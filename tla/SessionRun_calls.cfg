SPECIFICATION Spec
CHECK_DEADLOCK FALSE
CONSTANTS
    Soft = 2
    Hard = 5
    Reserve = 1
    MaxSteps = 1
    WatchdogK = 1
    LowYieldM = 1
    BlockLimit = 1
    Costs = {0, 3}
    MaxTurns = 2
    MaxRestarts = 0
    Events <- CallEvents
INVARIANTS OverspendIsOneCall RequestsAreLegal
PROPERTIES
    RunEnds
