SPECIFICATION Spec
CHECK_DEADLOCK FALSE
CONSTANTS
    Soft = 4
    Hard = 4
    Reserve = 2
    MaxSteps = 1
    WatchdogK = 1
    LowYieldM = 1
    BlockLimit = 1
    Costs = {1}
    MaxTurns = 2
    MaxRestarts = 1
    Events <- SaveEvents
INVARIANTS LimitsHold RestIsDurable
