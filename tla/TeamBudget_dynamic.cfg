CONSTANTS
    MaxAid = 2
    Total = 6
    ShareFloor = 2
    Declared = FALSE
    Allowances <- NoAllowances
    MaxCost = 2
    MaxTurns = 2
    MaxTeamTurns = 3
SPECIFICATION Spec
INVARIANTS PoolNotOversubscribed TeamOvershootBounded
CHECK_DEADLOCK FALSE
