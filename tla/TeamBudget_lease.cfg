CONSTANTS
    MaxAid = 2
    Total = 8
    ShareFloor = 2
    Declared = FALSE
    Allowances <- NoAllowances
    MaxCost = 3
    MaxTurns = 1
    MaxTeamTurns = 9
SPECIFICATION Spec
INVARIANTS GeneratesUnderLease
CHECK_DEADLOCK FALSE
