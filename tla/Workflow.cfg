CONSTANTS
    Call = {"a", "b", "f", "k"}
    Script <- Scripts
    Owner <- CallOwners
    Root = "root"
    Over = {"a", "k"}
    Cap <- CallCaps
    Sticky = {"a", "b"}
    PoolTotal = 2
    Permits = 1
    MaxCost = 2
    Escape = 1
    Unit = {1, 2, 3, 4, 5, 6, 7}
    Top = 0
    ParentUnit <- Tree
    Background = {2}
    TaskSlots = 2
    MaxUpsets = 1
    Job = {"j1", "j2", "j3"}
    Deaf = {"j2"}
    Stuck = {"j3"}
    Save = "save"
    Errand = {"a"}
    Deeds <- Chores
    Lease = "lease"
    MaxBridgeFaults = 1
SPECIFICATION MCSpec
INVARIANTS CallsAreSound CollectionsAreSound RunEndsClean AuthoredIsContained
PROPERTIES EveryPartEnds
CHECK_DEADLOCK FALSE
