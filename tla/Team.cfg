CONSTANTS
    MaxAid = 1
    Total = 8
    ShareFloor = 2
    Declared = TRUE
    Allowances <- NoAllowances
    MaxCost = 3
    MaxTurns = 2
    MaxTeamTurns = 9
    Roles <- TwoRoles
    FirstTurn = {1, 2, 3}
    MaxSeatFaults = 3
    MaxChildren = 3
    MaxIterations = 2
    MaxWakes = 1
    MaxLeadTurns = 1
    Coder = {"a"}
    MaxVersion = 2
    MaxRuns = 3
    MaxEntryTurns = 2
    MaxMishaps = 2
    Seed <- Opening
    Menu <- Exchanges
    MaxGroups = 4
    ResultCap = 3
    ClearedSize = 1
    SummarySize = 1
    Trigger = 8
    Target = 5
    KeepGroups = 1
    KeepResults = 1
    CacheSize = 1
    GroupCount = 3
    Weights <- GroupWeights
    WeaveTotal = 5
    RepairReserve = 1
    MainSoft = 2
    LeastTokens = 2
    WeaveCost = 2
    Extension = 1
    MaxRounds = 2
    StagnantLimit = 1
    Cmd = {"c"}
    MaxVersions = 2
    MaxRestarts = 1
    Diffs = {"x", "y"}
    RecordLists <- TestLists
    MaxEdits = 1
    In = {1, 2, 3, 4, 5}
    Invalid = {5}
    Program = {"p", "m", "c", "q"}
    Right <- Agrees
    Kind <- Sorts
    Penalty <- Losses
    Category <- Edges
    InitialBatch = 1
    BatchStep = 1
    MaxCodings = 4
    EarlyStop = 2
    ProposeAttempts = 2
    RandomPercent = 60
    CoveragePatience = 1
    MemoPatience = 1
    ComplexPatience = 1
    Editor = {"e", "f"}
    FirstTexts <- FileStarts
    EditMenu <- TwoMenus
    CommandTexts <- FileCommands
    MaxCommands = 1
    LineSize <- Sizes
    GuardSize = 6
    Batches <- CallBatches
    MaxBatches = 2
    MaxAsks = 2
    MaxStops = 1
SPECIFICATION MCSpec
INVARIANTS SeatCapHolds RosterIsWhole ReviewIsSerial AdoptionIsExact TranscriptIsSound
    WeaveIsSound SearchesAreSound FilesAreSound
CHECK_DEADLOCK FALSE
