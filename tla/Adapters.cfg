CONSTANTS
    MaxEdits = 2
    MaxFaults = 3
    Acquirer = {"lead", "fork", "peer", "guest"}
    SourceOf <- Sources
    Shares = {"guest"}
    Base = "base"
    MaxReleases = 2
    MaxBrokenCleanups = 2
    Attempt = {"one", "two"}
    Flow = {"two"}
    MaxWork = 1
    MaxMoves = 1
    Request = {"c", "r", "w"}
    Protocol <- Protocols
    Capacity = 2
    Item = {1, 2}
    MaxRetries = 1
    RetryTime = 1
    ManualSaves = {"hand"}
    MaxChanges = 2
    MaxAutosaves = 2
    MaxDisruptions = 2
    ToolCall = {"a", "b"}
    Kinds <- ToolKinds
    FileSlots = 1
    MaxCleanups = 1
    Operation = {"edit", "test"}
    Edits = {"edit"}
    Observers = {"test"}
    Timed = {"test"}
    Limit = 2
    HashWindow = 3
    MaxCalls = 5
    MaxCrashes = 1
    View = {"a", "b"}
    Command = {"x", "y"}
    ViewOf <- Owners
    Editors = {"x", "y"}
    MaxBoxFaults = 3
    Work = {"a"}
    Reset = {"r"}
    MaxDrops = 2
    MaxCrises = 1
SPECIFICATION MCSpec
INVARIANTS PoolIsSound CandidateIsWhole AttemptsAreApart NothingRunsOn
    ExtraRunsArePaid ContainerIsSound RemoteIsSound
PROPERTIES JournalIsOneSnapshot WorkspaceIsKept
CHECK_DEADLOCK FALSE
