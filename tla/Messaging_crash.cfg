CONSTANTS
    MaxAid = 1
    MaxMsg = 2
    MaxTurns = 2
    MaxInbox = 2
    MaxBatch = 2
    MaxRestarts = 1
    Events = {"timeout", "shutdown", "cancel", "diff"}
SPECIFICATION Spec
INVARIANTS InboxIsSound
PROPERTIES NothingLost
