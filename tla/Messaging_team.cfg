CONSTANTS
    MaxAid = 1
    MaxMsg = 4
    MaxTurns = 1
    MaxInbox = 1
    MaxBatch = 1
    MaxRestarts = 0
    Events = {"cancel", "owner", "timeout", "broke"}
SPECIFICATION Spec
INVARIANTS SettledOnce NobodyIsStranded
