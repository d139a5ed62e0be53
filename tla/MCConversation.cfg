CONSTANTS
    MaxSessions = 2
    MaxInFlight = 2
    MaxCorr = 2
    MaxSubs = 0
    MaxCmds = 1
    MaxIds = 2
    FsOps = {"read"}
SPECIFICATION Spec
INVARIANTS
    TypeOK
    ReplyInItsSession
    OneTurnPerSession
    PlaceholderIsPending
    SelectionValid
PROPERTIES
    HistoryKept
CHECK_DEADLOCK FALSE
