CONSTANTS
    MaxSessions = 2
    MaxIds = 2
    MaxMsgs = 2
    MaxRuns = 3
SPECIFICATION Spec
INVARIANTS
    TypeOK
    IdsDistinct
    OwnMessages
    GoneStaysGone
    Durable
CHECK_DEADLOCK FALSE
