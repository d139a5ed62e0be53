CONSTANTS
    MaxSessions = 1
    MaxInFlight = 2
    MaxCorr = 2
    MaxSubs = 1
    MaxCmds = 0
    MaxIds = 2
    FsOps = {"read", "write"}
SPECIFICATION FairSpec
PROPERTIES
    EntriesGo
CHECK_DEADLOCK FALSE
