CONSTANTS
    MaxSessions = 2
    MaxInFlight = 2
    MaxCorr = 2
    MaxSubs = 0
    MaxCmds = 0
    MaxIds = 2
    FsOps = {"read"}
SPECIFICATION Spec
INVARIANTS
    EndUnlocks
CHECK_DEADLOCK FALSE
