CONSTANTS
    MaxSessions = 2
    MaxIds = 2
    MaxMsgs = 2
    MaxRuns = 3
SPECIFICATION Spec
PROPERTIES
    QuitPersists
CHECK_DEADLOCK FALSE
