CONSTANTS
    r1 = r1
    r2 = r2
    o1 = o1
    o2 = o2
    Requests = {r1, r2}
    Providers = {"xai", "anthropic", "google", "ibm"}
    CallKinds = {"ibm", "anthropic", "no_query"}
    MaxToolIters = 2
    MaxCalls = 2
    MaxExpiries = 1
    Asking <- AskingOf
    Configs <- StoredConfigs
    FsOps = {o1, o2}
    Root <- Sandbox
    Tree0 <- FilesAtFirst
    LeadsTo <- WhereLinksLead
    Prolongs <- LongerNames
    Paths <- RequestedPaths
    MaxEdits = 1
SPECIFICATION BackendSpec
INVARIANTS
    BackendTypeOK
    CallsAnswered
    ToldInOrder
    GivesUpAtTheLimit
    RightProvider
    TokenSafe
    CheckStands
PROPERTIES
    RequestAnswered
    InsideSandbox
    OkMeansWhole
    FsGateSpec
CHECK_DEADLOCK FALSE
