\* Three requests compete for two approval slots.
CONSTANTS
    Ops = {c1, c2, c3}
    NoCorr = NoCorr
    NSlots = 2
    HasTimeout = TRUE
SPECIFICATION Spec
SYMMETRY OpsSymmetry
INVARIANTS
    TypeOK
    PerformedOnlyIfApproved
    NoMeansNo
    DecisionIsOwners
    SlotsReturned
    ReportTruthful
CHECK_DEADLOCK FALSE
