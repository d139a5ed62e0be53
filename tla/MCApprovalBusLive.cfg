\* Two requests, one slot: fairness and the refinement of the gate.  The
\* system stops when every request has been made and closed.
CONSTANTS
    Ops = {c1, c2}
    NoCorr = NoCorr
    NSlots = 1
    HasTimeout = TRUE
SPECIFICATION FairSpec
PROPERTIES
    EveryRequestCloses
    AnswerReleasesWaiter
    GateFairSpec
CHECK_DEADLOCK FALSE
