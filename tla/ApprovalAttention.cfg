\* Two requests, a slot for each: the second prompt takes the first one's place.
CONSTANTS
    Ops = {c1, c2}
    NoCorr = NoCorr
    NSlots = 2
    HasTimeout = TRUE
SPECIFICATION AttentiveSpec
INVARIANTS
    PerformedAsIntended
CHECK_DEADLOCK FALSE
