SPECIFICATION FairSpec
CONSTANTS
    Conn = {"a1", "o1", "r1", "s1"}
    Kind <- MCKind
    Setting <- MCSetting
    Fd = {1, 2, 3}
    None = None
INVARIANTS
    WellFormed
    NoCrash
    OpenSocketsAreAskers
PROPERTIES
    EveryRequestAnswered
    EveryConnectionRemoved
CHECK_DEADLOCK FALSE
