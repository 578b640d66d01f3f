SPECIFICATION Spec
CONSTANTS
    Conn = {"a1", "o1", "r1", "s1"}
    Kind <- MCKind
    Setting <- MCThread
    Fd = {1, 2, 3}
    None = None
INVARIANTS
    OwnBytesOnly
CHECK_DEADLOCK FALSE
