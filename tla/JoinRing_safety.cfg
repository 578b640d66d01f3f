SPECIFICATION TableSpec
CONSTANTS
    Peer <- MCPeer
    Founder = 3
    Contact = {1, 3, 4, 6}
    Space = 8
    Steps <- MCSteps
    Setting <- MCSetting
    Asked <- MCAsked
    Req = {r1, r2}
    Key = {k}
    Value = {v}
    Hash <- MCHash
    NULL = NULL
    Client = Client
    NoValue = NoValue
    None = None
    NoJob = NoJob
    Closed = Closed
    Reset = Reset
    Garbage = Garbage
SYMMETRY Symmetry
INVARIANTS
    WellFormed
    NoCrash
    OneOrderedRing
    RepliesNameOwner
    AtMostOneOwner
    RequestsKept
PROPERTIES
    RingImplementsStore
CHECK_DEADLOCK FALSE
