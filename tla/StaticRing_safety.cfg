SPECIFICATION Spec
CONSTANTS
    Peer <- MCPeer
    Pred <- MCPred
    Succ <- MCSucc
    HashId = {3, 7}
    Key = {"ka", "kb", "kz"}
    Value = {"v"}
    Hash <- MCHashThree
    Req = {r1, r2, r3}
    Late = {{}, {6}}
    Entry = {1, 3, 6}
    MaxOpen = 3
    Client = Client
    NoValue = NoValue
    None = None
    Closed = Closed
    NoJob = NoJob
INVARIANTS
    TypeOK
    NoLookupAtOwner
    ProxiedToOwner
    OpenRequestsHaveLookup
    OnlyCirclesBlock
PROPERTIES
    RingImplementsTable
SYMMETRY ReqSymmetry
CHECK_DEADLOCK FALSE
