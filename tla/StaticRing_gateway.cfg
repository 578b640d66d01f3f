SPECIFICATION FairSpec
CONSTANTS
    Peer <- MCPeer
    Pred <- MCPred
    Succ <- MCSucc
    HashId = {3, 5, 7}
    Key = {"ka", "kb", "kc", "kz"}
    Value = {"v"}
    Hash <- MCHash
    Req = {r1, r2}
    Late = {{}}
    Entry = {1}
    MaxOpen = 2
    Client = Client
    NoValue = NoValue
    None = None
    Closed = Closed
    NoJob = NoJob
PROPERTIES
    Answered
CHECK_DEADLOCK FALSE
