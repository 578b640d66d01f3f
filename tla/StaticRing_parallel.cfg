SPECIFICATION FairSpec
CONSTANTS
    Peer <- TwoPeer
    Pred <- TwoNext
    Succ <- TwoNext
    HashId = {2, 3}
    Key = {"ka", "kc"}
    Value = {"v"}
    Hash <- MCHashTwo
    Req = {r1, r2}
    Late = {{}}
    Entry = {2, 5}
    MaxOpen = 2
    Client = Client
    NoValue = NoValue
    None = None
    Closed = Closed
    NoJob = NoJob
PROPERTIES
    Answered
CHECK_DEADLOCK FALSE
