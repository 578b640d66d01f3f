SPECIFICATION Spec
CONSTANTS
    Client = {c1, c2}
    Clean <- MCBare
    Rough = {}
    MaxRequests = 2
    Manners = {TRUE}
    Char = {ca, cb}
    Width = 2
    Height = 3
    StaticPath = {ps}
    DynamicPath = {pd, pe, pf}
    StaticSlot <- MCStaticSlot
    StaticContent <- MCStaticContent
    None = None
    ca = ca
    cb = cb
    ps = ps
    pd = pd
    pe = pe
    pf = pf
INVARIANTS
    CompleteIsAnswered
CHECK_DEADLOCK FALSE
