SPECIFICATION FairSpec
CONSTANTS
    Client = {c1, c2}
    Clean <- MCClean
    Rough <- MCRough
    MaxRequests = 4
    Manners = {TRUE, FALSE}
    Char = {ca, cb}
    Width = 2
    Height = 3
    StaticPath = {ps}
    DynamicPath = {pd, pe, pf}
    StaticSlot <- MCStaticSlot
    StaticContent <- MCStaticContent
    None = None
    ca = ca
    cb = cb
    ps = ps
    pd = pd
    pe = pe
    pf = pf
INVARIANTS
    WellFormed
    StaticKept
PROPERTIES
    ImplementsStore
    EveryRequestAnswered
CHECK_DEADLOCK FALSE
