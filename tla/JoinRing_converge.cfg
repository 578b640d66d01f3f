SPECIFICATION FairSpec
CONSTANTS
    Peer <- MCPeer
    Founder = 3
    Contact = {3}
    Space = 8
    Steps = {}
    Req = {}
    Setting <- OneByOne
    NULL = NULL
PROPERTIES
    Converges
CHECK_DEADLOCK FALSE
