SPECIFICATION FairSpec
CONSTANTS
    Peer <- MCPeer
    Founder = 3
    Contact = {3}
    Space = 8
    Steps = {}
    Req = {}
    Setting <- Together
    NULL = NULL
PROPERTIES
    Converges
CHECK_DEADLOCK FALSE
