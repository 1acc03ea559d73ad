SPECIFICATION FairSpec
CONSTANTS
    p1 = p1
    Peers <- MCPeers
    Answering <- MCPeers
    MaxProbeFailures = 3
    EventCap = 2
    EntryCap = 2
CHECK_DEADLOCK FALSE
INVARIANTS
    TypeOK
    NoStuckGray
PROPERTIES
    GoneLeaves
    StopReturns
    ImplementsRegistry
