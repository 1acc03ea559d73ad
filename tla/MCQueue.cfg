SPECIFICATION FairSpec
CONSTANTS
    t1 = t1
    t2 = t2
    t3 = t3
    a = a
    Tasks <- MCTasks
    Peers <- MCPeers
    PeerOf <- MCPeerOf
    DirOf <- MCDirOf
    MaxUp = 1
    MaxDown = 1
CHECK_DEADLOCK FALSE
INVARIANTS
    TypeOK
    WaitMeansDrained
    DevicesTracked
PROPERTIES
    FIFO
    ImplementsSlots
    NoIdleSlot
    WaitReturns
