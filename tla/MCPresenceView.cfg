SPECIFICATION PresenceFairSpec
CONSTANTS
    p1 = p1
    p2 = p2
    Peers <- TwoPeers
    EventCap = 1
    SubCap = 1
CHECK_DEADLOCK FALSE
PROPERTIES
    ViewSettles
