SPECIFICATION PresenceFairSpec
CONSTANTS
    p1 = p1
    p2 = p2
    Peers <- OnePeer
    EventCap = 2
    SubCap = 2
CHECK_DEADLOCK FALSE
PROPERTIES
    CountSettles
