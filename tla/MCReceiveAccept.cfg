SPECIFICATION FairSpec
CONSTANTS
    c1 = c1
    c2 = c2
    Conns <- TwoConns
    MaxActive = 2
    NotifyCap = 2
CHECK_DEADLOCK FALSE
PROPERTY AcceptedIsServed
