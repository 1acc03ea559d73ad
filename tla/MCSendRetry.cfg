SPECIFICATION ReadingSpec
CONSTANTS
    t1 = t1
    t2 = t2
    k1 = k1
    k2 = k2
    k3 = k3
    Transfers <- OneTransfer
    Calls <- TwoCalls
    Resends <- OneResend
    MaxActive = 1
    Chunks = 2
CHECK_DEADLOCK FALSE
PROPERTY CallsReturn
