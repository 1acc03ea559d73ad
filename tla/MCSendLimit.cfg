SPECIFICATION Spec
CONSTANTS
    t1 = t1
    t2 = t2
    k1 = k1
    k2 = k2
    k3 = k3
    Transfers <- TwoTransfers
    Calls <- ThreeCalls
    Resends <- LastResend
    MaxActive = 1
    Chunks = 1
CHECK_DEADLOCK FALSE
INVARIANT LimitRespected
