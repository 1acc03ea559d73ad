SPECIFICATION Spec
CONSTANTS
    c1 = c1
    c2 = c2
    Conns <- OneConn
    MaxActive = 1
    NotifyCap = 2
CHECK_DEADLOCK FALSE
INVARIANT WholeFileCompletes
