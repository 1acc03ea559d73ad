SPECIFICATION Spec
CONSTANTS
    Opens <- OneAndNone
    Budgets <- OneFrame
    Closers <- TheResponder
    Leavers <- TheAcceptor
    AcceptCap = 1
    RcvCap = 1
    WireCap = 1
CHECK_DEADLOCK FALSE
INVARIANT ServeClosesAllStreams
