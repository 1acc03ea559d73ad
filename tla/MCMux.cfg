SPECIFICATION FairSpec
CONSTANTS
    Opens <- TwoAndOne
    Budgets <- MCBudgets
    Closers <- TheInitiator
    Leavers <- TheAcceptor
    AcceptCap = 1
    RcvCap = 1
    WireCap = 1
CHECK_DEADLOCK FALSE
INVARIANTS
    TypeOK
    NoFrameLost
PROPERTIES
    ImplementsPair
    SentIsRead
    BothEndsClose
