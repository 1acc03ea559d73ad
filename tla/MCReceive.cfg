SPECIFICATION FinishingSpec
CONSTANTS
    c1 = c1
    c2 = c2
    Conns <- TwoConns
    MaxActive = 1
    NotifyCap = 2
CHECK_DEADLOCK FALSE
INVARIANTS
    TypeOK
    ConsentRequired
    SlotsHaveHandlers
PROPERTIES
    OverduePromptExpires
    CloseTerminates
