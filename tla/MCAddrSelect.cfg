SPECIFICATION Spec
CONSTANTS
    Advertised <- MCAdvertised
    Interfaces <- MCInterfaces
    MaxDsts = 3
    MaxSources = 2
CHECK_DEADLOCK FALSE
INVARIANTS
    OrdersAreWeak
    BestIsDialled
