SPECIFICATION Spec
CONSTANTS
    Files <- LongShortEmpty
    ChunkSize = 2
    MaxCrashes = 2
    MaxFaults = 2
CHECK_DEADLOCK FALSE
INVARIANTS
    TypeOK
    ReceivedIsCached
    AssembledIsFile
