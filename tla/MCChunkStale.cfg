SPECIFICATION Spec
CONSTANTS
    Files <- LongOrEdited
    ChunkSize = 2
    MaxCrashes = 1
    MaxFaults = 0
CHECK_DEADLOCK FALSE
INVARIANT AssembledMatchesManifest
