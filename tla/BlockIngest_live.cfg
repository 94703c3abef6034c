SPECIFICATION FairSpec
CONSTANTS
    MaxBlock = 2
    MaxFresh = 2
    Chunk = 1
    GapCap = 2
    UsizeMod = 12
    Budget <- NoFault
INVARIANT InProgressCounts
PROPERTY ShutdownCompletes
PROPERTY EventuallyIndexed
PROPERTY GapsClose
CHECK_DEADLOCK FALSE
