SPECIFICATION FairSpec
CONSTANTS
    MaxBlock = 2
    MaxFresh = 2
    Chunk = 2
    GapCap = 2
    UsizeMod = 12
    Budget <- DropAndStop
PROPERTY ShutdownCompletes
CHECK_DEADLOCK FALSE
