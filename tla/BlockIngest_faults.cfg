SPECIFICATION Spec
CONSTANTS
    MaxBlock = 2
    MaxFresh = 2
    Chunk = 2
    GapCap = 2
    UsizeMod = 12
    Budget <- Everything
INVARIANT TypeOK
INVARIANT Accounted
INVARIANT HandoverComplete
PROPERTY CursorMonotone
CHECK_DEADLOCK FALSE
