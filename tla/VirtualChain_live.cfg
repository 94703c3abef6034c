SPECIFICATION FairSpec
CONSTANTS
    MaxBlock = 2
    Chain <- Fork
    Chunk = 1
    SyncCap = 4
    Capacity = 5
    MaxSyncers = 2
    Budgets <- Live
PROPERTY EventuallySynced
PROPERTY ShutdownCompletes
CHECK_DEADLOCK FALSE
