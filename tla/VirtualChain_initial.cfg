SPECIFICATION Spec
CONSTANTS
    MaxBlock = 2
    Chain <- Fork
    Chunk = 2
    SyncCap = 4
    Capacity = 5
    MaxSyncers = 2
    Budgets <- OneFailure
INVARIANT NeverPanics
CHECK_DEADLOCK FALSE
