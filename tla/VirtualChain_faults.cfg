SPECIFICATION Spec
CONSTANTS
    MaxBlock = 3
    Chain <- Fork
    Chunk = 2
    SyncCap = 4
    Capacity = 5
    MaxSyncers = 2
    Budgets <- Either
INVARIANTS TypeOK ChainExact SyncerInStep NoPanic
CHECK_DEADLOCK FALSE
