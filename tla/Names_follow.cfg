SPECIFICATION MCSpec
CONSTANTS
  Keys <- MCKeys
  KeyLow = 0
  KeyHigh = 3
  Plans <- MCPlans
  JournalKeep = 1
  SyncedWithin = 0
  KeepEntries = 2
  PrunedConfirmations = 2
INVARIANTS RegistryExact TablesExact ProfilesExact
PROPERTIES CleanTestIsExact Settles
CHECK_DEADLOCK FALSE
