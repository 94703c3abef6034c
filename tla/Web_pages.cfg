SPECIFICATION MCSpec
CONSTANTS
  IdMax = 99
  Windows <- MCWindows
  MaxAncestors = 2
  MaxWalk = 5
  Plans <- MCPlans
  RateLimit = 12
  Window = 2
  Idle = 4
  CountMax = 14
  Txs = {1, 2, 3}
  Author <- MCAuthor
  Inputs <- MCInputs
  Owner <- MCOwner
  Asked <- MCAsked
  Callers = {1, 2}
  Veterans = {}
  MaxAhead = 4
  MaxAheadNew = 2
  Quota = 2
  Batch = 2
  KeepFinished = 1
  MaxTime = 3
  MaxFaults = 1
INVARIANTS WalkExact CountsAgree ThreadWhole
PROPERTIES PromiseKept
CHECK_DEADLOCK FALSE
