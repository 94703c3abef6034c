SPECIFICATION MCSpec
CONSTANTS
  Workers = {1, 2}
  Retrier = 0
  EditWindow = 5
  RetryFor = 1
  MinAttempts = 2
  MaxBackoff = 2
  PushMaxAge = 1
  Plans <- MCPlans
INVARIANTS DeleteWins CompanionRows NewestWins DeniedStaysOut PushedOnce NothingForgotten
PROPERTIES ReplayChangesNothing NeverDroppedEarly Drains
CHECK_DEADLOCK FALSE
