SPECIFICATION MCSpec
CONSTANTS
  d1 = d1
  d2 = d2
  a = a
  b = b
  g = g
  x = x
  y = y
  k1 = k1
  k2 = k2
  None = None
  Token = {d1, d2}
  Address = {a, b}
  Group = {g}
  Alias = {x, y}
  Prefs <- MCPrefs
  Key = {k1, k2}
  Strikes = 2
  RateMax = 2
  QueueCap = 2
  CommandCap = 2
  AuthMode = "mixed"
  DefaultHost = "production"
  Configured = {"apns", "web"}
INVARIANTS ReadsTrue RequestsHold PushedOnce
PROPERTIES Heard
CHECK_DEADLOCK FALSE
