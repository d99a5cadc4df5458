SPECIFICATION Spec
CONSTANTS
  Host = {pi, asus}
  Expected = {pi, asus}
  WarnAt = 1
  KillAt = 2
  MaxAge = 1
  WindowLen = 3
  Participant = {a}
  Here = pi
  Configs <- MCConfigs
  DayLen = 3
  MaxIterations = 1
  MaxPauseAge = 1
  MaxKicks = 1
  Outcomes = {"read", "error", "torn"}
  Burns = {1}
  MaxUsed = 1
  MaxNow = 3
  MaxEvents = 2
INVARIANTS
  NightTypeOK
  CapBites
  NeverBlind
PROPERTIES
  ClosedIsQuiet
  WakesAgain
CHECK_DEADLOCK FALSE
