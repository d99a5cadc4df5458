SPECIFICATION Spec
CONSTANTS
  Task = {1}
  Agent = {a, b}
  Fable = {f}
  Chief = chief
  None = None
  Deps <- MCDeps
  Mortal = {a}
  Verbs = {"submit", "done"}
  TickUsage = {"ok"}
  HookGates = {"ok", "night", "unknown", "kill"}
  MaxReassignments = 1
  StuckTicksHalt = 1
  GraceTicks = 1
  MaxStale = 1
  MaxAttempts = 0
  Judged = {"unblock"}
INVARIANTS
  AutonomyTypeOK
  OfferedOrOwned
  ClaimantOwns
PROPERTIES
  ReopenedNeedsNewPass
  DrainGivesUp
  StalledComesBack
CHECK_DEADLOCK FALSE
