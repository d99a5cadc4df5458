SPECIFICATION Spec
CONSTANTS
  Task = {1, 2}
  Agent = {a}
  Fable = {}
  Chief = chief
  None = None
  Deps <- MCDeps
  Mortal = {}
  Verbs = {"submit"}
  TickUsage = {"ok", "kill", "unknown"}
  HookGates = {}
  MaxReassignments = 0
  StuckTicksHalt = 1
  GraceTicks = 1
  MaxStale = 1
  MaxAttempts = 0
  Judged = {"create", "abandon", "deps", "rearm", "end"}
INVARIANTS
  NoSilentWedge
CHECK_DEADLOCK FALSE
