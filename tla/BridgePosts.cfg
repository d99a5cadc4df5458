SPECIFICATION Spec
CONSTANTS
  r1 = r1
  None = None
  Room = {r1}
  Tokened = {r1}
  To <- MCNoneToo
  Window = 1
  MaxPages = 1
  SyncAlertAfter = 1
  SyncAlertSeconds = 0
  HoldAlert = 1
  HoldSkip = 2
  Posts = {"ok", "lost", "down", "refused", "rejected"}
  Relays = {"ok"}
  MaxPilot = 0
  MaxPurges = 0
  MaxRewrites = 1
  MaxCuts = 1
  MaxCrashes = 1
INVARIANTS
  BridgeTypeOK
  PostedOrGivenUp
PROPERTIES
  QueueMoves
CHECK_DEADLOCK FALSE
