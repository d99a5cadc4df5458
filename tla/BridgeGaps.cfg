SPECIFICATION Spec
CONSTANTS
  r1 = r1
  None = None
  Room = {r1}
  Tokened = {}
  To <- MCOne
  Window = 1
  MaxPages = 2
  SyncAlertAfter = 1
  SyncAlertSeconds = 0
  HoldAlert = 1
  HoldSkip = 2
  Posts = {"ok"}
  Relays = {"ok", "refused"}
  MaxPilot = 3
  MaxPurges = 1
  MaxRewrites = 0
  MaxCuts = 0
  MaxCrashes = 1
INVARIANTS
  NothingVanishes
PROPERTIES
  RelayedInOrder
CHECK_DEADLOCK FALSE
