SPECIFICATION Spec
CONSTANTS
  Msg = {1, 2}
  From <- MCOne
  None = None
  Old = {}
  MaxClock = 2
  MaxBlocks = 1
  MaxInjected = 1
  MaxEvents = 1
INVARIANTS
  DeliveryTypeOK
  CursorAccounts
PROPERTIES
  TurnEndsInformed
  NeverWedged
  SeenAtLast
  PushedAtThePrompt
CHECK_DEADLOCK FALSE
