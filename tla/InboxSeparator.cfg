SPECIFICATION InboxSpec
CONSTANTS
  Message = {m1, m2}
  Acker = {r1}
  None = None
  Junk = Junk
  Mortal = {}
  Split = {m2}
  MaxAcks = 1
  MaxCrashes = 0
PROPERTIES
  AckKeepsDelivered
CHECK_DEADLOCK FALSE
