SPECIFICATION ReadersSpec
CONSTANTS
  Message = {m1, m2, m3}
  Acker = {r1, r2}
  Reader = {r}
  None = None
  Junk = Junk
  Mortal = {}
  Split = {}
  MaxAcks = 2
  MaxCrashes = 0
INVARIANTS
  InboxInv
  
PROPERTIES
  KeepsMail
CHECK_DEADLOCK FALSE
