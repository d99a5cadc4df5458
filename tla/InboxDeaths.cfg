SPECIFICATION InboxFairSpec
CONSTANTS
  Message = {m1, m2, m3}
  Acker = {r1}
  None = None
  Junk = Junk
  Mortal = {m1, m2, r1}
  Split = {}
  MaxAcks = 2
  MaxCrashes = 2
INVARIANTS
  DeathCostsOne
PROPERTIES
  EverybodyFinishes
CHECK_DEADLOCK FALSE
