SPECIFICATION FairSpec
CONSTANTS
  Ticket = {1, 2}
  Agent = {"a"}
  To <- OneAgentTo
  Config <- OneAgent
  Earlier = {}
  Ops = {"create"}
  Slow = {1, 2}
  MaxRequests = 2
  MaxCrashes = 0
INVARIANTS
  DispatchedOnce
PROPERTIES
  OverIsOver
  EventuallyStarted
  RunningEnds
  
