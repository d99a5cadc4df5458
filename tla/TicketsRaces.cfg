SPECIFICATION Spec
CONSTANTS
  Ticket = {1, 2}
  Agent = {"a"}
  To <- OneAgentTo
  Config <- OneAgent
  Earlier = {}
  Ops = {"create", "armed", "delete"}
  Slow = {1}
  MaxRequests = 3
  MaxCrashes = 0
INVARIANTS
  TypeOK
  IInv
  
  OneRunningPerAgent
  NoTicketVanishes
