SPECIFICATION Spec
CONSTANTS
  Ticket = {1, 2, 3}
  Agent = {"a", "b"}
  To <- TwoAgentsTo
  Config <- OneAgent
  Earlier = {2}
  Ops = {"create", "edit", "draft", "armed", "delete"}
  Slow = {1}
  MaxRequests = 2
  MaxCrashes = 1
INVARIANTS
  DependenciesFirst
PROPERTIES
  KeepsContract
