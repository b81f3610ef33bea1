SPECIFICATION Spec
CONSTANTS
  None = None
  Owner = "ana"
  Users <- SomeUsers
  Groups <- SomeGroups
  Limit = 2
  MaxChains = 4
INVARIANTS
  SharesFresh
  OthersListed
  IInv
CHECK_DEADLOCK FALSE
