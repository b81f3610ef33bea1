SPECIFICATION Spec
CONSTANTS
  Server = {s1, s2}
  Client = {c1}
  Kind <- Kinds
  Install <- Upgrades
  Cap = 2
  MaxSessions = 3
  MaxSaves = 3
  None = None
  Broken = Broken
INVARIANTS IInv
PROPERTIES AcceptedCurrent RefusedForCause
CHECK_DEADLOCK FALSE
SYMMETRY Servers
