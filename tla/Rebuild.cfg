SPECIFICATION Spec
CONSTANTS
  Client = {c1, c2}
  MaxUnits = 3
  MaxRooms = 2
  MaxWrites = 1
  None = None
INVARIANTS IInv Converging EditsKept SameDocument
SYMMETRY Clients
CHECK_DEADLOCK FALSE
