SPECIFICATION Spec
CONSTANTS
  None = None
  d1 = d1
  d2 = d2
  p1 = p1
  Doc <- Documents
  Plain <- PlainOnes
  Versions = 3
  MaxWidgets = 3
  MaxForks = 2
  MaxRequests = 3
INVARIANTS
  IInv
  InStep
  ShownLinked
CHECK_DEADLOCK FALSE
SYMMETRY Twins
