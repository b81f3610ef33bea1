SPECIFICATION Spec
CONSTANTS
  Doc = {d1, d2}
  File = {f1, f2}
  Path = {p1, p2, p3, p4}
  Kind = {k1, k2}
  Reuse = FALSE
  MaxRenames = 2
  MaxHashes = 2
  None = None
INVARIANTS SavesInRoom ListedRight HashTold IInv
CHECK_DEADLOCK FALSE
SYMMETRY Alike
