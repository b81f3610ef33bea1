SPECIFICATION Spec
CONSTANTS
  None = None
  Root = root
  Fork = {f1, f2}
  Edit = {e1, e2}
  MaxInstances = 2
INVARIANT IInv
PROPERTY MergedWhole
SYMMETRY Alike
CHECK_DEADLOCK FALSE
