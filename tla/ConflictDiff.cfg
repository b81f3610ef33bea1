SPECIFICATION DiffSpec
CONSTANTS
  Cells <- MCCells
  Metadata <- MCMetadata
  MaxCells = 3
CHECK_DEADLOCK FALSE
INVARIANTS
  DiffSoFar
  LongestMatched
  EmptyIfSame
