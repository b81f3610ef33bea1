SPECIFICATION FairSpec
CONSTANTS
  Client = {c1, c2, c3}
  None = None
  CleanupDelaySet = TRUE
  Budget <- AFailure
INVARIANTS IInv ServedTogether
PROPERTIES LockWaitsEnd Service
CHECK_DEADLOCK FALSE
