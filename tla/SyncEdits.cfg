SPECIFICATION FairSpec
CONSTANTS
  Room = {r1}
  Watcher = Watcher
  None = None
  AutosaveStates = {TRUE}
  SaveDelaySet = TRUE
  AsyncContent = FALSE
  Polling = TRUE
  Backdating = FALSE
  ReadOnly = FALSE
  MaxSaves = 4
  Budget <- BudgetEdits
INVARIANTS NoSilentDivergence WriteUnderLock
PROPERTIES SavesInOrder Converges SavesEnd
