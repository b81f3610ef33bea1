SPECIFICATION Spec
CONSTANTS
  Room = {r1, r2}
  Watcher = Watcher
  None = None
  AutosaveStates = {TRUE, FALSE}
  SaveDelaySet = TRUE
  AsyncContent = TRUE
  Polling = TRUE
  Backdating = TRUE
  ReadOnly = TRUE
  MaxSaves = 2
  Budget <- BudgetFaults
INVARIANTS IInv PathFollows
