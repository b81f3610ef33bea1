SPECIFICATION FairSpec
CONSTANTS
  Null = Null
  MaxConnections = 3
  MaxSaves = 2
  Budget <- BudgetAll
INVARIANTS ProviderInv
PROPERTIES LoadAsked SyncedStays SavesMatched
CHECK_DEADLOCK FALSE
