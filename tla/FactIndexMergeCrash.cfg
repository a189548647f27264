SPECIFICATION Spec
CONSTANTS
  Readers = {}
  NumOrders = 1
  MergeAt = 1
  Old = 2
  MaxNew = 3
  MaxOpens = 0
  MaxCrashes = 2
  MaxUpgrades = 0
INVARIANTS
  ServedFromRuns
CHECK_DEADLOCK FALSE
