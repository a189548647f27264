SPECIFICATION Spec
CONSTANTS
  Readers = {r1}
  NumOrders = 2
  MergeAt = 1
  Old = 2
  MaxNew = 2
  MaxOpens = 2
  MaxCrashes = 1
  MaxUpgrades = 1
INVARIANTS
  TypeOK
  MarkerCovered
  IndexComplete
  ReaderComplete
CHECK_DEADLOCK FALSE
