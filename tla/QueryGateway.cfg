SPECIFICATION Spec
CONSTANTS
  Threads = {t1}
  N = 2
  Parts = {1, 2}
  MaxVersion = 2
  MaxQueries = 2
  MaxFaults = 2
INVARIANTS
  TypeOK
  OwnAnswer
  FailsOnlyWithoutWorkers
  ReadsCommitted
CHECK_DEADLOCK FALSE
