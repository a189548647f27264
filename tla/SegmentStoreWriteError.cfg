SPECIFICATION FaultySpec
CONSTANTS
  Readers = {r1}
  SealLen = 2
  MaxAppends = 3
  MaxSegs = 2
  MaxAttrs = 1
  MaxCrashes = 2
INVARIANT AckedDurable
CHECK_DEADLOCK FALSE
