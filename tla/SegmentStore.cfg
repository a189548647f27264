SPECIFICATION Spec
CONSTANTS
  Readers = {r1}
  SealLen = 2
  MaxAppends = 3
  MaxSegs = 2
  MaxAttrs = 1
  MaxCrashes = 2
INVARIANTS
  TypeOK
  AckedDurable
  TxDense
  SealedImmutable
  ReaderPrefix
  FreshAsOfStart
PROPERTIES
  RefreshResolves
  ImplementsAppendLog
CHECK_DEADLOCK FALSE
