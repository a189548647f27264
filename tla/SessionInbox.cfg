SPECIFICATION Spec
CONSTANTS
  Writers = {w1, w2}
  Notes = {n1, n2, n3}
  n2 = n2
  n3 = n3
  DeadEnds = {n1}
  TooLong = {}
  Wide = {n1}
  MaxEntries = 2
  Bytes <- LineBytes
  MaxBytes = 10
  MaxOps = 5
  MaxFaults = 2
SYMMETRY Symmetry
INVARIANTS
  TypeOK
  AcceptedReachable
  ExactInbox
  ClaimsComplete
PROPERTY
  ReviewStands
CHECK_DEADLOCK FALSE
