SPECIFICATION Spec
CONSTANTS
  Entities = {e1, e2}
  Slots = {s1, s2}
  Values = {v1, v2}
  Absent = absent
  s1 = s1
  s2 = s2
  v1 = v1
  v2 = v2
  Payloads <- Few
  Readers = {r1}
  Interval = 2
  MaxTx = 4
  MaxCrashes = 2
SYMMETRY Symmetry
INVARIANTS
  TypeOK
  ReadsExact
  NoRedundantVersion
  ReaderHistory
CHECK_DEADLOCK FALSE
