SPECIFICATION Spec
CONSTANTS
  Threads = {t1, t2}
  Items = {obj, evt}
  Ids = {obj, evt}
  obj = obj
  evt = evt
  Keys = {1, 2, 3}
  Entries <- MCEntries
  KeysOf <- MCKeysOf
  Scanned = {obj}
  CompactAt = 1
  MaxOps = 5
  MaxFaults = 1
SYMMETRY Symmetry
INVARIANTS
  TypeOK
  ReadsFindAcked
  SitesAreReal
  DataIsListed
CHECK_DEADLOCK FALSE
