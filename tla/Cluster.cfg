SPECIFICATION Spec
CONSTANTS
  Workers = {w1, w2}
  Shards = {s1}
  Holders = {h1, h2}
  Locations = {l1, l2}
  Deployments <- AnyDeployment
  MaxFaults = 1
SYMMETRY Symmetry
INVARIANTS
  TypeOK
  OkIsDurable
  RegisteredBeforeCommitted
  NoCrossTalk
PROPERTIES
  CommitFenced
  OnlyOwnRelease
CHECK_DEADLOCK FALSE
