SPECIFICATION Spec
CONSTANTS
  a = a
  b = b
  c = c
  Passes <- MCPasses
  Ghost = ghost
  Identities = {i1, i2}
  NoIdentity = none
  MaxRuns = 3
  MaxChanges = 1
  MaxKills = 1
SYMMETRY PassSymmetry
INVARIANTS
  TypeOK
  DependenciesFirst
  RefusedExactly
  SkippedHasRun
CHECK_DEADLOCK FALSE
