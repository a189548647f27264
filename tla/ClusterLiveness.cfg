SPECIFICATION FairSpec
CONSTANTS
  Workers = {w1, w2}
  Shards = {s1}
  Holders = {h1, h2}
  Locations = {l1}
  Deployments <- Rivals
  MaxFaults = 0
PROPERTIES
  RunEnds
CHECK_DEADLOCK FALSE
