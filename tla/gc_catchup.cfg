SPECIFICATION FairSpec
CONSTANTS
  Nodes = {n1, n2}
  Writers = {w1}
  Creators = {}
  Syncs = {s1}
  Promoters = {}
  Readers = {}
  ReplicaCount = 2
  Placements = 100
  Retick = TRUE
  None = None
CHECK_DEADLOCK FALSE
PROPERTIES
  ReplicasCatchUp
