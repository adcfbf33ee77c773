SPECIFICATION Spec
CONSTANTS
  Nodes = {n1, n2}
  Writers = {w1}
  Creators = {}
  Syncs = {}
  Promoters = {}
  Readers = {}
  ReplicaCount = 2
  Placements = 100
  Retick = FALSE
  None = None
CHECK_DEADLOCK FALSE
INVARIANTS
  RejectionLeavesNoWriter
