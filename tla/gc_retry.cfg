SPECIFICATION Spec
CONSTANTS
  Nodes = {n1, n2}
  Writers = {w1}
  Creators = {}
  Syncs = {}
  Promoters = {p1}
  Readers = {}
  ReplicaCount = 2
  Placements = 100
  Retick = FALSE
  None = None
SYMMETRY Symmetric
CHECK_DEADLOCK FALSE
INVARIANTS
  RetryIsAccepted
