SPECIFICATION Spec
CONSTANTS
  Nodes = {n1, n2, n3}
  Writers = {w1, w2}
  Creators = {}
  Syncs = {}
  Promoters = {p1, p2}
  Readers = {}
  ReplicaCount = 2
  Placements = 100
  Retick = FALSE
  None = None
SYMMETRY Symmetric
CHECK_DEADLOCK FALSE
INVARIANTS
  OnePrimary
  PendingCoversWriters
  HandoverCanResume
PROPERTIES
  PromotionKeepsContent
