SPECIFICATION Spec
CONSTANTS
  Nodes = {n1, n2}
  Writers = {w1, w2}
  Creators = {w1}
  Syncs = {s1}
  Promoters = {p1}
  Readers = {r1}
  ReplicaCount = 2
  Placements = 100
  Retick = FALSE
  None = None
SYMMETRY Symmetric
CHECK_DEADLOCK FALSE
INVARIANTS
  TypeOK
  RoutedReadsSeeAcked
  AckedWritesSurvive
  ReadableReplicasCurrent
  NoDivergence
PROPERTIES
  ImplementsOneCopy
  NodeEpochsGrow
