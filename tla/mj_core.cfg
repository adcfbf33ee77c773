SPECIFICATION Spec
CONSTANTS
  MRs = {m1, m2}
  NoConfig <- FirstMerge
  BadConfig = {}
  Callers = {c1, c2}
  Recoverers = {}
  MaxOps = 2
  MaxPushes = 1
  MaxRewinds = 1
  MaxFails = 1
  MaxCancels = 0
SYMMETRY Symmetric
CHECK_DEADLOCK FALSE
INVARIANTS
  TypeOK
  RowsAgree
  MergedIsLanded
  DatabaseAgreesWithReceipt
  RejectedIsAbsent
  DeliveredHasPipeline
PROPERTIES
  DecidesOnce
  CompleteIsFinal
  LandingKeepsCommits
