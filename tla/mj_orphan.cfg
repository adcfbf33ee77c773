SPECIFICATION Spec
CONSTANTS
  MRs = {m1}
  NoConfig = {}
  BadConfig = {}
  Callers = {c1, c2}
  Recoverers = {r1}
  MaxOps = 1
  MaxPushes = 0
  MaxRewinds = 1
  MaxFails = 1
  MaxCancels = 1
SYMMETRY Symmetric
CHECK_DEADLOCK FALSE
INVARIANTS
  DatabaseAgreesWithReceipt
