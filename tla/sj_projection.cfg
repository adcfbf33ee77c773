SPECIFICATION FairSpec
CONSTANTS
  w1 = w1
  w2 = w2
  t1 = t1
  t2 = t2
  t3 = t3
  t4 = t4
  t5 = t5
  Workers <- TwoWorkers
  Tokens <- FiveTokens
  Refused <- OtherBranchFirst
  Projects = 100
  Builds = 100
  MaxGen = 3
  MaxPushes = 2
  MaxFaults = 2
INVARIANTS
  TypeOK
  PublishedIsStored
  NotPendingIsFresh
PROPERTIES
  ImplementsIndex
  EventuallyIndexed
CHECK_DEADLOCK FALSE
