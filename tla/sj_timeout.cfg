SPECIFICATION FairLateSpec
CONSTANTS
  w1 = w1
  w2 = w2
  t1 = t1
  t2 = t2
  t3 = t3
  t4 = t4
  t5 = t5
  Workers <- OneWorker
  Tokens <- ThreeTokens
  Refused = {}
  Projects = 100
  Builds = 100
  MaxGen = 2
  MaxPushes = 1
  MaxFaults = 1
PROPERTIES
  FailedRebuildRetains
CHECK_DEADLOCK FALSE
