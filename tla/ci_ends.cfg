SPECIFICATION FairSpec
CONSTANTS
  build = build
  test = test
  Jobs = {build, test, noop}
  Manual = {noop}
  Noop = {noop}
  Needs <- TestNeedsBuild
  Uploads = {}
  Chatty = {}
  Runners = {r1, r2}
  Removable = {r2}
  Tries = 2
  MaxRetries = 0
  MaxCancels = 0
  MaxPosts = 1
  Older = 199
  Ahead = 97
CHECK_DEADLOCK FALSE
INVARIANTS
  WaitingIsClaimable
PROPERTIES
  EverythingEnds
