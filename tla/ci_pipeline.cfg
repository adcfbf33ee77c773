SPECIFICATION Spec
CONSTANTS
  build = build
  test = test
  Jobs = {build, test}
  Manual = {}
  Noop = {}
  Needs <- TestNeedsBuild
  Uploads = {test}
  Chatty = {test}
  Runners = {r1, r2}
  Removable = {}
  Tries = 1
  MaxRetries = 1
  MaxCancels = 1
  MaxPosts = 1
  Older = 199
  Ahead = 98
SYMMETRY Symmetric
CHECK_DEADLOCK FALSE
INVARIANTS
  TypeOK
  EndedPipelineIsOver
  NeedsComeFirst
  PipelineGetsOn
  ResultIsOfLastRun
  LogIsOfItsRun
  SuccessHasArtifact
PROPERTIES
  ResultStands
