CONSTANTS
  Build = {b1}
  Request = {r1, r2}
  MaxRevision = 2
  MaxBuildRevision = 2
  Usage = {1, 2}
  modelRequestsPerBuild = 3
  autoRepairLoops = 1
  maxMandatoryPassesPerBuild = 1
  concurrentBuilds = 1
  MaxRestarts = 1
SPECIFICATION MCSpec
INVARIANTS HeldIsInFlight OvershootIsBounded CompletedIsProven  SandboxHasItsRun
PROPERTY RunLetsGo
CHECK_DEADLOCK FALSE
