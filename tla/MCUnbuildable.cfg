CONSTANTS
  Build = {b1}
  Request = {r1}
  MaxRevision = 2
  MaxBuildRevision = 2
  Usage = {1, 2}
  modelRequestsPerBuild = 3
  autoRepairLoops = 1
  maxMandatoryPassesPerBuild = 1
  concurrentBuilds = 1
  MaxRestarts = 0
SPECIFICATION MCSpec
INVARIANT OnlyBuildableIsBuilt
CHECK_DEADLOCK FALSE
