CONSTANTS
  p1 = p1
  Deployment = {d1, d2}
  Project = {p1}
  projectOf <- MCprojectOf
  SetupPhases = 2
  maxConcurrentForks = 1
  MaxStops = 2
  MaxRestarts = 1
SPECIFICATION Spec
INVARIANTS EveryForkHasAnOwner  NoRuntimeOutlives OneActivePerProject
PROPERTY DeployingEnds
CHECK_DEADLOCK FALSE
