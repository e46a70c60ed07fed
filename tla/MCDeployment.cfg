CONSTANTS
  N = 7
  Type <- MCType
  Deps <- MCDeps
  Fault = {"lostAnswer", "readFails", "crash"}
  MaxSends = 3
  MaxFaults = 1
  None = None
SPECIFICATION Spec
INVARIANTS RepeatNeedsAFault EffectsFollowDependencies 
CHECK_DEADLOCK FALSE
