CONSTANTS
  N = 7
  Type <- MCType
  Deps <- MCDeps
  Fault = {"readFails"}
  MaxSends = 3
  MaxFaults = 1
  None = None
SPECIFICATION Spec
INVARIANT NoDuplicateWrite
CHECK_DEADLOCK FALSE
