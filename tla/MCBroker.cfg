CONSTANTS
  c1 = c1
  c2 = c2
  c3 = c3
  k1 = k1
  k2 = k2
  Call = {c1, c2, c3}
  Key = {k1, k2}
  Action = {"transfer", "unlisted"}
  Refused = {"unlisted"}
  Identity = {"v1", "v2"}
  MsPerSecond = 2
  NonceScale = 2
  MaxTime = 3
  MaxMints = 2
  None = None
SPECIFICATION Spec
SYMMETRY CallSymmetry
INVARIANTS OneCapabilityPerKey  ReturnedIsTracked 
PROPERTIES OutcomesAreFinal
CHECK_DEADLOCK FALSE
