CONSTANTS
  Drivers = 1
  Steps = 1
  MaxProposals = 1
  Call = {"ALLOW", "ESCALATE"}
  Caller = {1}
  Request = {1, 2}
  Operation = {"PAUSE_RUNTIME", "RESUME_RUNTIME", "REVOKE_IDENTITY", "PAUSE_CRE", "DISABLE_POLICY", "ENABLE_POLICY", "EMERGENCY_LOCK"}
  ClientKey = {}
  MaxMoves = 1
  MaxFaults = 0
SPECIFICATION MCSpec
INVARIANT LockRefusesRestoring
CHECK_DEADLOCK FALSE
