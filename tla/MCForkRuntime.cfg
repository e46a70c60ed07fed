CONSTANTS
  Drivers = 1
  Steps = 2
  MaxProposals = 2
  Call = {"ALLOW", "ESCALATE"}
  Caller = {1, 2}
  MaxMoves = 4
  MaxFaults = 1
SPECIFICATION MCSpec
INVARIANTS EscalationNeedsHuman RecordsAreTrue OneOpenQuestion QuietDeclineIsFinal
PROPERTIES StopQuiesces KeepsLooking
CHECK_DEADLOCK FALSE
