CONSTANTS
  a1 = a1
  a2 = a2
  c1 = c1
  c2 = c2
  Agent = {a1, a2}
  Client = {c1, c2}
  Cents = {0, 1, 2}
  perAction <- MCperAction
  agentDaily <- MCagentDaily
  aggregateLimits <- MCDayLimit
  Day = 2
  MaxTime = 3
  MaxRows = 3
SPECIFICATION Spec
 
PROPERTIES RevokedSpendsNoMore ResolvedOnce
SYMMETRY Symmetry
CHECK_DEADLOCK FALSE
