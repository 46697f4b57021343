SPECIFICATION Spec
CONSTANTS
  None = None
  k1 = k1
  k2 = k2
  m1 = m1
  m2 = m2
  Calls = {c1, c2}
  Keys = {k1, k2}
  Commands = {m1, m2}
  Conns = {x1}
  NumStatements = 2
  Requests <- MCRequests
  RollbackMayBeDropped = TRUE
  MaxCrashes = 0
INVARIANTS DryRunLeavesNothing
CHECK_DEADLOCK FALSE
