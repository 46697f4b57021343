SPECIFICATION MCFairSpec
CONSTANTS
  None = None
  k1 = k1
  k2 = k2
  m1 = m1
  m2 = m2
  Calls = {c1, c2}
  Keys = {k1, k2}
  Commands = {m1, m2}
  Conns = {x1, x2}
  NumStatements = 2
  Requests <- MCRequests
  RollbackMayBeDropped = TRUE
  MaxCrashes = 0
INVARIANTS AtMostOnce ExclusiveWriter
PROPERTIES CommittedRowsAreFinal LockAndConnectionsComeBack
CHECK_DEADLOCK FALSE
