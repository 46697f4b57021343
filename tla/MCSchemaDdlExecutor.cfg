SPECIFICATION MCSpec
CONSTANTS
  None = None
  k1 = k1
  k2 = k2
  m1 = m1
  m2 = m2
  Calls = {c1, c2, c3}
  Keys = {k1, k2}
  Commands = {m1, m2}
  Conns = {x1, x2}
  NumStatements = 1
  Requests <- MCRequests
  RollbackMayBeDropped = FALSE
  MaxCrashes = 1
SYMMETRY MCSymmetry
INVARIANTS NoDurableRunning HistoryTellsTheSchema
PROPERTIES KeepsPromise
CHECK_DEADLOCK FALSE
