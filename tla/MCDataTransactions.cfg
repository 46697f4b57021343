SPECIFICATION MCFairSpec
CONSTANTS
  None = None
  Unwritten = Unwritten
  u1 = u1
  u2 = u2
  i1 = i1
  c1 = c1
  c2 = c2
  Calls = {c1, c2}
  Users = {u1, u2}
  Ids = {i1}
  Conns = {x1, x2}
  Requests <- MCRequests
  MaxCrashes = 1
INVARIANTS PooledIsClean RunsAsItself SeesOwnRows
PROPERTIES KeepsPromise OthersRowsAreKept Answered
CHECK_DEADLOCK FALSE
