CONSTANTS
  t1 = t1
  t2 = t2
  mine = mine
  old = old
  Tables = {t1, t2}
  Values = {"one", "two"}
  Methods <- MCMethods
  Tokens = {mine, old}
  OperatorToken = mine
  MaxForms = 2
  MaxSent = 3
  MaxAwaited = 2
  MaxOthers = 1
  None = None
SPECIFICATION MCSpec
INVARIANTS FormsFitRoutes AppliedWasPreviewed OneChangePerForm NeverStuck
PROPERTIES RefusedOnlyWhenStale
CHECK_DEADLOCK FALSE
