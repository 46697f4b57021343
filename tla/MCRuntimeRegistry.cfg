SPECIFICATION MCSpec
CONSTANTS
  None = None
  t1 = t1
  t2 = t2
  s1 = s1
  s2 = s2
  p1 = p1
  p2 = p2
  k1 = k1
  k2 = k2
  k3 = k3
  k4 = k4
  k5 = k5
  k6 = k6
  k7 = k7
  k8 = k8
  k9 = k9
  k10 = k10
  k11 = k11
  Tables = {t1, t2}
  Shapes = {s1, s2}
  Templates = {p1, p2}
  Keys = {k1, k2, k3, k4, k5, k6, k7, k8, k9, k10, k11}
  Calls = {c1, c2, c3}
  Requests <- MCRequests
  MaxCrashes = 1
SYMMETRY MCSymmetry
INVARIANTS QuietMeansCurrent ServedColumnsHold RowSecurityHolds
PROPERTIES FollowsRegistry
CHECK_DEADLOCK FALSE
