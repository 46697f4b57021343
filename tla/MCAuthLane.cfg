CONSTANTS
  e1 = e1
  a1 = a1
  Attempts = 1
  Window = 2
  MaxEntries = 1
  Second = 2
  Emails = {e1}
  Addresses = {a1}
  Ttl = 1
  MaxRequests = 4
  MaxOpen = 2
  MaxClock = 2
  MaxFailures = 1
  None = None
SPECIFICATION Spec
INVARIANTS TypeOK RunsInActiveSession FewPass RefusedOnlyWhenUsedUp NobodyCutOff
CHECK_DEADLOCK FALSE
