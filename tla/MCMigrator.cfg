CONSTANTS
  c1 = c1
  c2 = c2
  first = first
  second = second
  third = third
  text = text
  edited = edited
  Commands = {c1, c2}
  Directories <- MCDirectories
  MaxChanges = 2
  MaxFailures = 1
  MaxBreaks = 2
  None = None
SPECIFICATION FairSpec
INVARIANTS RanOnceAsRecorded RunsAreWhole
PROPERTIES EveryRunEnds
CHECK_DEADLOCK FALSE
