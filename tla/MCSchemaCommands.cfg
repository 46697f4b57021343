CONSTANTS
  c1 = c1
  c2 = c2
  c3 = c3
  Calls = {c1, c2, c3}
  None = None
  Keys = {"k1", "k2", "k3"}
  Columns = {"id", "owner", "n", "m"}
  Templates = {"read"}
  Names <- MCNames
  Databases <- MCDatabases
  Requests <- MCRequests
SPECIFICATION MCSpec
SYMMETRY MCSymmetry
INVARIANTS NoCascadeAtExposed RetryIsReplayed ReusedKeysAreRefused
PROPERTIES ExposedIsFrozen SafeConversionsOnly OnlyConfirmedDrops PlansAreManaged
