SPECIFICATION TMSpec
CONSTANTS
  x1 = x1
  x2 = x2
  b1 = b1
  b2 = b2
  b3 = b3
  r1 = r1
  r2 = r2
  d1 = d1
  d2 = d2
  GQ = GQ
  BQ = BQ
  None = None
  XID = {x1, x2}
  Branch = {b1, b2, b3}
  Row = {r1, r2}
  Tcc = {}
  OneDB = FALSE
  Thread <- MCThread
  XidOf <- MCXidOf
  RowsOf <- MCRowsOf
  ResOf <- MCResOf
  Unlock = FALSE
  Faults = {"dbError", "dead"}
INVARIANTS
  TMTypeOK
  NoOrphan
  WritesAreLocked
  RollbackUndoes
  LocksHaveReleasers
PROPERTIES
  LocksPassThroughFree
  ReleasesOwnLocks
CHECK_DEADLOCK FALSE
