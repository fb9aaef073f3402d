CONSTANTS
  N = 3
  MaxTx = 2
  p1 = p1
  p2 = p2
  Backend = {p1, p2}
  MaxCap = 3
  None = None
  Broken = Broken
  Faults = {"overlap", "nested", "dbError"}
SPECIFICATION Spec
INVARIANTS NewestLeavesNothing
PROPERTIES OlderKeepTheirs
CHECK_DEADLOCK FALSE
