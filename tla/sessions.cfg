CONSTANTS
  N = 3
  MaxTx = 3
  p1 = p1
  p2 = p2
  Backend = {p1, p2}
  MaxCap = 2
  None = None
  Broken = Broken
  Faults = {"dbError"}
SPECIFICATION Spec
INVARIANTS LocalTypeOK EveryGetIsPut RunsInItsTransaction CommittedOnlyIfAsked CommitAnswersTruly
CHECK_DEADLOCK FALSE
