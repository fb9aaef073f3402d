SPECIFICATION Spec
CONSTANTS
  Pks = {1, 2, 3}
  Values = {1, 2, 3, 4}
  Micros = {4}
  Xids = {"x1", "x2"}
  Writers = {"w1"}
  Workloads <- MCWorkloads
  Tables <- MCTables
INVARIANTS
  RollbackRestores
  RefusedForCause
  LockKeysCoverWrites
CHECK_DEADLOCK FALSE
