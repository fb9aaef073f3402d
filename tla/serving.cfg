SPECIFICATION Spec
CONSTANTS
  g1 = g1
  g2 = g2
  m1 = m1
  m2 = m2
  m3 = m3
  s1 = s1
  s2 = s2
  None = None
  Group = {g1, g2}
  DB = {m1, m2, m3, s1, s2}
  Configs <- MCConfigs
  ReadWeight <- MCReadWeight
  WriteWeight <- MCWriteWeight
  ErrorThreshold = 2
  SuccessThreshold = 2
  MaxOthers = 2
INVARIANTS
  CommitIsWhole
  ConnectionsComeBack
  
  OpenHasTimer
PROPERTIES
  PanicHasCause
CHECK_DEADLOCK FALSE
