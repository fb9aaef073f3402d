SPECIFICATION Spec
CONSTANTS
  MaxPacketSize = 2
  SeqSize = 5
  Bits <- MCBits
  Backends = {"b1"}
  Clients <- MCClients
  Scripts <- MCScripts
  MaxLosses = 1
  DeprecateEOF = {"c1"}
  LongDataSize = 16777216
INVARIANTS
  AnswersAreOwn
  AnswersAreWhole
  PutBackClean
  ValuesSurvive
