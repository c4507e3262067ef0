CONSTANTS
  Conns = {c1, c2}
  None = None
  ParallelMax = 1
  NumToRequest = 4
  ReqsPerConn = 2
  ReqBlocks = 2
  UserQuits = TRUE
  SendMayFill = TRUE
  ServerAnswers = TRUE
  EarlyAnswers = TRUE
  FaultKinds = {"reset", "close", "garbage"}
  MaxFaults = 1
SPECIFICATION Spec
INVARIANTS TypeOK Conservation ParallelBound CallsPerConn
PROPERTIES ImplementsLoadGen
