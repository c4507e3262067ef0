CONSTANTS
  Conns = {c1}
  None = None
  ParallelMax = 1
  NumToRequest = 2
  ReqsPerConn = 2
  ReqBlocks = 2
  UserQuits = FALSE
  SendMayFill = TRUE
  ServerAnswers = TRUE
  EarlyAnswers = FALSE
  FaultKinds = {}
  MaxFaults = 0
SPECIFICATION Spec
PROPERTIES ResponseIsRead
CHECK_DEADLOCK FALSE
