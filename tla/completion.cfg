CONSTANTS
  Conns = {c1, c2}
  None = None
  ParallelMax = 2
  NumToRequest = 2
  ReqsPerConn = 2
  ReqBlocks = 1
  UserQuits = FALSE
  SendMayFill = FALSE
  ServerAnswers = TRUE
  EarlyAnswers = FALSE
  FaultKinds = {"refused", "close", "garbage"}
  MaxFaults = 1
SPECIFICATION Spec
PROPERTIES Completion ResponseIsRead
