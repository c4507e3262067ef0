CONSTANTS
  Conns = {c1}
  None = None
  ParallelMax = 1
  NumToRequest = 2
  ReqsPerConn = 2
  ReqBlocks = 1
  UserQuits = FALSE
  SendMayFill = FALSE
  ServerAnswers = TRUE
  EarlyAnswers = FALSE
  FaultKinds = {"reset"}
  MaxFaults = 1
SPECIFICATION Spec
PROPERTIES Completion
CHECK_DEADLOCK FALSE
