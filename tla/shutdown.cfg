CONSTANTS
  Conns = {c1, c2}
  None = None
  ParallelMax = 2
  NumToRequest = 2
  ReqsPerConn = 1
  ReqBlocks = 1
  UserQuits = TRUE
  SendMayFill = FALSE
  ServerAnswers = FALSE
  EarlyAnswers = FALSE
  FaultKinds = {"setup", "unreachable"}
  MaxFaults = 1
SPECIFICATION Spec
PROPERTIES Shutdown QuietAfterFinish
