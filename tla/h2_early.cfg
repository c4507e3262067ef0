CONSTANTS
  NumToRequest = 3
  ReqsPerConn = 2
  BodyFrames = 2
  RespFrames = 1
  Window = 1
  SendMayFill = FALSE
  EarlyAnswers = TRUE
  FaultKinds = {}
  MaxFaults = 0
SPECIFICATION Spec
PROPERTIES Completion
CHECK_DEADLOCK FALSE
