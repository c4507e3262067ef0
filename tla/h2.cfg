CONSTANTS
  NumToRequest = 3
  ReqsPerConn = 2
  BodyFrames = 3
  RespFrames = 2
  Window = 2
  SendMayFill = TRUE
  EarlyAnswers = FALSE
  FaultKinds = {"handshake", "close", "rst", "goaway"}
  MaxFaults = 2
SPECIFICATION Spec
INVARIANTS TypeOK Conservation NoIdleConn BodyWhole
PROPERTIES Completion NothingHeldBack ImplementsLoadGen
CHECK_DEADLOCK FALSE
