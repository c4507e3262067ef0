CONSTANTS
  Conns = {c1, c2}
  None = None
  ParallelMax = 2
  NumToRequest = 2
  ReqsPerConn = 2
  ReqBlocks = 1
  UserQuits = TRUE
  SendMayFill = FALSE
  ServerAnswers = TRUE
  EarlyAnswers = FALSE
  FaultKinds = {"setup", "refused", "unreachable", "reset", "close", "garbage"}
  MaxFaults = 2
SPECIFICATION Spec
SYMMETRY ConnSymmetry
INVARIANTS Conservation NoFreedConn NoneLeftDone OneAtATime InFlightCounted ExitJustified
