CONSTANTS
  NumThreads = 2
  NumToRequest = 2
  ParallelMax = 1
  PromptStart = FALSE
  EarlyEnd = TRUE
  MaxReqs = 2
SPECIFICATION Spec
PROPERTIES Shutdown
CHECK_DEADLOCK FALSE
