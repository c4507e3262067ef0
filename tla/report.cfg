CONSTANTS
  NumThreads = 2
  NumToRequest = 3
  ParallelMax = 1
  PromptStart = TRUE
  EarlyEnd = TRUE
  MaxReqs = 2
SPECIFICATION Spec
INVARIANTS TypeOK FinalReport
PROPERTIES NoticeJustified NothingCutShort DisplayGrows Shutdown
