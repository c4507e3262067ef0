SPECIFICATION Spec
CONSTANTS
  Objects = {"nbq", "nlru", "pool", "vector", "timers", "resolver", "paths"}
  BlockSize = 2
  MaxBytes = 5
  Bodies <- Blocks
  SplitAnywhere = FALSE
  Labels = {one, two}
  MaxEntries = 2
  MaxIds = 5
  Users = {one, two}
  MaxObjs = 3
  MaxSizes <- Sizes
  MaxAdds = 8
  Events = {1, 2, 3}
  Delays = {0, 1, 2}
  MaxClock = 3
  Threads = {one, two}
  Keys = {"a", "b"}
  Objs = {1, 2, 3, 4}
  Ttl = 1
  LateCopy = FALSE
  MaxTime = 2
  Workers = {one, two}
  Ranges <- RangesOf
  MaxRanges = 3
  Width = 16
  MaxCalls = 5
INVARIANTS NextAtHand IndexesAgree KeepsNewest LentOnce LastOnes NoneSleptThrough OneOwner AnswerHolds AllPaths InTurn
PROPERTIES ImplementsByteQueue DueIsServiced
CHECK_DEADLOCK FALSE
