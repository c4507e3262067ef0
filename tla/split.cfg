SPECIFICATION Spec
CONSTANTS
  Objects = {"nbq"}
  BlockSize = 2
  MaxBytes = 5
  Bodies <- Blocks
  SplitAnywhere = TRUE
  Labels = {one, two}
  MaxEntries = 2
  MaxIds = 5
  Users = {one, two}
  MaxObjs = 3
  MaxSizes <- Sizes
  MaxAdds = 8
  Events = {1, 2, 3}
  Delays = {0, 1, 2}
  MaxClock = 3
  Threads = {one, two}
  Keys = {"a", "b"}
  Objs = {1, 2, 3, 4}
  Ttl = 1
  LateCopy = FALSE
  MaxTime = 2
  Workers = {one, two}
  Ranges <- RangesOf
  MaxRanges = 3
  Width = 16
  MaxCalls = 5
PROPERTIES SplitAtOffset
CHECK_DEADLOCK FALSE
