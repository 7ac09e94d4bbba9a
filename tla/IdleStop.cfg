SPECIFICATION FairSpec
CHECK_DEADLOCK FALSE
CONSTANTS
  Workers = {w1, w2}
  Root = root
  UseCaller = TRUE
  MaxWork = 3
INVARIANT NothingLeft
PROPERTIES StopEnds QueueRuns
