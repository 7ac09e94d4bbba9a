SPECIFICATION FairSpec
CONSTANTS
  Threads = {t1}
  Unhooked = {}
  Fds = {5}
  MaxSockets = 2
  InitSize = 64
  Null = null
PROPERTY CloseReturns
CHECK_DEADLOCK FALSE
