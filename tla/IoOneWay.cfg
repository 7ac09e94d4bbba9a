SPECIFICATION Spec
CONSTANTS
  Threads = {t1, t2}
  Fds = {40, 50}
  Events = {"READ"}
  Uses = {"del", "cancelAll", "close"}
  InitSize = 32
  MaxEvents = 256
  MaxGen = 1
  MaxWoken = 1
  Null = null
SYMMETRY Symmetry
INVARIANTS AssertionsHold EventsReachable
