SPECIFICATION Spec
CONSTANTS
  Threads = {t1, t2, u1}
  Unhooked = {u1}
  Fds = {5, 64}
  MaxSockets = 2
  InitSize = 64
  Null = null
SYMMETRY Symmetry
INVARIANTS TableExact NeverBlocks UserFlagKept
CHECK_DEADLOCK FALSE
