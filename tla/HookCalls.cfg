SPECIFICATION FairSpec
CONSTANTS
  f1 = f1
  f2 = f2
  Fibers = {f1, f2}
  Uses <- MCUses
  MaxTimers <- MCMaxTimers
  MaxOpens = 2
  Null = null
INVARIANTS OneWake StrandedOnlyLate ConnectTrue NoForeignTimeout
PROPERTY TimedCallReturns
CHECK_DEADLOCK FALSE
