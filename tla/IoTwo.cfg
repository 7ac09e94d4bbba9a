SPECIFICATION FairSpec
CONSTANTS
  Threads = {t1, t2}
  Fds = {5}
  Events = {"READ", "WRITE"}
  Uses = {"del", "cancel", "cancelAll", "hup"}
  InitSize = 32
  MaxEvents = 256
  MaxGen = 1
  MaxWoken = 1
  Null = null
INVARIANTS PendingExact OneWakeUp PendingGuards EpollAgrees
PROPERTIES WaiterWoken
