----------------------------- MODULE IOManager -----------------------------
(***************************************************************************)
(* The event half of sylar/iomanager.{h,cc}: fibers and callbacks wait for *)
(* READ or WRITE on a descriptor, pool threads poll an edge-triggered      *)
(* epoll set in idle() and schedule whoever waits.                         *)
(*                                                                         *)
(* A thread is in one of the calls addEvent, delEvent, cancelEvent and     *)
(* cancelAll, in the loop of idle() over the result of epoll_wait, or      *)
(* free.  Inside the mutex of an FdContext the steps that others can see   *)
(* (epoll_ctl, schedule, the atomic counter) are actions of their own.     *)
(*                                                                         *)
(* Not of this repository, and modelled from its use: the epoll set, the   *)
(* readiness of descriptors, pthread_rwlock, and the fibers that wait.     *)
(***************************************************************************)
EXTENDS Integers, FiniteSets

CONSTANTS
  Threads,    \* the threads of the pool
  Fds,        \* descriptors
  Events,     \* the events that fibers wait for, of {"READ", "WRITE"}
  Uses,       \* what happens besides addEvent and readiness
  InitSize,   \* the argument of contextResize in the constructor, 32
  MaxEvents,  \* MAX_EVNETS of idle()
  MaxGen,     \* how many FdContexts are made for a descriptor: bound
  MaxWoken,   \* entries of the run queue per event when a fiber adds: bound
  Null

ASSUME IOManagerAssumption ==
  /\ IsFiniteSet(Threads) /\ Null \notin Threads
  /\ IsFiniteSet(Fds) /\ Fds \subseteq Nat /\ Fds # {}
  /\ Events \subseteq {"READ", "WRITE"} /\ Events # {}
  /\ Uses \subseteq {"del", "cancel", "cancelAll", "hup", "close"}
  /\ InitSize \in Nat /\ InitSize >= 2
  /\ MaxEvents \in Nat /\ MaxEvents > 0
  /\ MaxGen \in Nat /\ MaxGen > 0
  /\ MaxWoken \in Nat /\ MaxWoken > 0

(* An FdContext: the descriptor it was made for and which one it is.       *)
Ctxs == Fds \X (1..MaxGen)
Calls == {"add", "del", "cancel", "cancelAll"}
Masks == SUBSET (Events \cup {"HUP"})

VARIABLES
  m_fdContexts,        \* m_fdContexts[fd]: 0 beyond the vector's end
  m_size,              \* m_fdContexts.size()
  made,                \* made[fd]: FdContexts constructed for fd
  m_mutex,             \* the RWMutex, as pthread keeps it
  m_pendingEventCount,
  events,              \* events[c]: FdContext::events
  waiter,              \* waiter[c]: the EventContexts that hold a pointer
  lock,                \* lock[c]: the holder of FdContext::mutex
  interest, rdlist,    \* the epoll set, and which of it is on the ready list
  ready,               \* ready[fd]: what the kernel would report of fd
  user,                \* user[fd][e]: the fiber that waits for e on fd
  left,                \* numbers closed under a fiber in addEvent or waiting
  sched,               \* sched[fd][e]: its entries in the run queue
  pc, op,              \* pc[t], op[t]: the call that thread t is in
  batch,               \* batch[t]: what is left of epoll_wait's result
  abort                \* what ended the process, or "none"

table  == <<m_fdContexts, m_size, made>>
kernel == <<interest, rdlist>>
ctxs   == <<events, waiter>>
users  == <<user, sched, left>>
vars == <<table, m_mutex, m_pendingEventCount, ctxs, lock, kernel, ready,
          users, pc, op, batch, abort>>

NoOp == [kind |-> "none", fd |-> CHOOSE fd \in Fds : TRUE,
         ev |-> CHOOSE e \in Events : TRUE, gen |-> 0, todo |-> {}]
Ctx(t) == <<op[t].fd, op[t].gen>>

-----------------------------------------------------------------------------
(* pthread_rwlock (glibc): unlock of a lock that the thread does not hold  *)
(* takes one reader off the count, below 0 too.  At -1 a reader still      *)
(* brings it back to 0; below that rdlock fails with EAGAIN, which         *)
(* RWMutex::rdlock ignores.  Nothing brings the count up again from -2,    *)
(* so -2 stands for all that is below.  A writer gets the lock when the    *)
(* count is 0, or while the write phase of the one before it goes on,      *)
(* which its unlock ends only if there are readers, and the next rdlock.   *)
Unlocked == [readers |-> 0, writing |-> FALSE]
RdLock(m) == IF m.readers <= -2 THEN m
             ELSE [readers |-> m.readers + 1, writing |-> FALSE]
RdUnlock(m) == IF m.readers <= -2 THEN m ELSE [m EXCEPT !.readers = @ - 1]
WriteGranted(m) == m.readers = 0 \/ m.writing
WriteUnlock(m) == [m EXCEPT !.writing = (m.readers = 0)]

(* epoll: ADD of a descriptor that is registered fails with EEXIST, MOD    *)
(* and DEL of one that is not with ENOENT.                                 *)
CtlFails(ctl, fd) == (ctl = "ADD") = (interest[fd].gen # 0)

NotRegistered == [gen |-> 0, events |-> {}]
Reports(fd, evs) == ready[fd] \cap (evs \cup {"HUP"})

(* A successful epoll_ctl that leaves evs registered for context <<fd, g>>: *)
(* what is ready already counts as an edge.                                *)
EpollCtl(fd, g, evs) ==
  IF evs = {}
  THEN /\ interest' = [interest EXCEPT ![fd] = NotRegistered]
       /\ rdlist' = rdlist \ {fd}
  ELSE /\ interest' = [interest EXCEPT ![fd] = [gen |-> g, events |-> evs]]
       /\ rdlist' = IF Reports(fd, evs) # {} THEN rdlist \cup {fd} ELSE rdlist

(* Data, buffer space or a hang-up arrives: an edge.                       *)
Arrive(fd, k) ==
  /\ k \in Events \/ (k = "HUP" /\ "hup" \in Uses)
  /\ ready' = [ready EXCEPT ![fd] = @ \cup {k}]
  /\ rdlist' = IF interest[fd].gen # 0 /\ k \in interest[fd].events \cup {"HUP"}
               THEN rdlist \cup {fd} ELSE rdlist
  /\ UNCHANGED <<table, m_mutex, m_pendingEventCount, ctxs, lock, interest,
                 users, pc, op, batch, abort>>

(* Somebody reads or writes until EAGAIN.                                  *)
Drain(fd, e) ==
  /\ e \in ready[fd]
  /\ ready' = [ready EXCEPT ![fd] = @ \ {e}]
  /\ UNCHANGED <<table, m_mutex, m_pendingEventCount, ctxs, lock, kernel,
                 users, pc, op, batch, abort>>

(* close_f(fd), and the number is used for a new descriptor: who waits for *)
(* the former one is not counted in user any more.                         *)
Close(fd) ==
  /\ "close" \in Uses
  /\ ready' = [ready EXCEPT ![fd] = {}]
  /\ interest' = [interest EXCEPT ![fd] = NotRegistered]
  /\ rdlist' = rdlist \ {fd}
  /\ left' = IF \E e \in Events : user[fd][e] # "idle" THEN left \cup {fd}
             ELSE left
  /\ user' = [user EXCEPT ![fd] = [e \in Events |-> "idle"]]
  /\ UNCHANGED <<table, m_mutex, m_pendingEventCount, ctxs, lock, sched, pc,
                 op, batch, abort>>

(* run() takes the entry from the queue and the fiber goes on.  On a number *)
(* that was closed under a fiber it may be that one or the present one.     *)
Resume(fd, e) ==
  /\ sched[fd][e] > 0
  /\ sched' = [sched EXCEPT ![fd][e] = @ - 1]
  /\ \/ user' = [user EXCEPT ![fd][e] = "idle"]
     \/ fd \in left /\ UNCHANGED user
  /\ UNCHANGED left
  /\ UNCHANGED <<table, m_mutex, m_pendingEventCount, ctxs, lock, kernel,
                 ready, pc, op, batch, abort>>

-----------------------------------------------------------------------------
(* IOManager::IOManager: contextResize(32), start().                       *)
Init ==
  /\ m_size = InitSize
  /\ made = [fd \in Fds |-> IF fd < InitSize THEN 1 ELSE 0]
  /\ m_fdContexts = made
  /\ m_mutex = Unlocked
  /\ m_pendingEventCount = 0
  /\ events = [c \in Ctxs |-> {}]
  /\ waiter = [c \in Ctxs |-> {}]
  /\ lock = [c \in Ctxs |-> Null]
  /\ interest = [fd \in Fds |-> NotRegistered]
  /\ rdlist = {}
  /\ ready = [fd \in Fds |-> {}]
  /\ user = [fd \in Fds |-> [e \in Events |-> "idle"]]
  /\ sched = [fd \in Fds |-> [e \in Events |-> 0]]
  /\ left = {}
  /\ pc = [t \in Threads |-> "free"]
  /\ op = [t \in Threads |-> NoOp]
  /\ batch = [t \in Threads |-> {}]
  /\ abort = "none"

(* A call starts with ReadLock lock(m_mutex).  One fiber at a time waits   *)
(* for an event of a descriptor; that of a number's next descriptor does   *)
(* not know of one that was left behind.                                   *)
Enter(t, k, fd, e) ==
  /\ pc[t] = "free" /\ batch[t] = {}
  /\ k = "add" \/ k \in Uses
  /\ k = "add" => user[fd][e] = "idle" \/ fd \in left
  /\ k = "add" => sched[fd][e] < MaxWoken
  /\ k = "cancelAll" => e = NoOp.ev
  /\ m_mutex' = RdLock(m_mutex)
  /\ op' = [op EXCEPT ![t] = [NoOp EXCEPT !.kind = k, !.fd = fd, !.ev = e]]
  /\ pc' = [pc EXCEPT ![t] = "reading"]
  /\ user' = IF k = "add" THEN [user EXCEPT ![fd][e] = "adding"] ELSE user
  /\ UNCHANGED <<table, m_pendingEventCount, ctxs, lock, kernel, ready, sched,
                 left, batch, abort>>

(* fd_ctx = m_fdContexts[fd]; lock.unlock() *)
Found(t) ==
  /\ pc[t] = "reading" /\ m_size > op[t].fd
  /\ op' = [op EXCEPT ![t].gen = m_fdContexts[op[t].fd]]
  /\ m_mutex' = RdUnlock(m_mutex)
  /\ pc' = [pc EXCEPT ![t] = "lock"]
  /\ UNCHANGED <<table, m_pendingEventCount, ctxs, lock, kernel, ready, users,
                 batch, abort>>

(* addEvent: lock.unlock(), then WriteLock lock2(m_mutex).                 *)
TooSmall(t) ==
  /\ pc[t] = "reading" /\ m_size <= op[t].fd /\ op[t].kind = "add"
  /\ m_mutex' = RdUnlock(m_mutex)
  /\ pc' = [pc EXCEPT ![t] = "grow"]
  /\ UNCHANGED <<table, m_pendingEventCount, ctxs, lock, kernel, ready, users,
                 op, batch, abort>>

(* delEvent, cancelEvent, cancelAll: return false, the lock still held.    *)
NoContext(t) ==
  /\ pc[t] = "reading" /\ m_size <= op[t].fd /\ op[t].kind # "add"
  /\ m_mutex' = RdUnlock(m_mutex)
  /\ pc' = [pc EXCEPT ![t] = "free"]
  /\ op' = [op EXCEPT ![t] = NoOp]
  /\ UNCHANGED <<table, m_pendingEventCount, ctxs, lock, kernel, ready, users,
                 batch, abort>>

(* contextResize(size): resize, and a context for every empty place.       *)
Resized(size) ==
  [fd \in Fds |-> IF fd >= size THEN 0
                  ELSE IF m_fdContexts[fd] # 0 THEN m_fdContexts[fd]
                  ELSE made[fd] + 1]

contextResize(size) ==
  /\ \A fd \in Fds : Resized(size)[fd] <= MaxGen
  /\ m_size' = size
  /\ m_fdContexts' = Resized(size)
  /\ made' = [fd \in Fds |-> IF Resized(size)[fd] > made[fd]
                             THEN Resized(size)[fd] ELSE made[fd]]

(* Mutation: room is made for the one descriptor and no more.              *)
GrowJust(t) ==
  /\ pc[t] = "grow" /\ WriteGranted(m_mutex)
  /\ m_mutex' = WriteUnlock(m_mutex)
  /\ contextResize(op[t].fd + 1)
  /\ op' = [op EXCEPT ![t].gen = m_fdContexts'[op[t].fd]]
  /\ pc' = [pc EXCEPT ![t] = "lock"]
  /\ abort' = IF \E u \in Threads : pc[u] = "reading" THEN "race" ELSE abort
  /\ UNCHANGED <<m_pendingEventCount, ctxs, lock, kernel, ready, users, batch>>

(* The new size under the write lock; a reader that is inside nevertheless *)
(* sees the vector change under its hands.                                 *)
Grow(t) ==
  /\ pc[t] = "grow" /\ WriteGranted(m_mutex)
  /\ m_mutex' = WriteUnlock(m_mutex)
  /\ contextResize((op[t].fd * 3) \div 2)
  /\ op' = [op EXCEPT ![t].gen = m_fdContexts'[op[t].fd]]
  /\ pc' = [pc EXCEPT ![t] = "lock"]
  /\ abort' = IF \E u \in Threads : pc[u] = "reading" THEN "race" ELSE abort
  /\ UNCHANGED <<m_pendingEventCount, ctxs, lock, kernel, ready, users, batch>>

(* The call returns.  lock2 goes first; the destructor of lock unlocks     *)
(* m_mutex a second time.                                                  *)
Return(t) ==
  /\ m_mutex' = RdUnlock(m_mutex)
  /\ pc' = [pc EXCEPT ![t] = "free"]
  /\ op' = [op EXCEPT ![t] = NoOp]

(* FdContext::MutexType::Lock lock2(fd_ctx->mutex), in a call of kind k.   *)
Locking(t, k) == pc[t] = "lock" /\ op[t].kind = k /\ lock[Ctx(t)] = Null

Hold(t) == lock' = [lock EXCEPT ![Ctx(t)] = t]
Unlock(t) == lock' = [lock EXCEPT ![Ctx(t)] = Null]

AddOp(c) == IF events[c] = {} THEN "ADD" ELSE "MOD"

(* addEvent: SYLAR_ASSERT(!(fd_ctx->events & event)), before epoll_ctl.    *)
Taken(t) == op[t].ev \in events[Ctx(t)]

AddAsserts(t) ==
  /\ Locking(t, "add")
  /\ Taken(t)
  /\ abort' = "addEvent"
  /\ UNCHANGED <<table, m_mutex, m_pendingEventCount, ctxs, lock, kernel, ready,
                 users, pc, op, batch>>

(* addEvent returns -1.                                                    *)
AddFails(t) ==
  /\ Locking(t, "add")
  /\ ~Taken(t)
  /\ CtlFails(AddOp(Ctx(t)), op[t].fd)
  /\ Return(t)
  /\ user' = [user EXCEPT ![op[t].fd][op[t].ev] = "idle"]
  /\ UNCHANGED <<table, m_pendingEventCount, ctxs, lock, kernel, ready, sched,
                 left, batch, abort>>

(* epevent.events = EPOLLET | fd_ctx->events | event *)
AddMask(c, e) == events[c] \cup {e}

(* addEvent up to epoll_ctl.                                               *)
AddRegisters(t) ==
  LET c == Ctx(t)  e == op[t].ev IN
  /\ Locking(t, "add")
  /\ ~Taken(t)
  /\ ~CtlFails(AddOp(c), op[t].fd)
  /\ EpollCtl(op[t].fd, op[t].gen, AddMask(c, e))
  /\ Hold(t)
  /\ pc' = [pc EXCEPT ![t] = "added"]
  /\ UNCHANGED <<table, m_mutex, m_pendingEventCount, ctxs, ready, users, op,
                 batch, abort>>

(* Mutation: only the first event of a descriptor is counted.              *)
AddCountFirst(c) == m_pendingEventCount + (IF events[c] = {} THEN 1 ELSE 0)

(* ++m_pendingEventCount *)
AddCount(c) == m_pendingEventCount + 1

(* addEvent after epoll_ctl, with its assertion.                           *)
AddStores(t) ==
  LET c == Ctx(t)  e == op[t].ev IN
  /\ pc[t] = "added"
  /\ m_pendingEventCount' = AddCount(c)
  /\ events' = [events EXCEPT ![c] = @ \cup {e}]
  /\ abort' = IF e \in waiter[c] THEN "addEvent" ELSE abort
  /\ waiter' = [waiter EXCEPT ![c] = @ \cup {e}]
  /\ user' = [user EXCEPT ![op[t].fd][e] = "waiting"]
  /\ Unlock(t) /\ Return(t)
  /\ UNCHANGED <<table, kernel, ready, sched, left, batch>>

DelOp(c, evs) == IF events[c] \ evs = {} THEN "DEL" ELSE "MOD"

(* delEvent, cancelEvent: the event is not registered, or epoll_ctl fails. *)
EventMissing(t) ==
  LET c == Ctx(t)  e == op[t].ev IN
  /\ Locking(t, "del") \/ Locking(t, "cancel")
  /\ e \notin events[c] \/ CtlFails(DelOp(c, {e}), op[t].fd)
  /\ Return(t)
  /\ UNCHANGED <<table, m_pendingEventCount, ctxs, lock, kernel, ready, users,
                 batch, abort>>

(* delEvent, cancelEvent up to epoll_ctl.                                  *)
EventLeaves(t) ==
  LET c == Ctx(t)  e == op[t].ev IN
  /\ Locking(t, "del") \/ Locking(t, "cancel")
  /\ e \in events[c] /\ ~CtlFails(DelOp(c, {e}), op[t].fd)
  /\ EpollCtl(op[t].fd, op[t].gen, events[c] \ {e})
  /\ Hold(t)
  /\ op' = [op EXCEPT ![t].todo = {e}]
  /\ pc' = [pc EXCEPT ![t] = IF op[t].kind = "del" THEN "deleted" ELSE "trigger"]
  /\ UNCHANGED <<table, m_mutex, m_pendingEventCount, ctxs, ready, users,
                 batch, abort>>

(* FdContext::resetContext *)
resetContext(c, e) == waiter' = [waiter EXCEPT ![c] = @ \ {e}]

(* delEvent after epoll_ctl: whoever waited is forgotten.                  *)
DelStores(t) ==
  LET c == Ctx(t)  e == op[t].ev IN
  /\ pc[t] = "deleted"
  /\ m_pendingEventCount' = m_pendingEventCount - 1
  /\ events' = [events EXCEPT ![c] = @ \ {e}]
  /\ resetContext(c, e)
  /\ user' = [user EXCEPT ![op[t].fd][e] = "idle"]
  /\ Unlock(t) /\ Return(t)
  /\ UNCHANGED <<table, kernel, ready, sched, left, batch, abort>>

(* cancelAll: nothing is registered, or epoll_ctl fails.                   *)
NothingToCancel(t) ==
  /\ Locking(t, "cancelAll")
  /\ events[Ctx(t)] = {} \/ CtlFails("DEL", op[t].fd)
  /\ Return(t)
  /\ UNCHANGED <<table, m_pendingEventCount, ctxs, lock, kernel, ready, users,
                 batch, abort>>

(* cancelAll up to epoll_ctl.                                              *)
AllLeave(t) ==
  /\ Locking(t, "cancelAll")
  /\ events[Ctx(t)] # {} /\ ~CtlFails("DEL", op[t].fd)
  /\ EpollCtl(op[t].fd, op[t].gen, {})
  /\ Hold(t)
  /\ op' = [op EXCEPT ![t].todo = events[Ctx(t)]]
  /\ pc' = [pc EXCEPT ![t] = "trigger"]
  /\ UNCHANGED <<table, m_mutex, m_pendingEventCount, ctxs, ready, users,
                 batch, abort>>

-----------------------------------------------------------------------------
(* IOManager::idle()                                                       *)

Entry(fd) == [fd |-> fd, gen |-> interest[fd].gen,
              mask |-> Reports(fd, interest[fd].events)]

(* epoll_wait takes as much of the ready list as the array has room for,   *)
(* and of that reports what is still ready.  The order of the list is left *)
(* out: the entries of a batch are for different descriptors.              *)
EpollWait(t, fds) ==
  /\ pc[t] = "free" /\ batch[t] = {}
  /\ fds # {}
  /\ Cardinality(fds) <= MaxEvents
  /\ fds = rdlist \/ Cardinality(fds) = MaxEvents
  /\ batch' = [batch EXCEPT ![t] =
                 {b \in {Entry(fd) : fd \in fds} : b.mask # {}}]
  /\ rdlist' = rdlist \ fds
  /\ UNCHANGED <<table, m_mutex, m_pendingEventCount, ctxs, lock, interest,
                 ready, users, pc, op, abort>>

(* Mutation: an error or a hang-up adds nothing.                           *)
RealEventsNoHup(b, evs) == b.mask \cap Events

(* EPOLLERR and EPOLLHUP stand for every event that is registered.         *)
RealEvents(b, evs) ==
  (b.mask \cap Events) \cup (IF "HUP" \in b.mask THEN evs ELSE {})

(* Mutation: what is left of the mask is not put back.                     *)
LeftEventsNone(evs, real) == {}

LeftEvents(evs, real) == evs \ real

Stale(evs, real) == evs \cap real = {}

(* FdContext::MutexType::Lock lock(fd_ctx->mutex), for entry b of t's     *)
(* batch, whose context is c.                                              *)
Polling(t, b, c) ==
  /\ pc[t] = "free"
  /\ c = <<b.fd, b.gen>>
  /\ lock[c] = Null
  /\ batch' = [batch EXCEPT ![t] = @ \ {b}]

(* None of the events is registered any more, or epoll_ctl fails: continue. *)
EventStale(t, b, c) ==
  LET real == RealEvents(b, events[c]) IN
  /\ Polling(t, b, c)
  /\ Stale(events[c], real) \/ CtlFails(DelOp(c, real), b.fd)
  /\ UNCHANGED <<table, m_mutex, m_pendingEventCount, ctxs, lock, kernel,
                 ready, users, pc, op, abort>>

(* One of the events is registered: everything reported is triggered.      *)
EventFires(t, b, c) ==
  LET real == RealEvents(b, events[c]) IN
  /\ Polling(t, b, c)
  /\ ~Stale(events[c], real) /\ ~CtlFails(DelOp(c, real), b.fd)
  /\ EpollCtl(b.fd, b.gen, LeftEvents(events[c], real))
  /\ lock' = [lock EXCEPT ![c] = t]
  /\ op' = [op EXCEPT ![t] = [NoOp EXCEPT !.kind = "poll", !.fd = b.fd,
                                          !.gen = b.gen, !.todo = real]]
  /\ pc' = [pc EXCEPT ![t] = "trigger"]
  /\ UNCHANGED <<table, m_mutex, m_pendingEventCount, ctxs, ready, users,
                 abort>>

-----------------------------------------------------------------------------
(* READ is triggered before WRITE.                                         *)
First(evs) == IF "READ" \in evs THEN "READ" ELSE "WRITE"

(* Mutation: schedule() gets a copy and the pointer stays behind.          *)
triggerEventCopies(t, e) ==
  /\ abort' = IF e \in events[Ctx(t)] THEN abort ELSE "triggerEvent"
  /\ events' = [events EXCEPT ![Ctx(t)] = @ \ {e}]
  /\ sched' = [sched EXCEPT ![op[t].fd][e] = @ + 1]
  /\ UNCHANGED waiter

(* FdContext::triggerEvent: schedule() swaps the pointer out.              *)
triggerEvent(t, e) ==
  /\ abort' = IF e \in events[Ctx(t)] THEN abort ELSE "triggerEvent"
  /\ events' = [events EXCEPT ![Ctx(t)] = @ \ {e}]
  /\ waiter' = [waiter EXCEPT ![Ctx(t)] = @ \ {e}]
  /\ sched' = [sched EXCEPT ![op[t].fd][e] = @ + 1]

Trigger(t) ==
  /\ pc[t] = "trigger"
  /\ triggerEvent(t, First(op[t].todo))
  /\ pc' = [pc EXCEPT ![t] = "count"]
  /\ UNCHANGED <<table, m_mutex, m_pendingEventCount, lock, kernel, ready,
                 user, left, op, batch>>

(* --m_pendingEventCount, then the other event.                            *)
CountNext(t) ==
  LET rest == op[t].todo \ {First(op[t].todo)} IN
  /\ pc[t] = "count" /\ rest # {}
  /\ m_pendingEventCount' = m_pendingEventCount - 1
  /\ op' = [op EXCEPT ![t].todo = rest]
  /\ pc' = [pc EXCEPT ![t] = "trigger"]
  /\ UNCHANGED <<table, m_mutex, ctxs, lock, kernel, ready, users, batch, abort>>

(* Mutation: cancelEvent and cancelAll do not count down.                  *)
CountLastPollOnly(t) ==
  IF op[t].kind = "poll" THEN m_pendingEventCount - 1 ELSE m_pendingEventCount

CountLast(t) == m_pendingEventCount - 1

(* --m_pendingEventCount, and the call, or the iteration of idle(), ends.  *)
CountEnds(t) ==
  /\ pc[t] = "count" /\ op[t].todo \ {First(op[t].todo)} = {}
  /\ m_pendingEventCount' = CountLast(t)
  /\ abort' = IF op[t].kind = "cancelAll" /\ events[Ctx(t)] # {}
              THEN "cancelAll" ELSE abort
  /\ Unlock(t)
  /\ IF op[t].kind = "poll"
     THEN /\ pc' = [pc EXCEPT ![t] = "free"]
          /\ op' = [op EXCEPT ![t] = NoOp]
          /\ UNCHANGED m_mutex
     ELSE Return(t)
  /\ UNCHANGED <<table, ctxs, kernel, ready, users, batch>>

-----------------------------------------------------------------------------
Call(t) ==
  \/ Found(t) \/ TooSmall(t) \/ NoContext(t) \/ Grow(t)
  \/ AddAsserts(t) \/ AddFails(t) \/ AddRegisters(t) \/ AddStores(t)
  \/ EventMissing(t) \/ EventLeaves(t) \/ DelStores(t)
  \/ NothingToCancel(t) \/ AllLeave(t)

Poll(t) == \E fds \in SUBSET rdlist : EpollWait(t, fds)

Dispatch(t) ==
  \E b \in batch[t], c \in Ctxs : EventStale(t, b, c) \/ EventFires(t, b, c)

Wake(t) == Trigger(t) \/ CountNext(t) \/ CountEnds(t)

Environment ==
  \E fd \in Fds :
    \/ \E k \in Events \cup {"HUP"} : Arrive(fd, k)
    \/ \E e \in Events : Drain(fd, e) \/ Resume(fd, e)
    \/ Close(fd)

Step ==
  \/ Environment
  \/ \E t \in Threads :
       \/ \E k \in Calls, fd \in Fds, e \in Events : Enter(t, k, fd, e)
       \/ Call(t) \/ Poll(t) \/ Dispatch(t) \/ Wake(t)

Done == abort # "none" /\ UNCHANGED vars

Next == (abort = "none" /\ Step) \/ Done

Spec == Init /\ [][Next]_vars

(* A thread that is inside a call or the loop of idle() goes on and gets   *)
(* the mutexes it waits for.  The threads poll again and again, because    *)
(* the queue of the scheduler is empty from time to time, and the ready    *)
(* list is first in, first out.                                            *)
Fairness ==
  /\ \A t \in Threads :
       SF_vars(abort = "none" /\ (Call(t) \/ Dispatch(t) \/ Wake(t)))
  /\ \A fd \in Fds :
       SF_vars(/\ abort = "none"
               /\ \E t \in Threads, fds \in SUBSET rdlist :
                    fd \in fds /\ EpollWait(t, fds))

FairSpec == Spec /\ Fairness

-----------------------------------------------------------------------------
(* Properties.                                                             *)

MutexStates == [readers : Int, writing : BOOLEAN]
TableType ==
  /\ m_size \in Nat
  /\ made \in [Fds -> 0..MaxGen]
  /\ m_fdContexts \in [Fds -> 0..MaxGen]
  /\ \A fd \in Fds : (m_fdContexts[fd] # 0) = (fd < m_size)
  /\ m_mutex \in MutexStates
CtxType ==
  /\ m_pendingEventCount \in Nat
  /\ events \in [Ctxs -> SUBSET Events]
  /\ waiter \in [Ctxs -> SUBSET Events]
  /\ lock \in [Ctxs -> Threads \cup {Null}]
KernelType ==
  /\ interest \in [Fds -> [gen : 0..MaxGen, events : SUBSET Events]]
  /\ rdlist \subseteq {fd \in Fds : interest[fd].gen # 0}
  /\ ready \in [Fds -> Masks]
UserType ==
  /\ user \in [Fds -> [Events -> {"idle", "adding", "waiting"}]]
  /\ sched \in [Fds -> [Events -> Nat]]
  /\ left \subseteq Fds
OpKinds == Calls \cup {"none", "poll"}
Pcs == {"free", "reading", "grow", "lock", "added", "deleted", "trigger", "count"}
ThreadType ==
  /\ pc \in [Threads -> Pcs]
  /\ op \in [Threads -> [kind : OpKinds, fd : Fds, ev : Events,
                         gen : 0..MaxGen, todo : SUBSET Events]]
  /\ batch \in [Threads -> SUBSET [fd : Fds, gen : 1..MaxGen, mask : Masks]]
  /\ abort \in {"none", "race", "addEvent", "triggerEvent", "cancelAll"}

(* Every variable has its type; the size_t m_pendingEventCount never wraps *)
(* below 0, and m_fdContexts has a context in every place up to its size.  *)
TypeOK == TableType /\ CtxType /\ KernelType /\ UserType /\ ThreadType

(* What m_pendingEventCount counts: the events of every FdContext, those   *)
(* that were triggered and not yet counted down included.                  *)
Counted ==
  {x \in Ctxs \X Events :
     \/ x[2] \in events[x[1]]
     \/ \E t \in Threads : /\ pc[t] = "count"
                           /\ x = <<Ctx(t), First(op[t].todo)>>}

(* The atomic counter that stopping() trusts is exact at every step of     *)
(* every thread, although it is moved outside of any common lock.          *)
PendingExact == abort = "none" => m_pendingEventCount = Cardinality(Counted)

(* The wake-ups that the fiber waiting for e on fd has coming: pointers in *)
(* the contexts made for fd, and entries of the run queue.                 *)
WakeUps(fd, e) ==
  Cardinality({g \in 1..MaxGen : e \in waiter[<<fd, g>>]}) + sched[fd][e]

(* A fiber that waits is woken exactly once: one place leads to it, and    *)
(* none to a fiber that does not wait, whichever of the poll, cancelEvent, *)
(* cancelAll and delEvent came first.  On a number that was closed under a *)
(* fiber (left) two may have their pointers in one context.                *)
OneWakeUp ==
  abort = "none" =>
    \A fd \in Fds \ left, e \in Events :
      WakeUps(fd, e) = IF user[fd][e] = "waiting" THEN 1 ELSE 0

(* stopping() is false while a fiber waits: when the counter is 0, whoever *)
(* waits is already in the run queue, where Scheduler::stopping() sees it. *)
(* Numbers closed under a fiber are left out: two may wait there.          *)
PendingGuards ==
  abort = "none" /\ m_pendingEventCount = 0 =>
    \A fd \in Fds \ left, e \in Events :
      user[fd][e] = "waiting" => sched[fd][e] > 0

(* Outside of the mutex of an FdContext the epoll set has what events      *)
(* says: a registration is neither left behind nor lost.                   *)
EpollAgrees ==
  \A fd \in Fds, g \in 1..MaxGen :
    lock[<<fd, g>>] = Null /\ m_fdContexts[fd] = g =>
      interest[fd] = IF events[<<fd, g>>] = {} THEN NotRegistered
                     ELSE [gen |-> g, events |-> events[<<fd, g>>]]

(* No assertion of addEvent, cancelAll and triggerEvent fails, but for one *)
(* of addEvent (iomanager.cc:161): the event is still registered by a      *)
(* fiber under which the number was closed, which close() without hooks,   *)
(* or a registration between cancelAll and close_f, leaves behind.         *)
LeftBehind(t) ==
  Locking(t, "add") /\ Taken(t) /\ op[t].fd \in left
AssertionsHold ==
  \/ abort \in {"none", "race"}
  \/ abort = "addEvent" /\ \E t \in Threads : LeftBehind(t)

(* The assertion of triggerEvent, SYLAR_ASSERT(events & event).            *)
TriggerAsserts == abort # "triggerEvent"

(* Every event that exists is in the context that cancelEvent looks up.    *)
EventsReachable ==
  \A fd \in Fds, g \in 1..MaxGen :
    events[<<fd, g>>] # {} => m_fdContexts[fd] = g

(* A fiber that waits for an event of a descriptor that is ready, or has   *)
(* hung up, is scheduled, unless the readiness goes away first.            *)
CanGo(fd, e) ==
  /\ abort = "none" /\ Reports(fd, {e}) # {}
  /\ user[fd][e] = "waiting" /\ sched[fd][e] = 0 /\ fd \notin left
WaiterWoken == \A fd \in Fds, e \in Events : CanGo(fd, e) ~> ~CanGo(fd, e)

(* addEvent returns.                                                       *)
AddReturns ==
  \A fd \in Fds, e \in Events : user[fd][e] = "adding" ~> user[fd][e] # "adding"
=============================================================================
