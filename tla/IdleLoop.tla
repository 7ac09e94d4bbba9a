------------------------------ MODULE IdleLoop ------------------------------
(***************************************************************************)
(* How an IOManager works and stops: the loop of Scheduler::run()          *)
(* (scheduler.cc) with IOManager::idle(), tickle() and stopping()          *)
(* (iomanager.cc) and the timers and events that turn into tasks.  It      *)
(* composes, by their numbers, what Scheduler, IOManager and Timer model   *)
(* one by one: a task is one of a queue, a timer one of a set.             *)
(*                                                                         *)
(* stopping() reads the timers, the event counter and the queue one after  *)
(* the other, each under its own lock or none; a thread that finds nothing *)
(* leaves for good.  Time is left out: epoll_wait may return after its     *)
(* time-out, which is never longer than MAX_TIMEOUT, and a timer becomes   *)
(* due some time.                                                          *)
(***************************************************************************)
EXTENDS Naturals, FiniteSets

CONSTANTS
  Workers,      \* threads that start() made
  Root,         \* the thread that built the IOManager
  UseCaller,    \* whether it joins the pool, in stop()
  MaxWork       \* bound: tasks, timers and events, all in all

ASSUME IdleLoopAssumption ==
  /\ IsFiniteSet(Workers) /\ Root \notin Workers
  /\ UseCaller \in BOOLEAN /\ (Workers # {} \/ UseCaller)
  /\ MaxWork \in Nat

Threads == Workers \cup {Root}

VARIABLES
  m_fibers,             \* entries of the run queue
  m_activeThreadCount, m_idleThreadCount,
  m_stopping,           \* and m_autoStop: stop() sets both
  timers, due,          \* m_timers: not yet due, and due
  m_pendingEventCount,
  armed, rdlist,        \* registered events: not ready, and ready
  edge,                 \* a byte in the pipe that nobody has been told of
  pc,                   \* where a thread is in run() or idle()
  hand,                 \* what it holds: expired functions, reported events
  term,                 \* its idle fiber has terminated
  made,                 \* history: tasks, timers and events so far
  late                  \* history: an entry was taken after stopping()

counts == <<m_activeThreadCount, m_idleThreadCount>>
clocks == <<timers, due>>
epoll  == <<m_pendingEventCount, armed, rdlist>>
vars   == <<m_fibers, counts, m_stopping, clocks, epoll, edge, pc, hand, term,
            made, late>>

Init ==
  /\ m_fibers = 0 /\ m_activeThreadCount = 0 /\ m_idleThreadCount = 0
  /\ m_stopping = FALSE
  /\ timers = 0 /\ due = 0
  /\ m_pendingEventCount = 0 /\ armed = 0 /\ rdlist = 0
  /\ edge = FALSE
  /\ pc = [t \in Threads |-> IF t = Root THEN "owner" ELSE "pick"]
  /\ hand = [t \in Threads |-> [cbs |-> 0, evs |-> 0]]
  /\ term = [t \in Threads |-> FALSE]
  /\ made = 0 /\ late = FALSE

Go(t, p) == pc' = [pc EXCEPT ![t] = p]

\* tickle(): a byte for the pipe if a thread is counted as idle.
Tickle(e) == e \/ m_idleThreadCount > 0
\* schedule(): under m_mutex; an entry in an empty queue tickles.
schedule(n) ==
  /\ m_fibers' = m_fibers + n
  /\ edge' = IF m_fibers = 0 /\ n > 0 THEN Tickle(edge) ELSE edge

-----------------------------------------------------------------------------
(* run()                                                                   *)

\* An entry is taken under m_mutex and counted.
Take(t) ==
  /\ pc[t] = "pick" /\ m_fibers > 0
  /\ m_fibers' = m_fibers - 1
  /\ m_activeThreadCount' = m_activeThreadCount + 1
  /\ late' = (late \/ term[t])
  /\ Go(t, "task")
  /\ UNCHANGED <<m_idleThreadCount, m_stopping, clocks, epoll, edge, hand,
                 term, made>>
\* Nothing to take: the idle fiber, or the end when it has terminated.
Idles(t) ==
  /\ pc[t] = "pick" /\ m_fibers = 0
  /\ \/ term[t] /\ Go(t, "exited")
     \/ ~term[t] /\ Go(t, "enter")
  /\ UNCHANGED <<m_fibers, counts, m_stopping, clocks, epoll, edge, hand, term,
                 made, late>>
Enter(t) ==
  /\ pc[t] = "enter"
  /\ m_idleThreadCount' = m_idleThreadCount + 1
  /\ Go(t, "next")
  /\ UNCHANGED <<m_fibers, m_activeThreadCount, m_stopping, clocks, epoll,
                 edge, hand, term, made, late>>
Leave(t) ==
  /\ pc[t] = "leave"
  /\ m_idleThreadCount' = m_idleThreadCount - 1
  /\ Go(t, "pick")
  /\ UNCHANGED <<m_fibers, m_activeThreadCount, m_stopping, clocks, epoll,
                 edge, hand, term, made, late>>

\* What a task does: it schedules another, adds a timer, waits for an event
\* (addEvent counts it before the fiber is left), and comes to its end, waits
\* or yields READY.
TaskSchedules(t) ==
  /\ pc[t] = "task" /\ made < MaxWork
  /\ schedule(1)
  /\ made' = made + 1
  /\ UNCHANGED <<counts, m_stopping, clocks, epoll, pc, hand, term, late>>
\* addTimer; onTimerInsertedAtFront() tickles, if it is called.
TaskAddsTimer(t) ==
  /\ pc[t] = "task" /\ made < MaxWork
  /\ timers' = timers + 1
  /\ edge' \in {edge, Tickle(edge)}
  /\ made' = made + 1
  /\ UNCHANGED <<m_fibers, counts, m_stopping, due, epoll, pc, hand, term,
                 late>>
TaskWaits(t) ==
  /\ pc[t] = "task" /\ made < MaxWork
  /\ armed' = armed + 1
  /\ m_pendingEventCount' = m_pendingEventCount + 1
  /\ made' = made + 1
  /\ Go(t, "back")
  /\ UNCHANGED <<m_fibers, counts, m_stopping, clocks, rdlist, edge, hand,
                 term, late>>
TaskEnds(t) ==
  /\ pc[t] = "task"
  /\ \/ Go(t, "back") /\ UNCHANGED made
     \/ Go(t, "ready") /\ made < MaxWork /\ made' = made + 1
  /\ UNCHANGED <<m_fibers, counts, m_stopping, clocks, epoll, edge, hand,
                 term, late>>
\* --m_activeThreadCount, and a READY fiber is scheduled after it.
TaskBack(t) ==
  /\ pc[t] \in {"back", "ready"}
  /\ m_activeThreadCount' = m_activeThreadCount - 1
  /\ Go(t, IF pc[t] = "ready" THEN "again" ELSE "pick")
  /\ UNCHANGED <<m_fibers, m_idleThreadCount, m_stopping, clocks, epoll, edge,
                 hand, term, made, late>>
TaskAgain(t) ==
  /\ pc[t] = "again"
  /\ schedule(1)
  /\ Go(t, "pick")
  /\ UNCHANGED <<counts, m_stopping, clocks, epoll, hand, term, made, late>>

-----------------------------------------------------------------------------
(* stopping(), one read after the other: by idle() of a pool thread, and   *)
(* by the owner in stop().                                                 *)

\* The same places inside the stop() of the owner.
InStop == [next |-> "stop next", pending |-> "stop pending",
           queue |-> "stop queue"]
Asks(t, p) == pc[t] \in {p, InStop[p]}
\* stopping() returns false: idle() waits, stop() calls m_rootFiber.
Refuses(t) == Go(t, IF pc[t] \in DOMAIN InStop THEN "wait" ELSE "pick")
\* stopping() goes on to its next read.
GoesOn(t, p) == Go(t, IF pc[t] \in DOMAIN InStop THEN p ELSE InStop[p])

\* getNextTimer() under the lock of the timers
NextTimer(t) ==
  /\ Asks(t, "next")
  /\ IF timers + due > 0 THEN Refuses(t) ELSE GoesOn(t, "pending")
  /\ UNCHANGED <<m_fibers, counts, m_stopping, clocks, epoll, edge, hand, term,
                 made, late>>
\* Mutation: the counter of the events is not looked at.
NoEventsAny == TRUE
NoEvents == m_pendingEventCount = 0
\* m_pendingEventCount == 0, an atomic
ReadPending(t) ==
  /\ Asks(t, "pending")
  /\ IF NoEvents THEN GoesOn(t, "queue") ELSE Refuses(t)
  /\ UNCHANGED <<m_fibers, counts, m_stopping, clocks, epoll, edge, hand, term,
                 made, late>>
\* Scheduler::stopping() under m_mutex; the idle fiber ends when it is true.
SchedulerStopping ==
  m_stopping /\ m_fibers = 0 /\ m_activeThreadCount = 0
ReadQueue(t) ==
  /\ Asks(t, "queue")
  /\ \/ /\ SchedulerStopping /\ pc[t] = "queue"
        /\ Go(t, "leave")
        /\ term' = [term EXCEPT ![t] = TRUE]
     \/ /\ SchedulerStopping /\ pc[t] # "queue"
        /\ Go(t, "exited")                       \* the owner takes no part
        /\ UNCHANGED term
     \/ /\ ~SchedulerStopping
        /\ Refuses(t)
        /\ UNCHANGED term
  /\ UNCHANGED <<m_fibers, counts, m_stopping, clocks, epoll, edge, hand,
                 made, late>>

-----------------------------------------------------------------------------
(* idle() from epoll_wait on                                               *)

\* Mutation: epoll_wait waits until something happens.
WakesOnly == edge \/ rdlist > 0 \/ due > 0
\* The time-out is at most MAX_TIMEOUT, whatever there is to wait for.
Wakes == TRUE
\* epoll_wait returns what is ready: the pipe, whose edge is reported once, and
\* the events; nothing, after the time-out.
Wait(t) ==
  /\ pc[t] = "wait" /\ Wakes
  /\ hand' = [hand EXCEPT ![t].evs = rdlist]
  /\ rdlist' = 0 /\ edge' = FALSE
  /\ Go(t, "expired")
  /\ UNCHANGED <<m_fibers, counts, m_stopping, clocks, m_pendingEventCount,
                 armed, term, made, late>>
\* listExpiredCb() takes the due timers out of the set ...
Expired(t) ==
  /\ pc[t] = "expired"
  /\ hand' = [hand EXCEPT ![t].cbs = due]
  /\ due' = 0
  /\ Go(t, "cbs")
  /\ UNCHANGED <<m_fibers, counts, m_stopping, timers, epoll, edge, term,
                 made, late>>
\* ... and idle() schedules their functions.
ScheduleCbs(t) ==
  /\ pc[t] = "cbs"
  /\ schedule(hand[t].cbs)
  /\ hand' = [hand EXCEPT ![t].cbs = 0]
  /\ Go(t, "events")
  /\ UNCHANGED <<counts, m_stopping, clocks, epoll, term, made, late>>
\* triggerEvent() schedules the fiber, then the counter goes down.
Trigger(t) ==
  /\ pc[t] = "events" /\ hand[t].evs > 0
  /\ schedule(1)
  /\ hand' = [hand EXCEPT ![t].evs = @ - 1]
  /\ Go(t, "count")
  /\ UNCHANGED <<counts, m_stopping, clocks, epoll, term, made, late>>
CountDown(t) ==
  /\ pc[t] = "count"
  /\ m_pendingEventCount' = m_pendingEventCount - 1
  /\ Go(t, "events")
  /\ UNCHANGED <<m_fibers, counts, m_stopping, clocks, armed, rdlist, edge,
                 hand, term, made, late>>
SwapOut(t) ==
  /\ pc[t] = "events" /\ hand[t].evs = 0
  /\ Go(t, "leave")
  /\ UNCHANGED <<m_fibers, counts, m_stopping, clocks, epoll, edge, hand, term,
                 made, late>>

-----------------------------------------------------------------------------
(* The owner, the clock and the peers.                                     *)

OwnerSchedules ==
  /\ pc[Root] = "owner" /\ made < MaxWork
  /\ schedule(1)
  /\ made' = made + 1
  /\ UNCHANGED <<counts, m_stopping, clocks, epoll, pc, hand, term, late>>
\* stop(): the flags, a tickle for every thread, run() on the caller unless
\* stopping(), join().
Stop ==
  /\ pc[Root] = "owner"
  /\ m_stopping' = TRUE
  /\ edge' = Tickle(edge)
  /\ Go(Root, IF UseCaller THEN "stop next" ELSE "exited")
  /\ UNCHANGED <<m_fibers, counts, clocks, epoll, hand, term, made, late>>
Joined == \A t \in Threads : pc[t] = "exited"

TimerDue ==
  /\ timers > 0
  /\ timers' = timers - 1 /\ due' = due + 1
  /\ UNCHANGED <<m_fibers, counts, m_stopping, epoll, edge, pc, hand, term,
                 made, late>>
EventReady ==
  /\ armed > 0
  /\ armed' = armed - 1 /\ rdlist' = rdlist + 1
  /\ UNCHANGED <<m_fibers, counts, m_stopping, clocks, m_pendingEventCount,
                 edge, pc, hand, term, made, late>>

Step(t) ==
  \/ Take(t) \/ Idles(t) \/ Enter(t) \/ Leave(t)
  \/ TaskSchedules(t) \/ TaskAddsTimer(t) \/ TaskWaits(t) \/ TaskEnds(t)
  \/ TaskBack(t) \/ TaskAgain(t)
  \/ NextTimer(t) \/ ReadPending(t) \/ ReadQueue(t)
  \/ Wait(t) \/ Expired(t) \/ ScheduleCbs(t) \/ Trigger(t) \/ CountDown(t)
  \/ SwapOut(t)
Next ==
  \/ \E t \in Threads : Step(t)
  \/ OwnerSchedules \/ Stop \/ TimerDue \/ EventReady

Spec == Init /\ [][Next]_vars

\* Every thread goes on and every task comes to its end, the clock goes on, and
\* the peers answer in the end.  Nothing says that stop() is called.
FairSpec ==
  /\ Spec
  /\ \A t \in Threads : WF_vars(Step(t))
  /\ WF_vars(TimerDue) /\ WF_vars(EventReady)

-----------------------------------------------------------------------------
(* Properties                                                              *)

Work == m_fibers + timers + due + m_pendingEventCount

\* A thread that leaves on what stopping() read piece by piece leaves no task,
\* timer or event without a thread (iomanager.cc:319), with one exception: a
\* thread whose idle fiber has ended may take one more task
\* (scheduler.cc:154), and does not ask again whether that task waits.
NothingLeft ==
  Joined => m_fibers = 0 /\ (~late => Work = 0 /\ armed + rdlist = 0)

\* stop() returns when all work comes to its end, although nobody tickles a
\* thread that sleeps when the last task ends: the time-out of epoll_wait
\* wakes it (iomanager.cc:359).
StopEnds == m_stopping ~> Joined

\* A task in the queue is run, although tickle() writes nothing when no thread
\* is counted as idle yet, and nothing for a queue that is not empty
\* (iomanager.cc:309).
QueueRuns == (m_fibers > 0 /\ Workers # {}) ~> m_fibers = 0
=============================================================================
