-------------------------------- MODULE Hook --------------------------------
(***************************************************************************)
(* The hooked calls that wait (hook.cc): do_io for the calls that read,    *)
(* connect_with_timeout, the three sleeps and close(), on one descriptor   *)
(* number, over what IOManager and TimerManager promise: a registered      *)
(* event or a cancelEvent queues the waiting fiber once, a timer that is   *)
(* due becomes a task that runs its callback on any thread of the pool.    *)
(*                                                                         *)
(* The fibers run on threads of their own, so that every step of one may   *)
(* come between two steps of another and of a timer's callback.  A fiber   *)
(* that is woken early is resumed after it has switched out: Scheduler is  *)
(* about the window in between.  The look-up of the FdCtx is one step:     *)
(* FdManager is about its lock.  A call on a descriptor without FdCtx, or  *)
(* on one that the program made non-blocking, is a plain system call.      *)
(* connect waits for WRITE, the others for READ; two fibers do not wait    *)
(* for one event of a socket, which addEvent asserts.                      *)
(***************************************************************************)
EXTENDS Naturals, FiniteSets

CONSTANTS
  Fibers,
  Uses,        \* the calls that each fiber makes
  MaxTimers,   \* bound: calls that each fiber makes, and timers it starts
  MaxOpens,    \* bound: sockets opened under this number
  Null

ASSUME HookAssumption ==
  /\ Uses \in [Fibers -> SUBSET {"read", "connect", "sleep", "close"}]
  /\ MaxTimers \in [Fibers -> Nat] /\ MaxOpens \in Nat \ {0}
  /\ Null \notin Fibers

Events == {"READ", "WRITE"}
Numbers(f) == 1 .. MaxTimers[f]
Ids == UNION {{f} \X Numbers(f) : f \in Fibers}

VARIABLES
  sock,       \* the kernel's socket: open, gen, data, conn
  managed,    \* FdMgr has an FdCtx for the number
  waiter,     \* fd_ctx->events with the fiber of each event
  interest,   \* the events that the epoll set holds for the number
  queued,     \* entries for each fiber in the run queue
  tm,         \* the timers, by fiber and number: state and the call they serve
  started,    \* timers that each fiber has started
  cancelled,  \* tinfo->cancelled of each fiber's call
  pc, op,     \* where each fiber is, and in which call
  missed,     \* history: the time-out of the call did not cancel its event
  late,       \* history: fibers that registered while close() was under way
  abort       \* an assertion has failed

io    == <<waiter, interest, queued>>
timer == <<tm, started, cancelled>>
hist  == <<missed, late, abort>>
vars  == <<sock, managed, io, timer, pc, op, hist>>

\* Call number n of a fiber, begun on the socket g.
NewOp(k, to, n, g) ==
  [kind |-> k, timeout |-> to, call |-> n, gen |-> g, by |-> "none"]
NoOp(n) == NewOp("none", FALSE, n, 0)
NoTimer == [st |-> "none", kind |-> "none", call |-> 0]
OverTimer == [st |-> "over", kind |-> "none", call |-> 0]
NewSock(g) == [open |-> TRUE, gen |-> g, data |-> FALSE, conn |-> "none"]

Init ==
  /\ sock = NewSock(1) /\ managed = TRUE
  /\ waiter = [e \in Events |-> Null] /\ interest = {}
  /\ queued = [f \in Fibers |-> 0]
  /\ tm = [i \in Ids |-> NoTimer]
  /\ started = [f \in Fibers |-> 0]
  /\ cancelled = [f \in Fibers |-> FALSE]
  /\ pc = [f \in Fibers |-> "idle"]
  /\ op = [f \in Fibers |-> NoOp(0)]
  /\ missed = [f \in Fibers |-> FALSE] /\ late = {} /\ abort = FALSE

Goto(f, l) == pc' = [pc EXCEPT ![f] = l]
\* Mutation: connect waits until it can read.
EventOfRead(k) == "READ"
EventOf(k) == IF k = "connect" THEN "WRITE" ELSE "READ"
Closing == \E f \in Fibers : pc[f] \in {"del", "close_f"}
\* The timer that the fiber's wait has started, if it has one.
Mine(f) == <<f, started[f]>>

\* The call returns, and its tinfo with it.
Return(f) ==
  /\ Goto(f, "idle")
  /\ op' = [op EXCEPT ![f] = NoOp(op[f].call)]
  /\ cancelled' = [cancelled EXCEPT ![f] = FALSE]
  /\ missed' = [missed EXCEPT ![f] = FALSE]
  /\ late' = late \ {f}
Stays == UNCHANGED <<op, cancelled, missed, late>>

-----------------------------------------------------------------------------
(* The network and the kernel.                                             *)

DataArrives ==
  /\ sock.open /\ ~sock.data
  /\ sock' = [sock EXCEPT !.data = TRUE]
  /\ UNCHANGED <<managed, io, timer, pc, op, hist>>

ConnectEnds ==
  /\ sock.conn = "trying"
  /\ \E r \in {"up", "refused"} : sock' = [sock EXCEPT !.conn = r]
  /\ UNCHANGED <<managed, io, timer, pc, op, hist>>

\* socket() gets the number again.
Reopens ==
  /\ ~sock.open /\ sock.gen < MaxOpens
  /\ sock' = NewSock(sock.gen + 1) /\ managed' = TRUE
  /\ UNCHANGED <<io, timer, pc, op, hist>>

Ready(e) == IF e = "READ" THEN sock.data
                          ELSE sock.conn \in {"up", "refused"}

\* epoll_ctl fails: the number is closed, or registered when it should not
\* be, or not when it should (IOManager), or memory is short (short).
CtlFails(ctl, short) ==
  ~sock.open \/ (ctl = "ADD") = (interest # {}) \/ short
Registered == {e \in Events : waiter[e] # Null}
AddCtl == IF Registered = {} THEN "ADD" ELSE "MOD"
DelCtl(e) == IF Registered = {e} THEN "DEL" ELSE "MOD"

\* FdContext::triggerEvent for the events evs, after epoll_ctl.
Trigger(evs, origin) ==
  LET woken == {waiter[e] : e \in evs} IN
  /\ waiter' = [e \in Events |-> IF e \in evs THEN Null ELSE waiter[e]]
  /\ interest' = interest \ evs
  /\ queued' = [f \in Fibers |-> queued[f] + (IF f \in woken THEN 1 ELSE 0)]
  /\ op' = [f \in Fibers |-> IF f \in woken THEN [op[f] EXCEPT !.by = origin]
                                            ELSE op[f]]

\* IOManager::idle finds the event ready.
EventFires(e) ==
  /\ sock.open /\ Ready(e) /\ e \in interest /\ waiter[e] # Null
  /\ Trigger({e}, "event")
  /\ UNCHANGED <<sock, managed, timer, pc, hist>>

-----------------------------------------------------------------------------
(* The calls.                                                              *)

Begins(f, k, to) ==
  /\ pc[f] = "idle"
  /\ op' = [op EXCEPT ![f] = NewOp(k, to, op[f].call + 1, sock.gen)]
  /\ op[f].call < MaxTimers[f] /\ k \in Uses[f]
  /\ UNCHANGED <<cancelled, missed, late>>

\* do_io or connect_with_timeout up to the system call.
IoBegins(f, k, to) ==
  /\ Begins(f, k, to)
  /\ managed
  /\ \A g \in Fibers : op[g].kind = k => op[g].gen # sock.gen
  /\ Goto(f, "fun")
  /\ UNCHANGED <<sock, managed, io, tm, started, abort>>

\* fun(fd, ...) of do_io: data, EBADF, or EAGAIN.
IoAnswers(f) ==
  /\ pc[f] = "fun" /\ op[f].kind = "read"
  /\ ~sock.open \/ sock.data
  /\ sock' = [sock EXCEPT !.data = FALSE]
  /\ Return(f)
  /\ UNCHANGED <<managed, io, tm, started, abort>>
IoAgain(f) ==
  /\ pc[f] = "fun" /\ op[f].kind = "read"
  /\ sock.open /\ ~sock.data
  /\ Goto(f, "arm")
  /\ UNCHANGED <<sock, managed, io, timer, op, hist>>

\* connect_f: EINPROGRESS, or an answer at once.
ConnectStarts(f) ==
  /\ pc[f] = "fun" /\ op[f].kind = "connect"
  /\ sock.open /\ sock.conn = "none"
  /\ sock' = [sock EXCEPT !.conn = "trying"]
  /\ Goto(f, "arm")
  /\ UNCHANGED <<managed, io, timer, op, hist>>
ConnectAnswers(f) ==
  /\ pc[f] = "fun" /\ op[f].kind = "connect"
  /\ IF sock.open /\ sock.conn = "none"
     THEN \E r \in {"up", "refused"} : sock' = [sock EXCEPT !.conn = r]
     ELSE UNCHANGED sock
  /\ Return(f)
  /\ UNCHANGED <<managed, io, tm, started, abort>>

Starts(f, k) ==
  /\ started[f] < MaxTimers[f]
  /\ started' = [started EXCEPT ![f] = @ + 1]
  /\ tm' = [tm EXCEPT ![<<f, started[f] + 1>>] =
              [st |-> "armed", kind |-> k, call |-> op'[f].call]]

\* addConditionTimer, when a time-out is set.
Arms(f) ==
  /\ pc[f] = "arm"
  /\ UNCHANGED op
  /\ IF op[f].timeout THEN Starts(f, op[f].kind) ELSE UNCHANGED <<tm, started>>
  /\ Goto(f, "add")
  /\ UNCHANGED <<sock, managed, io, cancelled, hist>>

\* addEvent registers the fiber, which yields.  That an event is registered
\* already is an assertion.
Registers(f) ==
  LET e == EventOf(op[f].kind) IN
  /\ pc[f] = "add"
  /\ IF waiter[e] # Null
     THEN abort' = TRUE /\ UNCHANGED <<io, pc>>
     ELSE /\ ~CtlFails(AddCtl, FALSE)
          /\ waiter' = [waiter EXCEPT ![e] = f]
          /\ interest' = interest \cup {e}
          /\ Goto(f, "held")
          /\ UNCHANGED <<queued, abort>>
  /\ late' = IF Closing \/ op[f].gen # sock.gen THEN late \cup {f} ELSE late
  /\ UNCHANGED <<sock, managed, timer, op, missed>>

\* if(timer) timer->cancel(): without effect once the callback is queued.
StopTimer(f) ==
  IF op[f].timeout /\ tm[Mine(f)].st = "armed"
  THEN tm' = [tm EXCEPT ![Mine(f)] = OverTimer] ELSE UNCHANGED tm

\* addEvent fails: do_io returns -1, connect asks for SO_ERROR all the same.
AddFails(f) ==
  /\ pc[f] = "add" /\ waiter[EventOf(op[f].kind)] = Null
  /\ \E short \in BOOLEAN : CtlFails(AddCtl, short)
  /\ StopTimer(f)
  /\ IF op[f].kind = "connect" THEN Goto(f, "sockopt") /\ Stays
                               ELSE Return(f)
  /\ UNCHANGED <<sock, managed, io, started, abort>>

\* sleep, usleep, nanosleep: addTimer with schedule(fiber), YieldToHold.
SleepBegins(f) ==
  /\ Begins(f, "sleep", FALSE)
  /\ Starts(f, "sleep")
  /\ Goto(f, "held")
  /\ UNCHANGED <<sock, managed, io, abort>>

\* run() takes the fiber from the queue.
Takes(f) == pc[f] = "held" /\ queued[f] > 0
              /\ queued' = [queued EXCEPT ![f] = @ - 1]

\* The fiber is resumed: ETIMEDOUT, or it tries again or asks for SO_ERROR.
Resumes(f) ==
  /\ Takes(f)
  /\ IF op[f].kind = "sleep" THEN UNCHANGED tm ELSE StopTimer(f)
  /\ IF op[f].kind = "sleep" \/ cancelled[f] THEN Return(f)
     ELSE /\ Goto(f, IF op[f].kind = "read" THEN "fun" ELSE "sockopt")
          /\ Stays
  /\ UNCHANGED <<sock, managed, waiter, interest, started, abort>>

\* getsockopt(SO_ERROR): 0 also while the connection is still being made.
SoError(f) ==
  /\ pc[f] = "sockopt"
  /\ Return(f)
  /\ UNCHANGED <<sock, managed, io, tm, started, abort>>

-----------------------------------------------------------------------------
(* The timers.                                                             *)

\* listExpiredCb: the callback becomes a task.
Expires(i) ==
  /\ tm[i].st = "armed"
  /\ tm' = [tm EXCEPT ![i].st = "queued"]
  /\ UNCHANGED <<sock, managed, io, started, cancelled, pc, op, hist>>

\* The callback of a sleep: schedule(fiber).
SleepEnds(i) ==
  /\ tm[i].st = "queued" /\ tm[i].kind = "sleep"
  /\ tm' = [tm EXCEPT ![i] = OverTimer]
  /\ queued' = [queued EXCEPT ![i[1]] = @ + 1]
  /\ UNCHANGED <<sock, managed, waiter, interest, started, cancelled, pc, op,
                 hist>>

\* Mutation: the callback does not look whether its call is over.
AliveAlways(i) == ~cancelled[i[1]]
\* winfo.lock() succeeds and t->cancelled is 0.
Alive(i) ==
  /\ tm[i].call = op[i[1]].call /\ op[i[1]].kind # "none"
  /\ ~cancelled[i[1]]

\* The callback of a time-out up to t->cancelled = ETIMEDOUT.
TimeoutMarks(i) ==
  /\ tm[i].st = "queued" /\ tm[i].kind # "sleep"
  /\ IF Alive(i)
     THEN /\ cancelled' = [cancelled EXCEPT ![i[1]] = TRUE]
          /\ tm' = [tm EXCEPT ![i].st = "cancel"]
     ELSE /\ tm' = [tm EXCEPT ![i] = OverTimer]
          /\ UNCHANGED cancelled
  /\ UNCHANGED <<sock, managed, io, started, pc, op, hist>>

\* Mutation: cancelEvent takes the event away without triggering it.
CancelsSilently(e) ==
  /\ waiter' = [waiter EXCEPT ![e] = Null]
  /\ interest' = interest \ {e}
  /\ UNCHANGED <<queued, op>>
Cancels(e) == Trigger({e}, "cancel")

\* ... and iom->cancelEvent(fd, event), which finds nothing when addEvent has
\* not run yet, and gives up when epoll_ctl fails.
TimeoutCancels(i) ==
  LET e == EventOf(tm[i].kind)  f == i[1]
      gone == waiter[e] = Null \/ CtlFails(DelCtl(e), FALSE)
  IN /\ tm[i].st = "cancel"
     /\ tm' = [tm EXCEPT ![i] = OverTimer]
     /\ IF gone THEN UNCHANGED <<io, op>> ELSE Cancels(e)
     /\ missed' = IF (gone \/ waiter[e] # f) /\ tm[i].call = op[f].call
                  THEN [missed EXCEPT ![f] = TRUE] ELSE missed
     /\ UNCHANGED <<sock, managed, started, cancelled, pc, late, abort>>

-----------------------------------------------------------------------------
(* close()                                                                 *)

\* Mutation: close() cancels only the reader.
ClosedEventsRead == Registered \cap {"READ"}
ClosedEvents == Registered

\* iom->cancelAll(fd), when there is an FdCtx.
CloseBegins(f) ==
  /\ pc[f] = "idle" /\ "close" \in Uses[f]
  /\ sock.open /\ managed /\ ~Closing
  /\ Goto(f, "del")
  /\ IF ClosedEvents = {} \/ CtlFails("DEL", FALSE)
     THEN UNCHANGED <<io, op>>
     ELSE Trigger(ClosedEvents, "close")
  /\ UNCHANGED <<sock, managed, timer, hist>>

\* FdMgr::del(fd)
CloseDeletes(f) ==
  /\ pc[f] = "del"
  /\ managed' = FALSE
  /\ Goto(f, "close_f")
  /\ UNCHANGED <<sock, io, timer, op, hist>>

\* close_f(fd): the kernel forgets the registration, IOManager does not.
CloseEnds(f) ==
  /\ pc[f] = "close_f"
  /\ sock' = [sock EXCEPT !.open = FALSE, !.data = FALSE, !.conn = "none"]
  /\ interest' = {}
  /\ Goto(f, "idle")
  /\ UNCHANGED <<managed, waiter, queued, timer, op, hist>>

-----------------------------------------------------------------------------
Calls(f) ==
  \/ \E k \in {"read", "connect"}, to \in BOOLEAN : IoBegins(f, k, to)
  \/ SleepBegins(f) \/ CloseBegins(f)

Runs(f) ==
  \/ IoAnswers(f) \/ IoAgain(f) \/ ConnectStarts(f) \/ ConnectAnswers(f)
  \/ Arms(f) \/ Registers(f) \/ AddFails(f) \/ Resumes(f) \/ SoError(f)
  \/ CloseDeletes(f) \/ CloseEnds(f)

Timeouts(i) == Expires(i) \/ SleepEnds(i) \/ TimeoutMarks(i)
                 \/ TimeoutCancels(i)

Environment == DataArrives \/ ConnectEnds \/ Reopens

Next ==
  /\ ~abort
  /\ \/ \E f \in Fibers : Calls(f) \/ Runs(f)
     \/ \E e \in Events : EventFires(e)
     \/ \E i \in Ids : Timeouts(i)
     \/ Environment

Spec == Init /\ [][Next]_vars

\* A fiber that can go on does, a timer that is due is collected and its
\* callback run (Timer, Scheduler).  Nothing is assumed of the network, nor
\* of the next call.
FairSpec ==
  /\ Spec
  /\ \A f \in Fibers : WF_vars(~abort /\ Runs(f))
  /\ WF_vars(~abort /\ \E i \in Ids : Timeouts(i))

-----------------------------------------------------------------------------
\* What will wake fiber f: an entry of the run queue, a registration, or a
\* sleep's timer.
Wakes(f) ==
  queued[f] + Cardinality({e \in Events : waiter[e] = f})
    + Cardinality({n \in Numbers(f) :
                     /\ tm[<<f, n>>].kind = "sleep"
                     /\ tm[<<f, n>>].st \in {"armed", "queued"}})

\* A fiber that yielded in a hooked call has exactly one wake-up to come, and
\* a fiber that did not has none: neither a late callback of an earlier call
\* nor close() resumes a fiber somewhere else (hook.cc:136, 167, 254).
OneWake ==
  \A f \in Fibers : Wakes(f) = (IF pc[f] = "held" THEN 1 ELSE 0)

\* Only a fiber that registered while close() was under way, or on the number
\* after it was given to another socket, can be left with a registration that
\* the kernel has forgotten, and only such a leftover makes addEvent's
\* assertion fail for the next call (hook.cc:343).
StrandedOnlyLate ==
  /\ \A e \in Events \ interest : waiter[e] # Null => waiter[e] \in late
  /\ abort => late # {}

\* A call without a time-out never ends with ETIMEDOUT, although callbacks of
\* earlier calls of the fiber may still be running (hook.cc:119).
NoForeignTimeout == \A f \in Fibers : cancelled[f] => op[f].timeout

\* A connect that its event woke reads the outcome of the connection: 0 from
\* SO_ERROR means connected.  (Not so after close(), after the time-out of an
\* earlier call, or when addEvent failed: hook.cc:269.)
ConnectTrue ==
  \A f \in Fibers :
    pc[f] = "sockopt" /\ op[f].by = "event" /\ op[f].gen = sock.gen
      /\ sock.open => sock.conn \in {"up", "refused"}

\* A call with a time-out that waits comes back, whatever the network does,
\* unless its callback ran before the event was registered or after the
\* descriptor was closed (hook.cc:117): the fiber then waits for the event
\* alone.  A sleep always comes back.
TimedCallReturns ==
  \A f \in Fibers :
    (pc[f] = "held" /\ (op[f].timeout \/ op[f].kind = "sleep"))
      ~> (pc[f] # "held" \/ missed[f] \/ abort)
=============================================================================
