----------------------------- MODULE Scheduler -----------------------------
(***************************************************************************)
(* The N:M coroutine scheduler: sylar/scheduler.{h,cc} running the fibers  *)
(* of sylar/fiber.{h,cc}.  Pool threads execute Scheduler::run(), the      *)
(* owner (the thread that built the scheduler) calls schedule, start and   *)
(* stop.  A critical section under m_mutex is one action; everything that  *)
(* the code does outside the mutex (storing m_state, swapcontext, moving   *)
(* the atomic counters) is an action of its own, so that the steps of      *)
(* different threads interleave wherever they can in the program.          *)
(*                                                                         *)
(* start() unlocks m_mutex twice, and the second unlock may take it from a *)
(* thread that is inside: whose section is then no longer atomic (robbed), *)
(* and from the moment when another thread enters one too (torn) the list  *)
(* may lose an entry, hand one out twice, or break.                        *)
(*                                                                         *)
(* What a task's function does is the environment's choice, limited to     *)
(* Behaviours: it may yield, wait for a wake-up, spawn a task, throw.      *)
(***************************************************************************)
EXTENDS Integers, Sequences, FiniteSets

CONSTANTS
  Workers,      \* the m_threadCount threads that start() creates
  Root,         \* the owner's thread
  UseCaller,    \* whether the owner's thread joins the pool (use_caller)
  Fibers,       \* Fiber objects
  Tasks,        \* std::function<void()> values handed to schedule()
  Behaviours,   \* what the tasks' functions may do besides returning
  Pins,         \* the `thread` arguments the owner passes to schedule()
  SpawnPins,    \* the `thread` arguments a running task passes to schedule()
  MaxYields,    \* how often one task yields: bound
  AnyThread,    \* thread == -1
  Null          \* nullptr

Threads == Workers \cup {Root}
(* The threads that execute run(). *)
PoolThreads == Workers \cup (IF UseCaller THEN {Root} ELSE {})
Kinds == {"ready", "hold", "spawn", "throw"}

ASSUME SchedulerAssumption ==
  /\ IsFiniteSet(Workers)
  /\ Root \notin Workers
  /\ UseCaller \in BOOLEAN
  /\ (Workers # {} \/ UseCaller)                 \* SYLAR_ASSERT(threads > 0)
  /\ Behaviours \subseteq Kinds
  /\ Pins \subseteq PoolThreads \cup {AnyThread}
  /\ SpawnPins \subseteq PoolThreads \cup {AnyThread}
  /\ MaxYields \in Nat
  /\ AnyThread \notin Threads
  /\ Null \notin Fibers /\ Null \notin Tasks
  /\ Null \notin Threads \cup {AnyThread}

(* Fiber::State; a fiber that is FREE has not been constructed yet, or was *)
(* destroyed.  The code never assigns EXCEPT.                              *)
LiveStates == {"INIT", "HOLD", "EXEC", "TERM", "READY", "EXCEPT"}
FiberStates == LiveStates \cup {"FREE"}

(* Where the saved context of a fiber resumes: at the top of MainFunc, at  *)
(* a yield inside the function, or after the last swapOut of MainFunc.     *)
Contexts == {"start", "mid", "end"}

VARIABLES
  m_fibers,             \* the run queue of FiberAndThread entries
  m_stopping, m_autoStop,
  m_activeThreadCount, m_idleThreadCount,
  m_state,              \* m_state[f]
  m_cb,                 \* m_cb[f]: the function bound to the fiber
  m_ctx,                \* m_ctx[f]: where swapcontext resumes it
  pc,                   \* pc[t]: where thread t is in run()
  ft,                   \* ft[t]: the local FiberAndThread of run()
  cb_fiber,             \* cb_fiber[t]: the local cb_fiber of run()
  idleTerm,             \* idleTerm[t]: t's idle fiber has terminated
  ctl,                  \* what the owner is doing
  robbed,               \* who is in a section of m_mutex without holding it
  torn,                 \* two sections of m_mutex have overlapped: history
  waiting,              \* fibers whose pointer an event or a timer holds
  scheduled, started, finished, yields,   \* history of the tasks
  abort                 \* the assertion that ended the process, or "none"

owner   == <<ctl, m_stopping, m_autoStop>>
counts  == <<m_activeThreadCount, m_idleThreadCount>>
fibers  == <<m_state, m_cb, m_ctx>>
history == <<scheduled, started, finished, yields>>
locals  == <<ft, cb_fiber, idleTerm>>
race    == <<robbed, torn>>
vars == <<m_fibers, owner, counts, fibers, pc, locals, waiting, history, abort,
          race>>

(* struct FiberAndThread *)
Entry(f, c, th) == [fiber |-> f, cb |-> c, thread |-> th]
FiberAndThread == [fiber : Fibers \cup {Null}, cb : Tasks \cup {Null},
                   thread : Threads \cup {AnyThread}]
NoEntry == Entry(Null, Null, AnyThread)

(* The fiber that thread t runs between swapIn() and swapOut(): run()      *)
(* calls ft.reset() before it switches to cb_fiber.                        *)
Cur(t) == IF ft[t].fiber # Null THEN ft[t].fiber ELSE cb_fiber[t]

(* Program counters at which the function of Cur(t) is being executed.     *)
OnFiber == {"exec", "holding", "leaving", "ending"}
(* ... at which the entry taken from m_fibers is counted as active.        *)
ActivePcs == {"run"} \cup OnFiber \cup {"back"}
IdlePcs == {"idle", "idleback"}
Pcs == {"off", "pick", "nofiber", "settle", "exited"} \cup ActivePcs \cup IdlePcs

(* A thread in a section that it does not hold m_mutex for, and the list   *)
(* as it was when it lost it.                                              *)
Robbed(t, q) == [thread |-> t, queue |-> q]
Nobody == Robbed(Null, <<>>)

-----------------------------------------------------------------------------
(* Scheduler::Scheduler, then nothing is running.                          *)
Init ==
  /\ m_fibers = <<>>
  /\ m_stopping = TRUE /\ m_autoStop = FALSE
  /\ m_activeThreadCount = 0 /\ m_idleThreadCount = 0
  /\ m_state = [f \in Fibers |-> "FREE"]
  /\ m_cb = [f \in Fibers |-> Null]
  /\ m_ctx = [f \in Fibers |-> "start"]
  /\ pc = [t \in Threads |-> "off"]
  /\ ft = [t \in Threads |-> NoEntry]
  /\ cb_fiber = [t \in Threads |-> Null]
  /\ idleTerm = [t \in Threads |-> FALSE]
  /\ ctl = "created"
  /\ waiting = {}
  /\ scheduled = {} /\ finished = {}
  /\ started = [c \in Tasks |-> 0]
  /\ yields = [c \in Tasks |-> 0]
  /\ abort = "none"
  /\ robbed = Nobody /\ torn = FALSE

(* Scheduler::stopping(), evaluated under m_mutex.                         *)
stopping ==
  m_autoStop /\ m_stopping /\ m_fibers = <<>> /\ m_activeThreadCount = 0

(* Fiber::Fiber(cb): the constructor of a fiber that has a stack.          *)
NewFiber(f, c) ==
  /\ m_state[f] = "FREE"
  /\ m_state' = [m_state EXCEPT ![f] = "INIT"]
  /\ m_cb' = [m_cb EXCEPT ![f] = c]
  /\ m_ctx' = [m_ctx EXCEPT ![f] = "start"]

(* The shared_ptrs to f other than the one thread t is about to drop: an   *)
(* entry of m_fibers, another thread's locals, an event or timer, and the  *)
(* one that a suspended MainFunc keeps on f's own stack.                   *)
Referenced(f, t, queue) ==
  \/ \E i \in 1..Len(queue) : queue[i].fiber = f
  \/ \E u \in Threads \ {t} : ft[u].fiber = f \/ cb_fiber[u] = f
  \/ f \in waiting
  \/ m_ctx[f] = "mid"

(* Dropping the last pointer runs ~Fiber, which asserts that f ended; st   *)
(* is the state f has by then.                                             *)
DropFiber(f, t, queue, st) ==
  IF Referenced(f, t, queue)
  THEN /\ m_state' = [m_state EXCEPT ![f] = st]
       /\ UNCHANGED <<m_cb, m_ctx, abort>>
  ELSE /\ abort' = IF st \in {"TERM", "INIT", "EXCEPT"} THEN abort ELSE "~Fiber"
       /\ m_state' = [m_state EXCEPT ![f] = "FREE"]
       /\ m_cb' = [m_cb EXCEPT ![f] = Null]
       /\ m_ctx' = [m_ctx EXCEPT ![f] = "start"]

-----------------------------------------------------------------------------
(* The owner.                                                              *)

(* schedule(cb, thread) *)
OwnerSchedulesCb(c, th) ==
  /\ ctl \in {"created", "started"}
  /\ c \notin scheduled
  /\ m_fibers' = Append(m_fibers, Entry(Null, c, th))
  /\ scheduled' = scheduled \cup {c}
  /\ UNCHANGED <<owner, counts, fibers, pc, locals, waiting, started, finished,
                 yields, abort>>

(* schedule(Fiber::ptr(new Fiber(cb)), thread) *)
OwnerSchedulesFiber(c, f, th) ==
  /\ ctl \in {"created", "started"}
  /\ c \notin scheduled
  /\ NewFiber(f, c)
  /\ m_fibers' = Append(m_fibers, Entry(f, Null, th))
  /\ scheduled' = scheduled \cup {c}
  /\ UNCHANGED <<owner, counts, pc, locals, waiting, started, finished,
                 yields, abort>>

(* start() up to lock.unlock(): m_mutex is held until every worker exists, *)
(* and a worker's first step is to lock it, so no worker sees a half-built *)
(* pool.                                                                   *)
Start ==
  /\ ctl = "created"
  /\ m_stopping
  /\ m_stopping' = FALSE
  /\ pc' = [t \in Threads |-> IF t \in Workers THEN "pick" ELSE pc[t]]
  /\ ctl' = "starting"
  /\ UNCHANGED <<m_fibers, m_autoStop, counts, fibers, locals, waiting,
                 history, abort>>

(* A section of m_mutex comes next in run(): the loop over m_fibers, the   *)
(* schedule() of a READY fiber, or stopping().                             *)
Inside(t) ==
  \/ pc[t] \in {"pick", "idle"}
  \/ pc[t] = "settle" /\ m_state[Cur(t)] = "READY"

(* Somebody unlocks m_mutex that he does not hold: it stays free, or a     *)
(* thread that is inside loses it.                                         *)
UnlocksAgain(t) ==
  \/ robbed' = Nobody
  \/ \E u \in Threads \ {t} : Inside(u) /\ robbed' = Robbed(u, m_fibers)

(* start() returns, and ~ScopedLockImpl unlocks m_mutex a second time.     *)
StartReturns ==
  /\ ctl = "starting"
  /\ ctl' = "started"
  /\ UnlocksAgain(Root)
  /\ UNCHANGED <<m_fibers, m_autoStop, m_stopping, counts, fibers, pc, locals,
                 waiting, history, abort, torn>>

(* stop(): m_autoStop; with no worker and a root fiber that is not running *)
(* it also stores m_stopping and returns when nothing is left to do.       *)
StopBegins ==
  /\ ctl = "started"
  /\ m_autoStop' = TRUE
  /\ IF UseCaller /\ Workers = {}
     THEN /\ m_stopping' = TRUE
          /\ ctl' = IF m_fibers = <<>> /\ m_activeThreadCount = 0
                    THEN "stopped" ELSE "stopping"
     ELSE ctl' = "stopping" /\ UNCHANGED m_stopping
  /\ UNCHANGED <<m_fibers, counts, fibers, pc, locals, waiting, history, abort>>

(* Mutation: m_stopping is not stored.                                     *)
StopMarksNothing ==
  /\ ctl = "stopping"
  /\ ctl' = IF UseCaller THEN "root" ELSE "join"
  /\ UNCHANGED <<m_fibers, m_autoStop, m_stopping, counts, fibers, pc, locals,
                 waiting, history, abort>>

(* m_stopping = true; the tickles do nothing in this class.                *)
StopMarks ==
  /\ ctl = "stopping"
  /\ m_stopping' = TRUE
  /\ ctl' = IF UseCaller THEN "root" ELSE "join"
  /\ UNCHANGED <<m_fibers, m_autoStop, counts, fibers, pc, locals, waiting,
                 history, abort>>

(* if(!stopping()) m_rootFiber->call(): the owner becomes a pool thread.   *)
StopCallsRoot ==
  /\ ctl = "root" /\ pc[Root] = "off"
  /\ IF stopping
     THEN ctl' = "join" /\ UNCHANGED pc
     ELSE pc' = [pc EXCEPT ![Root] = "pick"] /\ UNCHANGED ctl
  /\ UNCHANGED <<m_fibers, m_autoStop, m_stopping, counts, fibers, locals,
                 waiting, history, abort>>

(* CallerMainFunc ends and back() resumes stop().                          *)
StopRootBack ==
  /\ ctl = "root" /\ pc[Root] = "exited"
  /\ ctl' = "join"
  /\ UNCHANGED <<m_fibers, m_autoStop, m_stopping, counts, fibers, pc, locals,
                 waiting, history, abort>>

(* thrs.swap(m_threads) and join() of every worker that was created.       *)
StopJoins ==
  /\ ctl = "join"
  /\ \A t \in Workers : pc[t] \in {"off", "exited"}
  /\ ctl' = "stopped"
  /\ UNCHANGED <<m_fibers, m_autoStop, m_stopping, counts, fibers, pc, locals,
                 waiting, history, abort>>

-----------------------------------------------------------------------------
(* Scheduler::run()                                                        *)

(* The loop over m_fibers: an entry for another thread, or one whose fiber *)
(* is still executing elsewhere, is passed over.                           *)
Eligible(t, e) ==
  /\ e.thread \in {AnyThread, t}
  /\ e.fiber # Null => m_state[e.fiber] # "EXEC"

FirstEligible(t, i) ==
  /\ Eligible(t, m_fibers[i])
  /\ \A j \in 1..(i - 1) : ~Eligible(t, m_fibers[j])

(* Mutation: the entry is copied and not erased.                           *)
WithoutErase(q, i) == q

(* m_fibers.erase(it) *)
Without(q, i) == SubSeq(q, 1, i - 1) \o SubSeq(q, i + 1, Len(q))

(* The first eligible entry is moved to ft.                                *)
PickTask(t) ==
  /\ pc[t] = "pick"
  /\ \E i \in 1..Len(m_fibers) :
       /\ FirstEligible(t, i)
       /\ ft' = [ft EXCEPT ![t] = m_fibers[i]]
       /\ m_fibers' = Without(m_fibers, i)
  /\ m_activeThreadCount' = m_activeThreadCount + 1
  /\ pc' = [pc EXCEPT ![t] = "run"]
  /\ UNCHANGED <<owner, m_idleThreadCount, fibers, cb_fiber, idleTerm, waiting,
                 history, abort>>

(* The loop ends without an entry, and ft stays reset.                     *)
PickNothing(t) ==
  /\ pc[t] = "pick"
  /\ \A i \in 1..Len(m_fibers) : ~Eligible(t, m_fibers[i])
  /\ ft' = [ft EXCEPT ![t] = NoEntry]
  /\ pc' = [pc EXCEPT ![t] = "nofiber"]
  /\ UNCHANGED <<m_fibers, owner, counts, fibers, cb_fiber, idleTerm, waiting,
                 history, abort>>

(* Fiber::swapIn() of f: the assertion, m_state = EXEC, and swapcontext.   *)
(* A context saved at the end of MainFunc runs into its last assertion.    *)
EnterFiber(f, c, st, ctx) ==
  /\ abort' = CASE st = "EXEC" -> "swapIn"
                [] st # "EXEC" /\ ctx = "end" -> "MainFunc"
                [] OTHER -> abort
  /\ m_state' = [m_state EXCEPT ![f] = "EXEC"]
  /\ started' = [started EXCEPT ![c] = @ + (IF ctx = "start" THEN 1 ELSE 0)]
  /\ UNCHANGED <<scheduled, finished, yields>>

(* ft.fiber->swapIn(): the test on the state in front of it always holds.  *)
RunFiber(t) ==
  LET f == ft[t].fiber IN
  /\ pc[t] = "run" /\ f # Null
  /\ pc' = [pc EXCEPT ![t] = "exec"]
  /\ EnterFiber(f, m_cb[f], m_state[f], m_ctx[f])
  /\ UNCHANGED <<m_fibers, owner, counts, m_cb, m_ctx, locals, waiting>>

(* cb_fiber->reset(ft.cb) or new Fiber(ft.cb), then cb_fiber->swapIn().    *)
RunCb(t) ==
  LET c == ft[t].cb IN
  /\ pc[t] = "run" /\ ft[t].fiber = Null
  /\ \E f \in Fibers :
       /\ IF cb_fiber[t] # Null THEN f = cb_fiber[t] ELSE m_state[f] = "FREE"
       /\ cb_fiber' = [cb_fiber EXCEPT ![t] = f]
       /\ m_cb' = [m_cb EXCEPT ![f] = c]
       /\ m_ctx' = [m_ctx EXCEPT ![f] = "start"]
       /\ m_state' = [m_state EXCEPT ![f] = "EXEC"]
       /\ abort' = IF m_state[f] \in {"FREE", "TERM", "INIT", "EXCEPT"}
                   THEN abort ELSE "reset"
  /\ started' = [started EXCEPT ![c] = @ + 1]
  /\ ft' = [ft EXCEPT ![t] = NoEntry]
  /\ pc' = [pc EXCEPT ![t] = "exec"]
  /\ UNCHANGED <<m_fibers, owner, counts, idleTerm, waiting, scheduled,
                 finished, yields>>

-----------------------------------------------------------------------------
(* What the function of the running fiber does.                            *)

Task(t) == m_cb[Cur(t)]

(* Thread t is in the body of a function; an empty one can only throw.     *)
InFunction(t) == pc[t] = "exec" /\ Task(t) # Null

(* Scheduler::GetThis()->schedule(cb, thread) *)
TaskSpawns(t, c, th) ==
  /\ InFunction(t) /\ "spawn" \in Behaviours
  /\ c \notin scheduled
  /\ m_fibers' = Append(m_fibers, Entry(Null, c, th))
  /\ scheduled' = scheduled \cup {c}
  /\ UNCHANGED <<owner, counts, fibers, pc, locals, waiting, started, finished,
                 yields, abort>>

(* The first half of a switch to the scheduler: m_state is stored while    *)
(* the fiber is still running on this thread.                              *)
Leave(t, from, st, to) ==
  /\ pc[t] = from
  /\ m_state' = [m_state EXCEPT ![Cur(t)] = st]
  /\ pc' = [pc EXCEPT ![t] = to]
  /\ UNCHANGED <<m_fibers, owner, counts, m_ctx, locals, scheduled, started,
                 abort>>

CanYield(t) == InFunction(t) /\ yields[Task(t)] < MaxYields

(* Fiber::YieldToReady() *)
TaskYieldsReady(t) ==
  /\ "ready" \in Behaviours /\ CanYield(t)
  /\ Leave(t, "exec", "READY", "leaving")
  /\ yields' = [yields EXCEPT ![Task(t)] = @ + 1]
  /\ UNCHANGED <<m_cb, waiting, finished>>

(* addEvent(fd, event) or addTimer(ms, schedule this fiber): the pointer   *)
(* of the running fiber is handed out before the fiber yields.             *)
TaskRegisters(t) ==
  /\ "hold" \in Behaviours /\ CanYield(t)
  /\ waiting' = waiting \cup {Cur(t)}
  /\ yields' = [yields EXCEPT ![Task(t)] = @ + 1]
  /\ pc' = [pc EXCEPT ![t] = "holding"]
  /\ UNCHANGED <<m_fibers, owner, counts, fibers, locals, scheduled, started,
                 finished, abort>>

(* Fiber::YieldToHold() *)
TaskYieldsHold(t) ==
  /\ Leave(t, "holding", "HOLD", "leaving")
  /\ UNCHANGED <<m_cb, waiting, finished, yields>>

(* MainFunc: m_cb() returned. *)
TaskReturns(t) ==
  /\ InFunction(t)
  /\ Leave(t, "exec", "TERM", "ending")
  /\ m_cb' = [m_cb EXCEPT ![Cur(t)] = Null]
  /\ finished' = finished \cup {Task(t)}
  /\ UNCHANGED <<waiting, yields>>

(* Mutation: the handlers store READY.                                     *)
TaskThrowsReady(t) ==
  /\ Leave(t, "exec", "READY", "ending")
  /\ "throw" \in Behaviours \/ Task(t) = Null
  /\ finished' = finished \cup ({Task(t)} \ {Null})
  /\ UNCHANGED <<m_cb, waiting, yields>>

(* MainFunc: m_cb() threw, and the handlers store EXEC; an empty function  *)
(* throws bad_function_call.                                               *)
TaskThrows(t) ==
  /\ Leave(t, "exec", "EXEC", "ending")
  /\ "throw" \in Behaviours \/ Task(t) = Null
  /\ finished' = finished \cup ({Task(t)} \ {Null})
  /\ UNCHANGED <<m_cb, waiting, yields>>

(* Mutation: the context is not saved.                                     *)
SwapOutUnsaved(t) ==
  /\ pc[t] \in {"leaving", "ending"}
  /\ pc' = [pc EXCEPT ![t] = "back"]
  /\ UNCHANGED <<m_fibers, owner, counts, fibers, locals, waiting, history,
                 abort>>

(* The second half, swapcontext: the context is saved and run() resumes.   *)
SwapOut(t) ==
  /\ pc[t] \in {"leaving", "ending"}
  /\ m_ctx' = [m_ctx EXCEPT ![Cur(t)] = IF pc[t] = "ending" THEN "end" ELSE "mid"]
  /\ pc' = [pc EXCEPT ![t] = "back"]
  /\ UNCHANGED <<m_fibers, owner, counts, m_state, m_cb, locals, waiting,
                 history, abort>>

-----------------------------------------------------------------------------
(* Back in run().                                                          *)

(* --m_activeThreadCount, before the state of the fiber is looked at.      *)
CountDown(t) ==
  /\ pc[t] = "back"
  /\ m_activeThreadCount' = m_activeThreadCount - 1
  /\ pc' = [pc EXCEPT ![t] = "settle"]
  /\ UNCHANGED <<m_fibers, owner, m_idleThreadCount, fibers, locals, waiting,
                 history, abort>>

(* Mutation: a READY fiber is not scheduled again.                         *)
RequeueNever(f, st) == m_fibers

(* A fiber that yielded READY goes to the end of the queue, unpinned.      *)
Requeue(f, st) ==
  IF st = "READY" THEN Append(m_fibers, Entry(f, Null, AnyThread)) ELSE m_fibers

(* A fiber that neither ended nor is READY becomes HOLD.                   *)
StateAfter(st) == IF st \in {"READY", "TERM", "EXCEPT"} THEN st ELSE "HOLD"

(* What run() does with the fiber that came back: schedule it or store its *)
(* state, then ft.reset() or cb_fiber.reset().  A cb_fiber that ended is   *)
(* kept, reset(nullptr), for the next callback.                            *)
Settle(t) ==
  LET f  == Cur(t)
      st == m_state[f]
      isCb == ft[t].fiber = Null
  IN
  /\ pc[t] = "settle"
  /\ m_fibers' = Requeue(f, st)
  /\ IF isCb /\ st \in {"TERM", "EXCEPT"}
     THEN /\ m_state' = [m_state EXCEPT ![f] = "INIT"]
          /\ m_cb' = [m_cb EXCEPT ![f] = Null]
          /\ m_ctx' = [m_ctx EXCEPT ![f] = "start"]
          /\ UNCHANGED <<abort, cb_fiber>>
     ELSE /\ DropFiber(f, t, Requeue(f, st), StateAfter(st))
          /\ cb_fiber' = IF isCb THEN [cb_fiber EXCEPT ![t] = Null] ELSE cb_fiber
  /\ ft' = [ft EXCEPT ![t] = NoEntry]
  /\ pc' = [pc EXCEPT ![t] = "pick"]
  /\ UNCHANGED <<owner, counts, idleTerm, waiting, history>>

(* No task: leave run() when the idle fiber has ended, else switch to it.  *)
EnterIdle(t) ==
  /\ pc[t] = "nofiber" /\ ~idleTerm[t]
  /\ m_idleThreadCount' = m_idleThreadCount + 1
  /\ pc' = [pc EXCEPT ![t] = "idle"]
  /\ UNCHANGED <<m_fibers, owner, m_activeThreadCount, fibers, locals, waiting,
                 history, abort>>

(* run() returns and its locals go: the spare cb_fiber is destroyed.       *)
ExitRun(t) ==
  /\ pc[t] = "nofiber" /\ idleTerm[t]
  /\ pc' = [pc EXCEPT ![t] = "exited"]
  /\ cb_fiber' = [cb_fiber EXCEPT ![t] = Null]
  /\ IF cb_fiber[t] = Null
     THEN UNCHANGED <<fibers, abort>>
     ELSE DropFiber(cb_fiber[t], t, m_fibers, m_state[cb_fiber[t]])
  /\ UNCHANGED <<m_fibers, owner, counts, ft, idleTerm, waiting, history>>

(* Scheduler::idle(): while(!stopping()) YieldToHold()                     *)
Idle(t) ==
  /\ pc[t] = "idle"
  /\ idleTerm' = [idleTerm EXCEPT ![t] = stopping]
  /\ pc' = [pc EXCEPT ![t] = "idleback"]
  /\ UNCHANGED <<m_fibers, owner, counts, fibers, ft, cb_fiber, waiting,
                 history, abort>>

(* --m_idleThreadCount after the idle fiber switched back.                 *)
LeaveIdle(t) ==
  /\ pc[t] = "idleback"
  /\ m_idleThreadCount' = m_idleThreadCount - 1
  /\ pc' = [pc EXCEPT ![t] = "pick"]
  /\ UNCHANGED <<m_fibers, owner, m_activeThreadCount, fibers, locals, waiting,
                 history, abort>>

(* The event or the timer that holds f's pointer calls schedule(f).        *)
Wake(f) ==
  /\ f \in waiting
  /\ waiting' = waiting \ {f}
  /\ m_fibers' = Append(m_fibers, Entry(f, Null, AnyThread))
  /\ UNCHANGED <<owner, counts, fibers, pc, locals, history, abort>>

-----------------------------------------------------------------------------
(* m_mutex.                                                                *)

(* Thread t is in a section for the length of the step.  It meets the one  *)
(* that was robbed there; if it is that one it unlocks a mutex that is not *)
(* its own.                                                                *)
Section(t) ==
  /\ torn' = (torn \/ robbed.thread \notin {Null, t})
  /\ IF robbed.thread = t THEN UnlocksAgain(t) ELSE UNCHANGED robbed

(* Two threads in the list at a time, of which the first one was robbed.   *)
Overlap == torn /\ robbed # Nobody

(* ft = *it and m_fibers.erase(it) of an entry that the other has taken.   *)
TakesAgain(t) ==
  /\ Overlap /\ robbed.thread = t /\ pc[t] = "pick"
  /\ \E i \in 1..Len(robbed.queue) :
       /\ robbed.queue[i].thread \in {AnyThread, t}
       /\ \A j \in 1..Len(m_fibers) : m_fibers[j] # robbed.queue[i]
       /\ ft' = [ft EXCEPT ![t] = robbed.queue[i]]
  /\ m_activeThreadCount' = m_activeThreadCount + 1
  /\ pc' = [pc EXCEPT ![t] = "run"]
  /\ UnlocksAgain(t)
  /\ UNCHANGED <<m_fibers, owner, m_idleThreadCount, fibers, cb_fiber, idleTerm,
                 waiting, history, abort, torn>>

(* What was pushed behind the node that is erased, or beside another push, *)
(* is unlinked.                                                            *)
Unlinks ==
  /\ Overlap
  /\ \E n \in 0..(Len(m_fibers) - 1) :
       /\ \A i \in (n + 1)..Len(m_fibers), j \in 1..Len(robbed.queue) :
            m_fibers[i] # robbed.queue[j]
       /\ m_fibers' = SubSeq(m_fibers, 1, n)
  /\ UNCHANGED <<owner, counts, fibers, pc, locals, waiting, history, abort, race>>

(* The list leads to memory that is free: the program crashes.             *)
ListBreaks ==
  /\ torn /\ abort' = "race"
  /\ UNCHANGED <<m_fibers, owner, counts, fibers, pc, locals, waiting, history,
                 race>>

Astray == Unlinks \/ ListBreaks \/ \E t \in Threads : TakesAgain(t)

-----------------------------------------------------------------------------
OwnerSchedules ==
  \E c \in Tasks, th \in Pins :
    \/ OwnerSchedulesCb(c, th)
    \/ \E f \in Fibers : OwnerSchedulesFiber(c, f, th)

OwnerStops == StopBegins \/ StopMarks \/ StopCallsRoot \/ StopRootBack \/ StopJoins

Function(t) ==
  \/ \E c \in Tasks, th \in SpawnPins : TaskSpawns(t, c, th)
  \/ TaskYieldsReady(t) \/ TaskRegisters(t) \/ TaskYieldsHold(t)
  \/ TaskReturns(t) \/ TaskThrows(t)

Run(t) ==
  \/ PickTask(t) \/ PickNothing(t) \/ RunFiber(t) \/ RunCb(t)
  \/ Function(t) \/ SwapOut(t) \/ CountDown(t) \/ Settle(t)
  \/ EnterIdle(t) \/ Idle(t) \/ LeaveIdle(t) \/ ExitRun(t)

(* A step of run(), and the section it is in; a function is in one when it *)
(* calls schedule().                                                       *)
Runs(t) ==
  /\ Run(t)
  /\ IF Inside(t) \/ m_fibers' # m_fibers THEN Section(t) ELSE UNCHANGED race

(* A failed assertion ends the process.  The loop over m_threads in stop() *)
(* and its stopping() are not told from the rest of stop().                *)
Step ==
  \/ OwnerSchedules /\ Section(Root)
  \/ (Start \/ OwnerStops) /\ UNCHANGED race
  \/ StartReturns
  \/ \E t \in Threads : Runs(t)
  \/ \E f \in Fibers : Wake(f) /\ Section(AnyThread)
  \/ Astray

Done == (ctl = "stopped" \/ abort # "none") /\ UNCHANGED vars

Next == (abort = "none" /\ Step) \/ Done

Spec == Init /\ [][Next]_vars

(* Every thread that can step does, the owner's stop() included once it    *)
(* has been called.                                                        *)
Fairness ==
  /\ \A t \in Threads : WF_vars(abort = "none" /\ Runs(t))
  /\ WF_vars(/\ abort = "none" /\ UNCHANGED race
             /\ StopMarks \/ StopCallsRoot \/ StopRootBack \/ StopJoins)

FairSpec == Spec /\ Fairness

-----------------------------------------------------------------------------
(* Properties.                                                             *)

QueueType == m_fibers \in Seq(FiberAndThread)
OwnerType ==
  /\ m_stopping \in BOOLEAN /\ m_autoStop \in BOOLEAN
  /\ ctl \in {"created", "starting", "started", "stopping", "root", "join",
              "stopped"}
CountType == m_activeThreadCount \in Nat /\ m_idleThreadCount \in Nat
FiberType ==
  /\ m_state \in [Fibers -> FiberStates]
  /\ m_cb \in [Fibers -> Tasks \cup {Null}]
  /\ m_ctx \in [Fibers -> Contexts]
  /\ waiting \subseteq Fibers
ThreadType ==
  /\ pc \in [Threads -> Pcs]
  /\ ft \in [Threads -> FiberAndThread]
  /\ cb_fiber \in [Threads -> Fibers \cup {Null}]
  /\ idleTerm \in [Threads -> BOOLEAN]
HistoryType ==
  /\ scheduled \subseteq Tasks /\ finished \subseteq scheduled
  /\ started \in [Tasks -> Nat] /\ yields \in [Tasks -> Nat]
  /\ abort \in {"none", "~Fiber", "swapIn", "MainFunc", "reset", "race"}
RaceType ==
  /\ robbed \in [thread : Threads \cup {Null}, queue : Seq(FiberAndThread)]
  /\ torn \in BOOLEAN

(* Every variable has its type.  That the counters are natural numbers     *)
(* says that the size_t values the code counts down never wrap below 0.    *)
TypeOK ==
  /\ QueueType /\ OwnerType /\ CountType
  /\ FiberType /\ ThreadType /\ HistoryType /\ RaceType

(* m_activeThreadCount, which stopping() trusts, counts exactly the        *)
(* threads between taking an entry from m_fibers and returning from it.    *)
ActiveCountExact ==
  m_activeThreadCount = Cardinality({t \in Threads : pc[t] \in ActivePcs})

(* m_idleThreadCount, which hasIdleThreads() tests before a tickle, counts *)
(* exactly the threads inside their idle fiber.                            *)
IdleCountExact ==
  m_idleThreadCount = Cardinality({t \in Threads : pc[t] \in IdlePcs})

(* No fiber's stack is executed by two threads at a time: between swapIn() *)
(* and the swapcontext of swapOut() it belongs to one of them, unless two  *)
(* sections of m_mutex have overlapped after the second unlock of start(). *)
OneThreadPerFiber ==
  \/ torn
  \/ \A t, u \in Threads :
       pc[t] \in OnFiber /\ pc[u] \in OnFiber /\ t # u => Cur(t) # Cur(u)

(* No assertion of Fiber or of run() fails.                                *)
NoAbort == abort = "none"

(* The only assertion that an exception in a callback makes fail is the    *)
(* one of ~Fiber: a fiber that threw is never entered or reset again, with *)
(* one worker even when its sections overlap those of schedule().          *)
OnlyDestructorFails == abort \in {"none", "race", "~Fiber"}

(* A callback is entered at most once, however often its fiber is resumed. *)
RunOnce == \A c \in Tasks : started[c] <= 1

(* Where a task that was scheduled and has not finished can be.            *)
Queued(c) ==
  \E i \in 1..Len(m_fibers) :
    \/ m_fibers[i].cb = c
    \/ m_fibers[i].fiber # Null /\ m_cb[m_fibers[i].fiber] = c
InHand(c, t) ==
  \/ pc[t] = "run" /\ ft[t].cb = c
  \/ pc[t] \in ActivePcs \cup {"settle"} /\ Cur(t) # Null /\ m_cb[Cur(t)] = c
Waits(c) == \E f \in waiting : m_cb[f] = c

(* No task is dropped: until it finishes, the queue, a thread, or an event *)
(* or timer that will wake it leads to it, as long as no two sections of   *)
(* m_mutex overlap.                                                        *)
TaskNotLost ==
  \/ torn
  \/ \A c \in scheduled \ finished :
       Queued(c) \/ Waits(c) \/ \E t \in Threads : InHand(c, t)

(* When stop() returns, every task that was ever scheduled has finished,   *)
(* unless two sections of m_mutex have overlapped.                         *)
StopDrains == ctl = "stopped" => torn \/ scheduled \subseteq finished

(* stop() returns, or the list may be broken.                              *)
StopReturns == ctl = "stopping" ~> ctl = "stopped" \/ torn

(* A task that waits in the queue for the caller's own thread, which runs  *)
(* tasks only inside stop().                                               *)
ForCaller(c) ==
  \E i \in 1..Len(m_fibers) :
    /\ m_fibers[i].thread = Root
    /\ \/ m_fibers[i].cb = c
       \/ m_fibers[i].fiber # Null /\ m_cb[m_fibers[i].fiber] = c

(* Once the pool is started, every other task that is scheduled finishes,  *)
(* whether or not stop() is called, unless the list may be broken.         *)
TaskCompletes ==
  \A c \in Tasks :
    c \in scheduled /\ ctl # "created" /\ ~ForCaller(c) ~> c \in finished \/ torn

(* The pool as its users see it: at most |PoolThreads| tasks run at a      *)
(* time, each is taken up, suspended and ended in turn, and stop() closes  *)
(* the pool when all is done.                                              *)
PoolStatus ==
  [c \in Tasks |->
     CASE c \notin scheduled -> "new"
       [] c \in finished -> "done"
       [] OTHER -> IF \E t \in Threads : pc[t] \in OnFiber /\ Task(t) = c
                   THEN "running" ELSE "ready"]

Pool == INSTANCE TaskPool WITH
          Capacity <- Cardinality(PoolThreads),
          status <- PoolStatus, closed <- (ctl = "stopped")

(* Fiber and Scheduler together implement the task pool until two sections *)
(* of m_mutex overlap.                                                     *)
ImplementsTaskPool == Pool!Init /\ [][torn' \/ Pool!Next]_(Pool!vars)
=============================================================================
