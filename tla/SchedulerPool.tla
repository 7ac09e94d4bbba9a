--------------------------- MODULE SchedulerPool ---------------------------
(* What becomes of a task, for every number of threads and tasks, when no  *)
(* callback waits with YieldToHold and no two sections of m_mutex overlap: *)
(* its function is entered once, and the scheduler as a whole implements   *)
(* the task pool of module TaskPool.                                       *)
(*                                                                         *)
(* TaskInv says that a function is in one place at a time (an entry of     *)
(* m_fibers, the entry a thread took, or a fiber), that it is untouched    *)
(* until it is bound to a fiber, and that a fiber somebody will switch to  *)
(* has not ended, and was not entered before if it starts from the top.    *)
EXTENDS SchedulerProofs

USE DEF Threads, OnFiber, ActivePcs, IdlePcs, Pcs, BusyPcs

-----------------------------------------------------------------------------
(* A task is in one place only: in an entry of the queue, in the entry a   *)
(* thread took, or bound to a fiber.                                       *)
Unique(c) ==
  /\ \A i, j \in 1..Len(m_fibers) :
       m_fibers[i].cb = c /\ m_fibers[j].cb = c => i = j
  /\ \A t, u \in Threads : ft[t].cb = c /\ ft[u].cb = c => t = u
  /\ \A f, g \in Fibers : m_cb[f] = c /\ m_cb[g] = c => f = g
  /\ \A i \in 1..Len(m_fibers), t \in Threads :
       m_fibers[i].cb = c => ft[t].cb # c
  /\ \A i \in 1..Len(m_fibers), f \in Fibers : m_fibers[i].cb = c => m_cb[f] # c
  /\ \A t \in Threads, f \in Fibers : ft[t].cb = c => m_cb[f] # c

(* Until it is bound to a fiber, nobody has entered it.                    *)
Unbound(c) ==
  \/ \E i \in 1..Len(m_fibers) : m_fibers[i].cb = c
  \/ \E t \in Threads : ft[t].cb = c
  \/ c \notin scheduled
Untouched(c) == started[c] = 0 /\ c \notin finished
OncePart(c) == started[c] \in {0, 1} /\ (Unbound(c) => Untouched(c))

(* A fiber that will be resumed: its function is not over, and has been    *)
(* entered unless the context is still the one that makecontext made.      *)
Live(f) ==
  /\ m_cb[f] \notin finished
  /\ m_ctx[f] = "start" => started[m_cb[f]] = 0
QueueLive ==
  \A i \in 1..Len(m_fibers), g \in Fibers : m_fibers[i].fiber = g => Live(g)
LiveHand(t) ==
  /\ pc[t] = "run" /\ ft[t].fiber # Null => Live(ft[t].fiber)
  /\ \/ pc[t] \in {"exec", "leaving"}
     \/ pc[t] \in {"back", "settle"} /\ m_state[Cur(t)] = "READY"
     => m_cb[Cur(t)] \notin finished

TasksApart == \A c \in Tasks : Unique(c) /\ OncePart(c)
TasksLive == QueueLive /\ \A t \in Threads : LiveHand(t)
TaskInv == TasksApart /\ TasksLive

(* Types, and that only scheduled tasks are anywhere.                      *)
LEMMA TaskShapes ==
  ASSUME TypeInv
  PROVE  /\ Null \notin Tasks /\ finished \subseteq scheduled /\ scheduled \subseteq Tasks
         /\ started \in [Tasks -> Nat]
         /\ m_cb \in [Fibers -> Tasks \cup {Null}]
         /\ \A f \in Fibers : m_cb[f] \in scheduled \cup {Null}
         /\ \A t \in Threads : ft[t].cb \in scheduled \cup {Null}
         /\ \A i \in 1..Len(m_fibers) : m_fibers[i].cb \in scheduled \cup {Null}
BY SchedulerAssumption DEF TypeInv, Types, HistoryType, FiberType, Hands, GoodEntry

(* The functions in the queue stay where they are, or an entry without one *)
(* was appended.                                                           *)
KeepsFunctions ==
  \A i \in 1..Len(m_fibers') :
    m_fibers'[i].cb # Null => i \in 1..Len(m_fibers) /\ m_fibers'[i].cb = m_fibers[i].cb

(* Nothing is bound or handed over; at most the one task d, which is bound *)
(* to a fiber, is entered or ends.                                         *)
LEMMA ApartShrinks ==
  ASSUME TypeInv, TasksApart, KeepsFunctions, NEW d, scheduled' = scheduled,
         \A t \in Threads : ft'[t].cb \in {ft[t].cb, Null},
         \A f \in Fibers : m_cb'[f] \in {m_cb[f], Null},
         \A c \in Tasks : c # d =>
           started'[c] = started[c] /\ (c \in finished' => c \in finished),
         d \in Tasks => started'[d] \in {0, 1} /\ \E f \in Fibers : m_cb[f] = d
  PROVE  TasksApart'
<1> SUFFICES ASSUME NEW c \in Tasks PROVE Unique(c)' /\ OncePart(c)'
  BY DEF TasksApart
<1>1. c # Null /\ Unique(c) /\ OncePart(c)
  BY TaskShapes DEF TasksApart
<1>2. Unique(c)'
  BY <1>1, SMTT(30) DEF Unique, KeepsFunctions
<1>3. Unbound(c)' => Unbound(c)
  BY <1>1 DEF Unbound, KeepsFunctions
<1>4. CASE c = d
  <2>1. PICK f \in Fibers : m_cb[f] = c
    BY <1>4
  <2>2. c \in scheduled
    BY <1>1, <2>1, TaskShapes
  <2>3. ~Unbound(c)
    BY <1>1, <2>1, <2>2 DEF Unbound, Unique
  <2> QED BY <1>2, <1>3, <1>4, <2>3 DEF OncePart
<1>5. CASE c # d
  BY <1>1, <1>2, <1>3, <1>5 DEF OncePart, Untouched
<1> QED BY <1>4, <1>5

(* The queue stays as it is.                                               *)
LEMMA SameQueue ==
  ASSUME m_fibers' = m_fibers
  PROVE  KeepsFunctions
BY DEF KeepsFunctions

(* A step that enters, ends and binds nothing.                             *)
LEMMA ApartQuiet ==
  ASSUME TypeInv, TasksApart, KeepsFunctions, UNCHANGED <<scheduled, started, finished>>,
         \A t \in Threads : ft'[t].cb \in {ft[t].cb, Null},
         \A f \in Fibers : m_cb'[f] \in {m_cb[f], Null}
  PROVE  TasksApart'
<1>1. Null \notin Tasks
  BY TaskShapes
<1> QED BY <1>1, ApartShrinks

(* What a step of t does not touch stays resumable: f is the fiber that it *)
(* may change, and to which nobody else points.  For a step of the owner,  *)
(* t is no thread.                                                         *)
LEMMA LiveElse ==
  ASSUME FiberInv, TaskInv, NEW t, NEW f \in Fibers \cup {Null},
         \A u \in Threads \ {t} : /\ pc'[u] = pc[u] \/ pc'[u] = "pick"
                                  /\ ft'[u] = ft[u] /\ cb_fiber'[u] = cb_fiber[u],
         f # Null =>
           /\ \A i \in 1..Len(m_fibers) : m_fibers[i].fiber # f
           /\ \A u \in Threads : u # t => ft[u].fiber # f /\ cb_fiber[u] # f,
         \A g \in Fibers \ {f} :
           /\ m_state'[g] = m_state[g] /\ m_cb'[g] = m_cb[g] /\ m_ctx'[g] = m_ctx[g]
           /\ m_cb[g] # Null => /\ started'[m_cb[g]] = started[m_cb[g]]
                                /\ m_cb[g] \in finished' => m_cb[g] \in finished,
         \A i \in 1..Len(m_fibers'), g \in Fibers :
           m_fibers'[i].fiber = g =>
             (\E j \in 1..Len(m_fibers) : m_fibers[j].fiber = g) \/ Live(g)',
         t \in Threads => LiveHand(t)'
  PROVE  TasksLive'
<1>0. TypeInv /\ Phases /\ TasksLive
  BY DEF FiberInv, TaskInv
<1>1. /\ \A i \in 1..Len(m_fibers) : m_fibers[i].fiber \in Fibers \cup {Null}
      /\ \A u \in Threads : /\ ft[u].fiber \in Fibers \cup {Null}
                            /\ cb_fiber[u] \in Fibers \cup {Null}
                            /\ pc[u] \in BusyPcs => Cur(u) \in Fibers
      /\ Null \notin Fibers
  BY <1>0, Shapes
<1>2. ASSUME NEW g \in Fibers \ {f}, Live(g), m_cb[g] # Null PROVE Live(g)'
  BY <1>2 DEF Live
<1>3. QueueLive'
  <2> SUFFICES ASSUME NEW i \in 1..Len(m_fibers'), NEW g \in Fibers, m_fibers'[i].fiber = g
               PROVE  Live(g)'
    BY DEF QueueLive
  <2>1. CASE \E j \in 1..Len(m_fibers) : m_fibers[j].fiber = g
    <3>1. PICK j \in 1..Len(m_fibers) : m_fibers[j].fiber = g
      BY <2>1
    <3>2. g \in Fibers \ {f} /\ g # Null
      BY <1>1, <3>1
    <3>3. Live(g) /\ m_cb[g] # Null
      BY <1>0, <3>1, <3>2 DEF TasksLive, QueueLive, Phases, QueueRunnable, Runnable
    <3> QED BY <1>2, <3>2, <3>3
  <2> QED BY <2>1
<1>4. ASSUME NEW u \in Threads \ {t} PROVE LiveHand(u)'
  <2>0. LiveHand(u) /\ ft'[u] = ft[u] /\ Cur(u)' = Cur(u)
    BY <1>0 DEF TasksLive, Cur
  <2>1. CASE pc'[u] = "pick"
    BY <2>1 DEF LiveHand
  <2>2. CASE pc'[u] = pc[u] /\ pc[u] = "run" /\ ft[u].fiber # Null
    <3>1. PICK g \in Fibers \ {f} : g = ft[u].fiber
      BY <1>1, <2>2
    <3>2. Live(g) /\ m_cb[g] # Null
      BY <1>0, <2>0, <2>2, <3>1 DEF LiveHand, Phases, PickedRunnable, Runnable
    <3>3. Live(g)'
      BY <1>2, <3>2
    <3> QED BY <2>0, <2>2, <3>1, <3>3 DEF LiveHand
  <2>3. CASE pc'[u] = pc[u] /\ pc[u] \in BusyPcs
    <3>1. PICK g \in Fibers \ {f} : g = Cur(u)
      BY <1>1, <2>3 DEF Cur
    <3>2. PhaseOf(u)
      BY <1>0, <2>3 DEF Phases, BusyPhase
    <3>3. pc[u] \in {"exec", "leaving"} => m_cb[g] # Null
      BY <3>1, <3>2 DEF PhaseOf
    <3>4. pc[u] \in {"back", "settle"} /\ m_state[g] = "READY" => m_cb[g] # Null
      BY <3>1, <3>2 DEF PhaseOf, Ended
    <3>5. m_state'[g] = m_state[g] /\ m_cb'[g] = m_cb[g]
      OBVIOUS
    <3>6. Cur(u)' = g
      BY <2>0, <3>1
    <3> QED BY <2>0, <2>3, <3>1, <3>3, <3>4, <3>5, <3>6 DEF LiveHand
  <2>4. CASE pc'[u] = pc[u] /\ pc[u] \notin BusyPcs
             /\ ~(pc[u] = "run" /\ ft[u].fiber # Null)
    BY <2>0, <2>4 DEF LiveHand
  <2> QED BY <2>1, <2>2, <2>3, <2>4
<1> QED BY <1>3, <1>4 DEF TasksLive

(* A step of t that leaves the queue and the fibers alone.                 *)
LEMMA LiveQuiet ==
  ASSUME FiberInv, TaskInv, NEW t \in Threads,
         \A u \in Threads \ {t} : /\ pc'[u] = pc[u] \/ pc'[u] = "pick"
                                  /\ ft'[u] = ft[u] /\ cb_fiber'[u] = cb_fiber[u],
         UNCHANGED <<m_fibers, m_state, m_cb, m_ctx, started, finished>>,
         LiveHand(t)'
  PROVE  TasksLive'
BY LiveElse

(* Nothing is scheduled when the constructor returns.                      *)
LEMMA TaskInit == Init => TaskInv
<1> SUFFICES ASSUME Init PROVE TaskInv
  OBVIOUS
<1>1. Null \notin Tasks
  BY SchedulerAssumption
<1>2. m_fibers = <<>> /\ Len(m_fibers) = 0
  BY DEF Init
<1>3. TasksApart
  BY <1>1, <1>2 DEF Init, TasksApart, Unique, OncePart, Untouched, NoEntry, Entry
<1>4. TasksLive
  BY <1>2 DEF Init, TasksLive, QueueLive, LiveHand
<1> QED BY <1>3, <1>4 DEF TaskInv

(* schedule(cb): a task that is nowhere gets an entry of its own.          *)
LEMMA TaskScheduleCb ==
  ASSUME FiberInv, TaskInv, NEW c \in Tasks, NEW th \in Threads \cup {AnyThread},
         c \notin scheduled, m_fibers' = Append(m_fibers, Entry(Null, c, th)),
         scheduled' = scheduled \cup {c},
         UNCHANGED <<ft, cb_fiber, pc, m_state, m_cb, m_ctx, started, finished>>
  PROVE  TaskInv'
<1> DEFINE n == Len(m_fibers)
<1>0. TypeInv /\ TasksApart /\ TasksLive
  BY DEF FiberInv, TaskInv
<1>1. Entry(Null, c, th) \in FiberAndThread /\ m_fibers \in Seq(FiberAndThread) /\ n \in Nat
  BY <1>0 DEF Entry, FiberAndThread, TypeInv, Types, QueueType
<1>2. /\ Len(m_fibers') = n + 1
      /\ \A i \in 1..(n + 1) :
           m_fibers'[i] = IF i = n + 1 THEN Entry(Null, c, th) ELSE m_fibers[i]
  BY <1>1, AppendType
<1>3. Entry(Null, c, th).cb = c /\ Entry(Null, c, th).fiber = Null
  BY DEF Entry
<1>4. \A i \in 1..Len(m_fibers') :
        \/ i = n + 1 /\ m_fibers'[i].cb = c /\ m_fibers'[i].fiber = Null
        \/ i \in 1..n /\ m_fibers'[i] = m_fibers[i]
  BY <1>1, <1>2, <1>3
<1> HIDE DEF n
<1>5. /\ \A i \in 1..Len(m_fibers) : m_fibers[i].cb # c
      /\ \A t \in Threads : ft[t].cb # c
      /\ \A f \in Fibers : m_cb[f] # c
  BY <1>0, TaskShapes
<1>6. ASSUME NEW d \in Tasks PROVE Unique(d)' /\ OncePart(d)'
  <2>1. Unique(d) /\ OncePart(d)
    BY <1>0 DEF TasksApart
  <2>2. CASE d = c
    <3>1. \A i \in 1..Len(m_fibers') : m_fibers'[i].cb = c => i = n + 1
      BY <1>4, <1>5 DEF n
    <3>2. Unique(c)'
      BY <1>5, <3>1 DEF Unique
    <3>3. Untouched(c)
      BY <2>1, <2>2 DEF OncePart, Unbound
    <3> QED BY <2>1, <2>2, <3>2, <3>3 DEF OncePart, Untouched
  <2>3. CASE d # c
    <3>1. \A i \in 1..Len(m_fibers') :
            m_fibers'[i].cb = d => i \in 1..Len(m_fibers) /\ m_fibers[i].cb = d
      BY <1>4, <2>3 DEF n
    <3>2. Unique(d)'
      BY <2>1, <3>1 DEF Unique
    <3>3. Unbound(d)' => Unbound(d)
      BY <2>3, <3>1 DEF Unbound
    <3> QED BY <2>1, <3>2, <3>3 DEF OncePart, Untouched
  <2> QED BY <2>2, <2>3
<1>7. \A t \in Threads : LiveHand(t)'
  BY <1>0 DEF TasksLive, LiveHand, Live, Cur
<1>8. QueueLive'
  <2>1. Null \notin Fibers
    BY SchedulerAssumption
  <2>2. \A g \in Fibers : Live(g) => Live(g)'
    BY DEF Live
  <2> QED BY <1>0, <1>4, <2>1, <2>2 DEF n, TasksLive, QueueLive
<1> QED BY <1>6, <1>7, <1>8 DEF TaskInv, TasksApart, TasksLive

(* schedule(fiber): the task is bound to the new fiber.                    *)
LEMMA TaskScheduleFiber ==
  ASSUME FiberInv, TaskInv, NEW c \in Tasks, NEW f \in Fibers,
         NEW th \in Threads \cup {AnyThread}, OwnerSchedulesFiber(c, f, th)
  PROVE  TaskInv'
<1> DEFINE e == Entry(f, Null, th)
<1>0. TypeInv /\ TasksApart /\ TasksLive
  BY DEF FiberInv, TaskInv
<1>1. /\ c \notin scheduled /\ m_state[f] = "FREE" /\ m_fibers' = Append(m_fibers, e)
      /\ scheduled' = scheduled \cup {c} /\ UNCHANGED <<pc, ft, cb_fiber, started, finished>>
  BY DEF OwnerSchedulesFiber, NewFiber, locals
<1>2. /\ m_cb'[f] = c
      /\ \A g \in Fibers \ {f} : /\ m_state'[g] = m_state[g] /\ m_cb'[g] = m_cb[g]
                                 /\ m_ctx'[g] = m_ctx[g]
  BY <1>0 DEF OwnerSchedulesFiber, NewFiber, TypeInv, Types, FiberType
<1>3. e \in FiberAndThread /\ e.cb = Null /\ e.fiber = f
  BY DEF Entry, FiberAndThread
<1>4. m_fibers \in Seq(FiberAndThread) /\ Len(m_fibers) \in Nat
  BY <1>0 DEF TypeInv, Types, QueueType
<1>5. \A i \in 1..Len(m_fibers') :
        \/ m_fibers'[i] = e
        \/ i \in 1..Len(m_fibers) /\ m_fibers'[i] = m_fibers[i]
  BY <1>1, <1>3, <1>4, AppendType
<1> HIDE DEF e
<1>6. /\ \A i \in 1..Len(m_fibers) : m_fibers[i].cb # c
      /\ \A t \in Threads : ft[t].cb # c
      /\ \A g \in Fibers : m_cb[g] # c
      /\ c # Null
  BY <1>0, <1>1, TaskShapes
<1>7. Untouched(c)
  BY <1>0, <1>1 DEF TasksApart, OncePart, Unbound
<1>8. ASSUME NEW d \in Tasks PROVE Unique(d)' /\ OncePart(d)'
  <2>1. Unique(d) /\ OncePart(d) /\ d # Null
    BY <1>0, TaskShapes DEF TasksApart
  <2>2. \A i \in 1..Len(m_fibers') :
          m_fibers'[i].cb = d => i \in 1..Len(m_fibers) /\ m_fibers[i].cb = d
    BY <1>3, <1>5, <2>1
  <2>3. CASE d = c
    <3>1. \A i \in 1..Len(m_fibers') : m_fibers'[i].cb # c
      BY <1>6, <2>2, <2>3
    <3>2. \A g \in Fibers : m_cb'[g] = c => g = f
      BY <1>2, <1>6
    <3>3. Unique(c)'
      BY <1>1, <1>6, <3>1, <3>2 DEF Unique
    <3> QED BY <1>1, <1>7, <2>1, <2>3, <3>3 DEF OncePart, Untouched
  <2>4. CASE d # c
    <3>1. \A g \in Fibers : m_cb'[g] = d => m_cb[g] = d
      BY <1>2, <2>4
    <3>2. Unique(d)'
      BY <1>1, <2>1, <2>2, <3>1 DEF Unique
    <3>3. Unbound(d)' => Unbound(d)
      BY <1>1, <2>2, <2>4 DEF Unbound
    <3> QED BY <1>1, <2>1, <3>2, <3>3 DEF OncePart, Untouched
  <2> QED BY <2>3, <2>4
<1>9. TasksLive'
  <2>1. /\ \A i \in 1..Len(m_fibers) : m_fibers[i].fiber # f
        /\ \A u \in Threads : ft[u].fiber # f /\ cb_fiber[u] # f
    BY <1>1, FreeIsFresh
  <2>2. Live(f)'
    BY <1>1, <1>2, <1>7 DEF Live, Untouched
  <2>3. AnyThread \notin Threads
    BY SchedulerAssumption
  <2>4. \A g \in Fibers \ {f} :
          /\ m_state'[g] = m_state[g] /\ m_cb'[g] = m_cb[g] /\ m_ctx'[g] = m_ctx[g]
          /\ m_cb[g] # Null => /\ started'[m_cb[g]] = started[m_cb[g]]
                               /\ m_cb[g] \in finished' => m_cb[g] \in finished
    BY <1>1, <1>2
  <2>5. \A i \in 1..Len(m_fibers'), g \in Fibers :
          m_fibers'[i].fiber = g =>
            (\E j \in 1..Len(m_fibers) : m_fibers[j].fiber = g) \/ Live(g)'
    BY <1>3, <1>5, <2>2
  <2>6. \A u \in Threads \ {AnyThread} :
          /\ pc'[u] = pc[u] \/ pc'[u] = "pick"
          /\ ft'[u] = ft[u] /\ cb_fiber'[u] = cb_fiber[u]
    BY <1>1
  <2>7. f \in Fibers \cup {Null}
    OBVIOUS
  <2> HIDE DEF Threads
  <2> QED BY <2>1, <2>3, <2>4, <2>5, <2>6, <2>7, LiveElse
<1> QED BY <1>8, <1>9 DEF TaskInv, TasksApart

(* A step that moves neither the queue nor a fiber, and no thread that has *)
(* something in its hands.                                                 *)
LEMMA TaskQuiet ==
  ASSUME FiberInv, TaskInv,
         UNCHANGED <<m_fibers, ft, cb_fiber, m_state, m_cb, m_ctx, history>>,
         \A u \in Threads :
           \/ pc'[u] = pc[u]
           \/ pc'[u] \notin {"run"} \cup BusyPcs
           \/ pc[u] = "back" /\ pc'[u] = "settle"
  PROVE  TaskInv'
<1>0. TypeInv /\ TasksApart /\ TasksLive
  BY DEF FiberInv, TaskInv
<1>1. UNCHANGED <<scheduled, started, finished>>
  BY DEF history
<1>2. TasksApart'
  BY <1>0, <1>1, SameQueue, ApartQuiet
<1>3. QueueLive'
  BY <1>0, <1>1 DEF TasksLive, QueueLive, Live
<1>4. ASSUME NEW u \in Threads PROVE LiveHand(u)'
  <2>1. LiveHand(u) /\ Cur(u)' = Cur(u)
    BY <1>0 DEF TasksLive, Cur
  <2>2. \A g : Live(g)' = Live(g)
    BY <1>1 DEF Live
  <2>3. pc'[u] = "run" => pc[u] = "run"
    OBVIOUS
  <2>4. pc'[u] \in {"exec", "leaving"} => pc'[u] = pc[u]
    OBVIOUS
  <2>5. pc'[u] \in {"back", "settle"} => pc[u] \in {"back", "settle"}
    OBVIOUS
  <2> QED BY <1>1, <2>1, <2>2, <2>3, <2>4, <2>5 DEF LiveHand
<1> QED BY <1>2, <1>3, <1>4 DEF TaskInv, TasksLive

(* The owner's start() and stop().                                         *)
LEMMA TaskOwner ==
  ASSUME FiberInv, TaskInv, Start \/ StartReturns \/ OwnerStops
  PROVE  TaskInv'
<1>1. UNCHANGED <<m_fibers, ft, cb_fiber, m_state, m_cb, m_ctx, history>>
  BY DEF Start, StartReturns, OwnerStops, StopBegins, StopMarks, StopCallsRoot, StopRootBack, StopJoins,
     fibers, locals
<1>2. pc \in [Threads -> Pcs]
  BY DEF FiberInv, TypeInv, Types, ThreadType
<1>3. \A u \in Threads : pc'[u] = pc[u] \/ pc'[u] = "pick"
  BY <1>2 DEF Start, StartReturns, OwnerStops, StopBegins, StopMarks, StopCallsRoot, StopRootBack, StopJoins
<1> QED BY <1>1, <1>3, TaskQuiet

(* Finding no entry, idling, and counting the thread down.                 *)
LEMMA TaskIdle ==
  ASSUME FiberInv, TaskInv, NEW t \in Threads,
         PickNothing(t) \/ EnterIdle(t) \/ Idle(t) \/ LeaveIdle(t) \/ CountDown(t)
  PROVE  TaskInv'
<1>0. /\ pc \in [Threads -> Pcs] /\ ft \in [Threads -> FiberAndThread] /\ Exclusive
  BY DEF FiberInv, TypeInv, Types, ThreadType
<1>1. UNCHANGED <<m_fibers, cb_fiber, m_state, m_cb, m_ctx, history>>
  BY DEF PickNothing, EnterIdle, Idle, LeaveIdle, CountDown, fibers, locals
<1>2. ft' = ft
  <2>1. CASE PickNothing(t)
    BY <1>0, <2>1 DEF PickNothing, Exclusive, NoneHolds
  <2> QED BY <2>1 DEF EnterIdle, Idle, LeaveIdle, CountDown, locals
<1>3. \A u \in Threads : \/ pc'[u] = pc[u] \/ pc'[u] \notin {"run"} \cup BusyPcs
                         \/ pc[u] = "back" /\ pc'[u] = "settle"
  BY <1>0 DEF PickNothing, EnterIdle, Idle, LeaveIdle, CountDown
<1> QED BY <1>1, <1>2, <1>3, TaskQuiet

(* run() takes an entry: what the entry carries was in the queue only.     *)
LEMMA TaskPicked ==
  ASSUME FiberInv, TaskInv, NEW t \in Threads, PickTask(t)
  PROVE  TaskInv'
<1>0. TypeInv /\ Exclusive /\ TasksApart /\ TasksLive
  BY DEF FiberInv, TaskInv
<1>1. /\ pc[t] = "pick" /\ pc' = [pc EXCEPT ![t] = "run"]
      /\ UNCHANGED <<m_state, m_cb, m_ctx, cb_fiber, scheduled, started, finished>>
  BY DEF PickTask, fibers, history
<1>2. \A u \in Threads : pc'[u] = IF u = t THEN "run" ELSE pc[u]
  BY <1>0, <1>1, PcFacts
<1>3. ft[t].cb = Null
  BY <1>0, <1>1, Shapes DEF Exclusive, NoneHolds
<1>4. PICK i \in 1..Len(m_fibers) : Takes(t, i)
  BY <1>0, PickTaskFacts
<1>5. /\ Len(m_fibers') = Len(m_fibers) - 1 /\ Len(m_fibers) \in Nat
      /\ \A j \in 1..Len(m_fibers') :
           \E k \in 1..Len(m_fibers) :
             /\ m_fibers'[j] = m_fibers[k] /\ k # i
             /\ k = IF j < i THEN j ELSE j + 1
      /\ \A u \in Threads : ft'[u] = IF u = t THEN m_fibers[i] ELSE ft[u]
  BY <1>4 DEF Takes
<1>6. ASSUME NEW c \in Tasks PROVE Unique(c)' /\ OncePart(c)'
  <2>1. Unique(c) /\ OncePart(c) /\ c # Null
    BY <1>0, TaskShapes DEF TasksApart
  <2>2. \A j \in 1..Len(m_fibers') : m_fibers'[j].cb = c =>
          \E k \in 1..Len(m_fibers) : /\ m_fibers[k].cb = c /\ k # i
                                      /\ k = IF j < i THEN j ELSE j + 1
    BY <1>5
  <2>3. \A j, l \in 1..Len(m_fibers') :
          m_fibers'[j].cb = c /\ m_fibers'[l].cb = c => j = l
    <3> SUFFICES ASSUME NEW j \in 1..Len(m_fibers'), NEW l \in 1..Len(m_fibers'),
                        m_fibers'[j].cb = c, m_fibers'[l].cb = c
                 PROVE  j = l
      OBVIOUS
    <3>1. PICK k \in 1..Len(m_fibers) : /\ m_fibers[k].cb = c /\ k # i
                                        /\ k = IF j < i THEN j ELSE j + 1
      BY <2>2
    <3>2. PICK k2 \in 1..Len(m_fibers) : /\ m_fibers[k2].cb = c /\ k2 # i
                                         /\ k2 = IF l < i THEN l ELSE l + 1
      BY <2>2
    <3>3. k = k2
      BY <2>1, <3>1, <3>2 DEF Unique
    <3> QED BY <1>5, <3>1, <3>2, <3>3
  <2>4. ASSUME NEW u \in Threads, ft'[u].cb = c
        PROVE  \/ u = t /\ m_fibers[i].cb = c
               \/ u # t /\ ft[u].cb = c
    <3>1. ft'[u] = IF u = t THEN m_fibers[i] ELSE ft[u]
      BY <1>5
    <3> QED BY <2>4, <3>1
  <2>5. /\ \A u, v \in Threads : ft'[u].cb = c /\ ft'[v].cb = c => u = v
        /\ \A j \in 1..Len(m_fibers'), u \in Threads :
             m_fibers'[j].cb = c => ft'[u].cb # c
        /\ \A j \in 1..Len(m_fibers'), f \in Fibers : m_fibers'[j].cb = c => m_cb[f] # c
        /\ \A u \in Threads, f \in Fibers : ft'[u].cb = c => m_cb[f] # c
    BY <2>1, <2>2, <2>4 DEF Unique
  <2>6. Unique(c)'
    BY <1>1, <2>1, <2>3, <2>5 DEF Unique
  <2>7. Unbound(c)' => Unbound(c)
    BY <1>1, <2>2, <2>4 DEF Unbound
  <2> QED BY <1>1, <2>1, <2>6, <2>7 DEF OncePart, Untouched
<1>7. TasksLive'
  <2>0. \A g : Live(g)' = Live(g)
    BY <1>1 DEF Live
  <2>1. QueueLive'
    BY <1>0, <1>5, <2>0 DEF TasksLive, QueueLive
  <2>2. ASSUME NEW u \in Threads PROVE LiveHand(u)'
    <3>1. CASE u = t
      <4>1. ft'[t].fiber # Null => \E g \in Fibers : g = ft'[t].fiber /\ Live(g)
        BY <1>0, <1>5, Shapes DEF TasksLive, QueueLive
      <4> QED BY <1>2, <2>0, <3>1, <4>1 DEF LiveHand
    <3>2. CASE u # t
      <4>1. ft'[u] = ft[u] /\ pc'[u] = pc[u] /\ LiveHand(u) /\ Cur(u)' = Cur(u)
        BY <1>0, <1>1, <1>2, <1>5, <3>2 DEF TasksLive, Cur
      <4> QED BY <1>1, <2>0, <4>1 DEF LiveHand
    <3> QED BY <3>1, <3>2
  <2> QED BY <2>1, <2>2 DEF TasksLive
<1> QED BY <1>6, <1>7 DEF TaskInv, TasksApart

(* A task that is bound to f is bound to no other fiber.                   *)
LEMMA BoundOnce ==
  ASSUME TypeInv, TasksApart, NEW f \in Fibers, NEW g \in Fibers \ {f}, m_cb[g] # Null
  PROVE  m_cb[g] # m_cb[f]
<1>1. m_cb[g] \in Tasks
  BY TaskShapes
<1> QED BY <1>1 DEF TasksApart, Unique

(* swapIn() of a queued fiber: a function is entered from the top at most  *)
(* once, and one that is over is not resumed.                              *)
LEMMA TaskEntered ==
  ASSUME FiberInv, TaskInv, NEW t \in Threads, RunFiber(t)
  PROVE  TaskInv'
<1>0. TypeInv /\ Phases /\ TasksApart /\ TasksLive
  BY DEF FiberInv, TaskInv
<1>1. PICK f \in Fibers : f = ft[t].fiber /\ f # Null /\ Cur(t) = f
  BY <1>0, Shapes DEF RunFiber, Cur
<1>2. PICK d \in Tasks : d = m_cb[f]
  <2>1. m_cb[f] # Null
    BY <1>0, <1>1 DEF RunFiber, Phases, PickedRunnable, Runnable
  <2> QED BY <1>0, <2>1, TaskShapes
<1>3. Live(f)
  BY <1>0, <1>1 DEF RunFiber, TasksLive, LiveHand
<1>4. /\ pc' = [pc EXCEPT ![t] = "exec"] /\ m_state' = [m_state EXCEPT ![f] = "EXEC"]
      /\ started' = [started EXCEPT ![d] = @ + (IF m_ctx[f] = "start" THEN 1 ELSE 0)]
      /\ UNCHANGED <<scheduled, finished, m_fibers, m_cb, m_ctx, ft, cb_fiber>>
  BY <1>1, <1>2 DEF RunFiber, EnterFiber, locals
<1>5. started \in [Tasks -> Nat] /\ m_state \in [Fibers -> FiberStates]
  BY <1>0 DEF TypeInv, Types, HistoryType, FiberType
<1>6. started'[d] \in {0, 1}
  <2>1. started[d] \in {0, 1}
    BY <1>0 DEF TasksApart, OncePart
  <2> QED BY <1>2, <1>3, <1>4, <1>5, <2>1 DEF Live
<1>7. TasksApart'
  <2>1. /\ \A u \in Threads : ft'[u].cb \in {ft[u].cb, Null}
        /\ \A g \in Fibers : m_cb'[g] \in {m_cb[g], Null}
    BY <1>4
  <2>2. \A c \in Tasks : c # d =>
          started'[c] = started[c] /\ (c \in finished' => c \in finished)
    BY <1>4, <1>5
  <2>3. KeepsFunctions
    BY <1>4, SameQueue
  <2> QED BY <1>0, <1>2, <1>4, <1>6, <2>1, <2>2, <2>3, ApartShrinks
<1>8. TasksLive'
  <2>1. \A u \in Threads : pc'[u] = IF u = t THEN "exec" ELSE pc[u]
    BY <1>0, <1>4, PcFacts
  <2>2. LiveHand(t)'
    <3>1. Cur(t)' = f
      BY <1>1, <1>4 DEF Cur
    <3> QED BY <1>3, <1>4, <2>1, <3>1 DEF LiveHand, Live
  <2>3. /\ \A i \in 1..Len(m_fibers) : m_fibers[i].fiber # f
        /\ \A u \in Threads : u # t => ft[u].fiber # f /\ cb_fiber[u] # f
    BY <1>1, CurIsOwn
  <2>4. \A g \in Fibers \ {f} :
          /\ m_state'[g] = m_state[g] /\ m_cb'[g] = m_cb[g] /\ m_ctx'[g] = m_ctx[g]
          /\ m_cb[g] # Null => /\ started'[m_cb[g]] = started[m_cb[g]]
                               /\ m_cb[g] \in finished' => m_cb[g] \in finished
    BY <1>0, <1>2, <1>4, <1>5, BoundOnce, TaskShapes
  <2>5. \A u \in Threads \ {t} :
          /\ pc'[u] = pc[u] \/ pc'[u] = "pick"
          /\ ft'[u] = ft[u] /\ cb_fiber'[u] = cb_fiber[u]
    BY <1>4, <2>1
  <2>6. \A i \in 1..Len(m_fibers'), g \in Fibers :
          m_fibers'[i].fiber = g =>
            (\E j \in 1..Len(m_fibers) : m_fibers[j].fiber = g) \/ Live(g)'
    BY <1>4
  <2>7. f \in Fibers \cup {Null}
    OBVIOUS
  <2> HIDE DEF Threads
  <2> QED BY <2>2, <2>3, <2>4, <2>5, <2>6, <2>7, LiveElse
<1> QED BY <1>7, <1>8 DEF TaskInv

(* reset(cb) or new Fiber(cb), and swapIn(): the function moves from the   *)
(* entry to the fiber and is entered for the first time.                   *)
LEMMA TaskCalled ==
  ASSUME FiberInv, TaskInv, NEW t \in Threads, RunCb(t)
  PROVE  TaskInv'
<1>0. TypeInv /\ Exclusive /\ Phases /\ TasksApart /\ TasksLive
  BY DEF FiberInv, TaskInv
<1>1. PICK c \in Tasks : c = ft[t].cb /\ c \in scheduled
  BY <1>0, TaskShapes DEF RunCb, TypeInv, Hands, GoodEntry
<1>2. PICK f \in Fibers :
        /\ IF cb_fiber[t] # Null THEN f = cb_fiber[t] ELSE m_state[f] = "FREE"
        /\ cb_fiber' = [cb_fiber EXCEPT ![t] = f]
        /\ m_cb' = [m_cb EXCEPT ![f] = c]
        /\ m_ctx' = [m_ctx EXCEPT ![f] = "start"]
        /\ m_state' = [m_state EXCEPT ![f] = "EXEC"]
  BY <1>1 DEF RunCb
<1>3. /\ pc[t] = "run" /\ ft[t].fiber = Null /\ pc' = [pc EXCEPT ![t] = "exec"]
      /\ started' = [started EXCEPT ![c] = @ + 1] /\ ft' = [ft EXCEPT ![t] = NoEntry]
      /\ UNCHANGED <<m_fibers, scheduled, finished>>
  BY <1>1 DEF RunCb
<1>4. /\ started \in [Tasks -> Nat] /\ m_state \in [Fibers -> FiberStates]
      /\ m_cb \in [Fibers -> Tasks \cup {Null}] /\ m_ctx \in [Fibers -> Contexts]
      /\ ft \in [Threads -> FiberAndThread] /\ cb_fiber \in [Threads -> Fibers \cup {Null}]
      /\ Null \notin Tasks /\ Null \notin Fibers /\ NoEntry.cb = Null /\ NoEntry.fiber = Null
  BY <1>0, Shapes DEF TypeInv, Types, HistoryType, FiberType, ThreadType
<1>5. Untouched(c)
  BY <1>0, <1>1 DEF TasksApart, OncePart, Unbound
<1>6. /\ \A i \in 1..Len(m_fibers) : m_fibers[i].cb # c
      /\ \A u \in Threads : u # t => ft[u].cb # c
      /\ \A g \in Fibers : m_cb[g] # c
  BY <1>0, <1>1 DEF TasksApart, Unique
<1>7. /\ \A u \in Threads : ft'[u] = IF u = t THEN NoEntry ELSE ft[u]
      /\ \A u \in Threads : cb_fiber'[u] = IF u = t THEN f ELSE cb_fiber[u]
      /\ \A g \in Fibers : /\ m_state'[g] = IF g = f THEN "EXEC" ELSE m_state[g]
                           /\ m_cb'[g] = IF g = f THEN c ELSE m_cb[g]
                           /\ m_ctx'[g] = IF g = f THEN "start" ELSE m_ctx[g]
      /\ \A d \in Tasks : started'[d] = IF d = c THEN started[c] + 1 ELSE started[d]
  BY <1>2, <1>3, <1>4
<1>8. ASSUME NEW d \in Tasks PROVE Unique(d)' /\ OncePart(d)'
  <2>1. Unique(d) /\ OncePart(d) /\ d # Null
    BY <1>0, <1>4 DEF TasksApart
  <2>2. CASE d = c
    <3>1. Unique(c)'
      BY <1>3, <1>4, <1>6, <1>7, <2>1, <2>2 DEF Unique
    <3>2. ~Unbound(c)'
      BY <1>3, <1>1, <1>4, <1>6, <1>7 DEF Unbound
    <3>3. started'[c] = 1
      BY <1>5, <1>7, <1>1 DEF Untouched
    <3> QED BY <2>2, <3>1, <3>2, <3>3 DEF OncePart
  <2>3. CASE d # c
    <3>1. /\ \A u \in Threads : ft'[u].cb = d => ft[u].cb = d
          /\ \A g \in Fibers : m_cb'[g] = d => m_cb[g] = d
      BY <1>4, <1>7, <2>1, <2>3
    <3>2. Unique(d)'
      BY <1>3, <2>1, <3>1 DEF Unique
    <3>3. Unbound(d)' => Unbound(d)
      BY <1>3, <3>1 DEF Unbound
    <3> QED BY <1>3, <1>7, <2>1, <2>3, <3>2, <3>3 DEF OncePart, Untouched
  <2> QED BY <2>2, <2>3
<1>9. TasksLive'
  <2>1. \A u \in Threads : pc'[u] = IF u = t THEN "exec" ELSE pc[u]
    BY <1>0, <1>3, PcFacts
  <2>2. LiveHand(t)'
    <3>1. Cur(t)' = f
      BY <1>4, <1>7 DEF Cur
    <3>2. m_cb'[f] \notin finished'
      BY <1>3, <1>5, <1>7 DEF Untouched
    <3> QED BY <2>1, <3>1, <3>2 DEF LiveHand
  <2>3. /\ \A i \in 1..Len(m_fibers) : m_fibers[i].fiber # f
        /\ \A u \in Threads : u # t => ft[u].fiber # f /\ cb_fiber[u] # f
    <3>1. CASE cb_fiber[t] # Null
      <4>1. f = Cur(t) /\ Cur(t) # Null
        BY <1>2, <1>3, <3>1 DEF Cur
      <4> QED BY <4>1, CurIsOwn
    <3>2. CASE cb_fiber[t] = Null
      BY <1>2, <3>2, FreeIsFresh
    <3> QED BY <3>1, <3>2
  <2>4. \A g \in Fibers \ {f} :
          /\ m_state'[g] = m_state[g] /\ m_cb'[g] = m_cb[g] /\ m_ctx'[g] = m_ctx[g]
          /\ m_cb[g] # Null => /\ started'[m_cb[g]] = started[m_cb[g]]
                               /\ m_cb[g] \in finished' => m_cb[g] \in finished
    BY <1>3, <1>4, <1>6, <1>7
  <2>5. \A u \in Threads \ {t} :
          /\ pc'[u] = pc[u] \/ pc'[u] = "pick"
          /\ ft'[u] = ft[u] /\ cb_fiber'[u] = cb_fiber[u]
    BY <1>7, <2>1
  <2>6. \A i \in 1..Len(m_fibers'), g \in Fibers :
          m_fibers'[i].fiber = g =>
            (\E j \in 1..Len(m_fibers) : m_fibers[j].fiber = g) \/ Live(g)'
    BY <1>3
  <2>7. f \in Fibers \cup {Null}
    OBVIOUS
  <2> HIDE DEF Threads
  <2> QED BY <2>2, <2>3, <2>4, <2>5, <2>6, <2>7, LiveElse
<1> QED BY <1>8, <1>9 DEF TaskInv, TasksApart

(* YieldToReady(), the return or the exception of a function, and the      *)
(* switch back to run(): only the running fiber changes.                   *)
LEMMA TaskLeaves ==
  ASSUME FiberInv, TaskInv, NEW t \in Threads,
         TaskYieldsReady(t) \/ TaskReturns(t) \/ TaskThrows(t) \/ SwapOut(t)
  PROVE  TaskInv'
<1>0. TypeInv /\ Phases /\ TasksApart /\ TasksLive
  BY DEF FiberInv, TaskInv
<1>1. pc[t] \in {"exec", "leaving", "ending"}
  BY DEF TaskYieldsReady, TaskReturns, TaskThrows, SwapOut, Leave
<1>2. PICK f \in Fibers : f = Cur(t) /\ f # Null
  BY <1>0, <1>1, Shapes
<1>3. /\ UNCHANGED <<m_fibers, ft, cb_fiber, scheduled, started>>
      /\ \A g \in Fibers \ {f} :
           m_state'[g] = m_state[g] /\ m_cb'[g] = m_cb[g] /\ m_ctx'[g] = m_ctx[g]
      /\ m_cb'[f] \in {m_cb[f], Null}
      /\ \A c \in finished' : c \in finished \/ c = m_cb[f]
  <2>0. /\ m_state \in [Fibers -> FiberStates] /\ m_cb \in [Fibers -> Tasks \cup {Null}]
        /\ m_ctx \in [Fibers -> Contexts]
    BY <1>0 DEF TypeInv, Types, FiberType
  <2>1. CASE TaskYieldsReady(t)
    BY <1>2, <2>0, <2>1 DEF TaskYieldsReady, Leave, locals
  <2>2. CASE TaskReturns(t)
    BY <1>2, <2>0, <2>2 DEF TaskReturns, Leave, Task, locals
  <2>3. CASE TaskThrows(t)
    BY <1>2, <2>0, <2>3 DEF TaskThrows, Leave, Task, locals
  <2>4. CASE SwapOut(t)
    BY <1>2, <2>0, <2>4 DEF SwapOut, locals, history
  <2> QED BY <2>1, <2>2, <2>3, <2>4
<1>4. LiveHand(t)'
  <2>0. LiveHand(t) /\ Cur(t)' = f /\ PhaseOf(t)
    BY <1>0, <1>1, <1>2, <1>3 DEF TasksLive, Cur, Phases, BusyPhase
  <2>1. CASE TaskYieldsReady(t)
    <3>1. pc[t] = "exec" /\ UNCHANGED <<m_cb, finished>> /\ pc' = [pc EXCEPT ![t] = "leaving"]
      BY <2>1 DEF TaskYieldsReady, Leave
    <3>2. pc'[t] = "leaving"
      <4>1. pc \in [Threads -> Pcs]
        BY <1>0 DEF TypeInv, Types, ThreadType
      <4> HIDE DEF Threads, Pcs
      <4> QED BY <3>1, <4>1
    <3> QED BY <1>2, <2>0, <3>1, <3>2 DEF LiveHand
  <2>2. CASE TaskReturns(t) \/ TaskThrows(t)
    <3>1. pc' = [pc EXCEPT ![t] = "ending"]
      BY <2>2 DEF TaskReturns, TaskThrows, Leave
    <3>2. pc'[t] = "ending"
      <4>1. pc \in [Threads -> Pcs]
        BY <1>0 DEF TypeInv, Types, ThreadType
      <4> HIDE DEF Threads, Pcs
      <4> QED BY <3>1, <4>1
    <3> QED BY <3>2 DEF LiveHand
  <2>3. CASE SwapOut(t)
    <3>1. /\ pc' = [pc EXCEPT ![t] = "back"] /\ UNCHANGED <<m_state, m_cb, finished>>
          /\ pc[t] \in {"leaving", "ending"}
      BY <2>3 DEF SwapOut, history
    <3>2. pc'[t] = "back"
      <4>1. pc \in [Threads -> Pcs]
        BY <1>0 DEF TypeInv, Types, ThreadType
      <4> HIDE DEF Threads, Pcs
      <4> QED BY <3>1, <4>1
    <3>3. pc[t] = "ending" => m_state[f] # "READY"
      BY <1>2, <2>0 DEF PhaseOf, Ended
    <3> QED BY <1>2, <2>0, <3>1, <3>2, <3>3 DEF LiveHand
  <2> QED BY <2>1, <2>2, <2>3
<1>5. \A u \in Threads : u # t => pc'[u] = pc[u]
  <2>1. \E v : pc' = [pc EXCEPT ![t] = v]
    BY DEF TaskYieldsReady, TaskReturns, TaskThrows, SwapOut, Leave
  <2> QED BY <1>0, <2>1, PcFacts
<1>6. TasksApart'
  <2>1. KeepsFunctions
    BY <1>3, SameQueue
  <2>2. /\ \A u \in Threads : ft'[u].cb \in {ft[u].cb, Null}
        /\ \A g \in Fibers : m_cb'[g] \in {m_cb[g], Null}
    BY <1>3
  <2>3. \A c \in Tasks : c # m_cb[f] =>
          started'[c] = started[c] /\ (c \in finished' => c \in finished)
    BY <1>3
  <2>4. m_cb[f] \in Tasks =>
          started'[m_cb[f]] \in {0, 1} /\ \E g \in Fibers : m_cb[g] = m_cb[f]
    BY <1>0, <1>3 DEF TasksApart, OncePart
  <2>5. PICK d : d = m_cb[f]
    OBVIOUS
  <2>6. /\ \A c \in Tasks : c # d =>
             started'[c] = started[c] /\ (c \in finished' => c \in finished)
        /\ d \in Tasks => started'[d] \in {0, 1} /\ \E g \in Fibers : m_cb[g] = d
    BY <2>3, <2>4, <2>5
  <2> QED BY <1>0, <1>3, <2>1, <2>2, <2>6, ApartShrinks
<1>7. TasksLive'
  <2>1. /\ \A i \in 1..Len(m_fibers) : m_fibers[i].fiber # f
        /\ \A u \in Threads : u # t => ft[u].fiber # f /\ cb_fiber[u] # f
    BY <1>2, CurIsOwn
  <2>2. \A g \in Fibers \ {f} :
          /\ m_state'[g] = m_state[g] /\ m_cb'[g] = m_cb[g] /\ m_ctx'[g] = m_ctx[g]
          /\ m_cb[g] # Null => /\ started'[m_cb[g]] = started[m_cb[g]]
                               /\ m_cb[g] \in finished' => m_cb[g] \in finished
    BY <1>0, <1>3, BoundOnce
  <2>3. \A u \in Threads \ {t} :
          /\ pc'[u] = pc[u] \/ pc'[u] = "pick"
          /\ ft'[u] = ft[u] /\ cb_fiber'[u] = cb_fiber[u]
    BY <1>3, <1>5
  <2>4. \A i \in 1..Len(m_fibers'), g \in Fibers :
          m_fibers'[i].fiber = g =>
            (\E j \in 1..Len(m_fibers) : m_fibers[j].fiber = g) \/ Live(g)'
    BY <1>3
  <2>5. f \in Fibers \cup {Null}
    OBVIOUS
  <2> HIDE DEF Threads
  <2> QED BY <1>4, <2>1, <2>2, <2>3, <2>4, <2>5, LiveElse
<1> QED BY <1>6, <1>7 DEF TaskInv

(* What run() does with the fiber that came back: one that yielded READY   *)
(* is queued again as it is, and one that ended loses its function.        *)
LEMMA TaskSettled ==
  ASSUME FiberInv, TaskInv, NEW t \in Threads, Settle(t)
  PROVE  TaskInv'
<1>0. TypeInv /\ Phases /\ TasksApart /\ TasksLive
  BY DEF FiberInv, TaskInv
<1>1. PICK f \in Fibers : f = Cur(t) /\ f # Null
  BY <1>0, Shapes DEF Settle
<1>2. /\ pc[t] = "settle" /\ pc' = [pc EXCEPT ![t] = "pick"]
      /\ m_fibers' = Requeue(f, m_state[f])
      /\ ft' = [ft EXCEPT ![t] = NoEntry]
      /\ UNCHANGED <<scheduled, started, finished>>
      /\ cb_fiber' = cb_fiber \/ cb_fiber' = [cb_fiber EXCEPT ![t] = Null]
  BY <1>1 DEF Settle, history
<1>3. /\ \A u \in Threads : pc'[u] = IF u = t THEN "pick" ELSE pc[u]
      /\ \A u \in Threads : u # t => ft'[u] = ft[u] /\ cb_fiber'[u] = cb_fiber[u]
      /\ ft'[t] = NoEntry /\ NoEntry.cb = Null
  <2>1. ft \in [Threads -> FiberAndThread] /\ cb_fiber \in [Threads -> Fibers \cup {Null}]
    BY <1>0 DEF TypeInv, Types, ThreadType
  <2>2. \A u \in Threads : pc'[u] = IF u = t THEN "pick" ELSE pc[u]
    <3>1. TypeInv /\ pc' = [pc EXCEPT ![t] = "pick"]
      BY <1>0, <1>2
    <3> QED BY <3>1, PcFacts
  <2> QED BY <1>0, <1>2, <2>1, <2>2, Shapes
<1>4. m_state[f] = "READY" => m_ctx[f] = "mid" /\ m_cb[f] \notin finished
  BY <1>0, <1>1, <1>2 DEF Phases, BusyPhase, PhaseOf, Ended, TasksLive, LiveHand
<1>5. /\ \A g \in Fibers \ {f} :
           m_state'[g] = m_state[g] /\ m_cb'[g] = m_cb[g] /\ m_ctx'[g] = m_ctx[g]
      /\ m_cb'[f] \in {m_cb[f], Null}
      /\ m_state[f] = "READY" => m_cb'[f] = m_cb[f] /\ m_ctx'[f] = m_ctx[f]
  <2>0. /\ m_state \in [Fibers -> FiberStates] /\ m_cb \in [Fibers -> Tasks \cup {Null}]
        /\ m_ctx \in [Fibers -> Contexts]
    BY <1>0 DEF TypeInv, Types, FiberType
  <2>1. \/ /\ m_state' = [m_state EXCEPT ![f] = "INIT"]
           /\ m_cb' = [m_cb EXCEPT ![f] = Null]
           /\ m_ctx' = [m_ctx EXCEPT ![f] = "start"] /\ m_state[f] # "READY"
        \/ DropFiber(f, t, m_fibers', StateAfter(m_state[f]))
    BY <1>1, <1>2 DEF Settle
  <2>2. m_state[f] = "READY" => Referenced(f, t, m_fibers')
    BY <1>4 DEF Referenced
  <2> QED BY <2>0, <2>1, <2>2 DEF DropFiber
<1>6. \A j \in 1..Len(m_fibers') :
        \/ /\ m_state[f] = "READY" /\ m_fibers'[j].cb = Null /\ m_fibers'[j].fiber = f
        \/ j \in 1..Len(m_fibers) /\ m_fibers'[j] = m_fibers[j]
  <2> DEFINE e == Entry(f, Null, AnyThread)
  <2>1. e \in FiberAndThread /\ e.fiber = f /\ e.cb = Null
    BY DEF Entry, FiberAndThread
  <2>2. m_fibers' = IF m_state[f] = "READY" THEN Append(m_fibers, e) ELSE m_fibers
    BY <1>2 DEF Requeue
  <2>3. m_fibers \in Seq(FiberAndThread) /\ Len(m_fibers) \in Nat
    BY <1>0 DEF TypeInv, Types, QueueType
  <2> HIDE DEF e
  <2> QED BY <2>1, <2>2, <2>3, AppendType
<1>7. TasksApart'
  <2>1. KeepsFunctions
    BY <1>6 DEF KeepsFunctions
  <2>2. /\ \A u \in Threads : ft'[u].cb \in {ft[u].cb, Null}
        /\ \A g \in Fibers : m_cb'[g] \in {m_cb[g], Null}
    BY <1>3, <1>5
  <2> QED BY <1>0, <1>2, <2>1, <2>2, ApartQuiet
<1>8. TasksLive'
  <2>1. /\ \A i \in 1..Len(m_fibers) : m_fibers[i].fiber # f
        /\ \A u \in Threads : u # t => ft[u].fiber # f /\ cb_fiber[u] # f
    BY <1>1, CurIsOwn
  <2>2. \A g \in Fibers \ {f} :
          /\ m_state'[g] = m_state[g] /\ m_cb'[g] = m_cb[g] /\ m_ctx'[g] = m_ctx[g]
          /\ m_cb[g] # Null => /\ started'[m_cb[g]] = started[m_cb[g]]
                               /\ m_cb[g] \in finished' => m_cb[g] \in finished
    BY <1>2, <1>5
  <2>3. \A u \in Threads \ {t} :
          /\ pc'[u] = pc[u] \/ pc'[u] = "pick"
          /\ ft'[u] = ft[u] /\ cb_fiber'[u] = cb_fiber[u]
    BY <1>3
  <2>4. m_state[f] = "READY" => Live(f)'
    BY <1>2, <1>4, <1>5 DEF Live
  <2>5. \A i \in 1..Len(m_fibers'), g \in Fibers :
          m_fibers'[i].fiber = g =>
            (\E j \in 1..Len(m_fibers) : m_fibers[j].fiber = g) \/ Live(g)'
    BY <1>6, <2>4
  <2>6. LiveHand(t)'
    BY <1>3 DEF LiveHand
  <2>7. f \in Fibers \cup {Null}
    OBVIOUS
  <2> HIDE DEF Threads
  <2> QED BY <2>1, <2>2, <2>3, <2>5, <2>6, <2>7, LiveElse
<1> QED BY <1>7, <1>8 DEF TaskInv

(* run() returns: its spare fiber has no function.                         *)
LEMMA TaskExits ==
  ASSUME FiberInv, TaskInv, NEW t \in Threads, ExitRun(t)
  PROVE  TaskInv'
<1>0. TypeInv /\ Exclusive /\ TasksApart /\ TasksLive
  BY DEF FiberInv, TaskInv
<1>1. PICK f \in Fibers \cup {Null} : f = cb_fiber[t]
  BY <1>0, Shapes
<1>2. /\ pc[t] = "nofiber" /\ pc' = [pc EXCEPT ![t] = "exited"]
      /\ cb_fiber' = [cb_fiber EXCEPT ![t] = Null]
      /\ UNCHANGED <<m_fibers, ft, scheduled, started, finished>>
  BY DEF ExitRun, history
<1>3. \A u \in Threads : /\ pc'[u] = IF u = t THEN "exited" ELSE pc[u]
                         /\ u # t => cb_fiber'[u] = cb_fiber[u]
  BY <1>0, <1>2, PcFacts DEF TypeInv, Types, ThreadType
<1>4. /\ \A g \in Fibers \ {f} :
           m_state'[g] = m_state[g] /\ m_cb'[g] = m_cb[g] /\ m_ctx'[g] = m_ctx[g]
      /\ \A g \in Fibers : m_cb'[g] \in {m_cb[g], Null}
  <2>0. /\ m_state \in [Fibers -> FiberStates] /\ m_cb \in [Fibers -> Tasks \cup {Null}]
        /\ m_ctx \in [Fibers -> Contexts]
    BY <1>0 DEF TypeInv, Types, FiberType
  <2>1. CASE f = Null
    BY <1>1, <2>1 DEF ExitRun, fibers
  <2>2. CASE f # Null
    <3>1. DropFiber(f, t, m_fibers, m_state[f])
      BY <1>1, <2>2 DEF ExitRun
    <3> QED BY <2>0, <3>1 DEF DropFiber
  <2> QED BY <2>1, <2>2
<1>5. TasksApart'
  <2>1. \A u \in Threads : ft'[u].cb \in {ft[u].cb, Null}
    BY <1>2
  <2> QED BY <1>0, <1>2, <1>4, <2>1, SameQueue, ApartQuiet
<1>6. TasksLive'
  <2>1. f # Null =>
          /\ \A i \in 1..Len(m_fibers) : m_fibers[i].fiber # f
          /\ \A u \in Threads : u # t => ft[u].fiber # f /\ cb_fiber[u] # f
    <3>1. Cur(t) = f
      BY <1>0, <1>1, <1>2, Shapes DEF Exclusive, NoneHolds, Cur
    <3> QED BY <3>1, CurIsOwn
  <2>2. \A g \in Fibers \ {f} :
          /\ m_state'[g] = m_state[g] /\ m_cb'[g] = m_cb[g] /\ m_ctx'[g] = m_ctx[g]
          /\ m_cb[g] # Null => /\ started'[m_cb[g]] = started[m_cb[g]]
                               /\ m_cb[g] \in finished' => m_cb[g] \in finished
    BY <1>2, <1>4
  <2>3. \A u \in Threads \ {t} :
          /\ pc'[u] = pc[u] \/ pc'[u] = "pick"
          /\ ft'[u] = ft[u] /\ cb_fiber'[u] = cb_fiber[u]
    BY <1>2, <1>3
  <2>4. \A i \in 1..Len(m_fibers'), g \in Fibers :
          m_fibers'[i].fiber = g =>
            (\E j \in 1..Len(m_fibers) : m_fibers[j].fiber = g) \/ Live(g)'
    BY <1>2
  <2>5. LiveHand(t)'
    BY <1>3 DEF LiveHand
  <2> HIDE DEF Threads
  <2> QED BY <2>1, <2>2, <2>3, <2>4, <2>5, LiveElse
<1> QED BY <1>5, <1>6 DEF TaskInv

(* No step breaks TaskInv, as long as no callback holds and the sections   *)
(* of m_mutex exclude each other.                                          *)
LEMMA CleanTaskInv ==
  ASSUME NoHold, FiberInv, TaskInv, CleanStep \/ UNCHANGED vars
  PROVE  TaskInv'
<1>0. /\ Exclusive /\ Pins \subseteq Threads \cup {AnyThread}
      /\ SpawnPins \subseteq Threads \cup {AnyThread}
  BY SchedulerAssumption DEF FiberInv, PoolThreads
<1>1. CASE UNCHANGED vars
  <2>1. /\ UNCHANGED <<m_fibers, ft, cb_fiber, m_state, m_cb, m_ctx, history>>
        /\ \A u \in Threads : pc'[u] = pc[u]
    BY <1>1 DEF vars, fibers, locals
  <2> QED BY <2>1, TaskQuiet
<1>2. CASE OwnerSchedules
  <2>1. PICK c \in Tasks, th \in Pins :
          OwnerSchedulesCb(c, th) \/ \E f \in Fibers : OwnerSchedulesFiber(c, f, th)
    BY <1>2 DEF OwnerSchedules
  <2>2. th \in Threads \cup {AnyThread}
    BY <1>0
  <2>3. CASE OwnerSchedulesCb(c, th)
    <3>1. /\ c \notin scheduled /\ m_fibers' = Append(m_fibers, Entry(Null, c, th))
          /\ scheduled' = scheduled \cup {c}
          /\ UNCHANGED <<ft, cb_fiber, pc, m_state, m_cb, m_ctx, started, finished>>
      BY <2>3 DEF OwnerSchedulesCb, fibers, locals
    <3> QED BY <2>2, <3>1, TaskScheduleCb
  <2> QED BY <2>1, <2>2, <2>3, TaskScheduleFiber
<1>3. CASE Start \/ StartReturns \/ OwnerStops
  BY <1>3, TaskOwner
<1>4. CASE \E f \in Fibers : Wake(f)
  BY <1>0, <1>4 DEF Wake, Exclusive, NoneHolds
<1>5. ASSUME NEW t \in Threads, Run(t) PROVE TaskInv'
  <2>1. ASSUME NEW c \in Tasks, NEW th \in SpawnPins, TaskSpawns(t, c, th) PROVE TaskInv'
    <3>1. /\ c \notin scheduled /\ m_fibers' = Append(m_fibers, Entry(Null, c, th))
          /\ scheduled' = scheduled \cup {c}
          /\ UNCHANGED <<ft, cb_fiber, pc, m_state, m_cb, m_ctx, started, finished>>
      BY <2>1 DEF TaskSpawns, fibers, locals
    <3>2. th \in Threads \cup {AnyThread}
      BY <1>0
    <3> QED BY <3>1, <3>2, TaskScheduleCb
  <2>2. ~TaskRegisters(t) /\ ~TaskYieldsHold(t)
    BY <1>0 DEF TaskRegisters, NoHold, TaskYieldsHold, Leave, Exclusive, NoneHolds
  <2>3. CASE PickTask(t) \/ RunFiber(t) \/ RunCb(t) \/ Settle(t) \/ ExitRun(t)
    BY <2>3, TaskPicked, TaskEntered, TaskCalled, TaskSettled, TaskExits
  <2>4. CASE TaskYieldsReady(t) \/ TaskReturns(t) \/ TaskThrows(t) \/ SwapOut(t)
    BY <2>4, TaskLeaves
  <2>5. CASE PickNothing(t) \/ EnterIdle(t) \/ Idle(t) \/ LeaveIdle(t) \/ CountDown(t)
    BY <2>5, TaskIdle
  <2> QED BY <1>5, <2>1, <2>2, <2>3, <2>4, <2>5 DEF Run, Function
<1> QED BY <1>1, <1>2, <1>3, <1>4, <1>5 DEF CleanStep

(* A callback is entered at most once, however often its fiber yields, in  *)
(* every pool whose callbacks do not hold, until two sections of m_mutex   *)
(* overlap: schedule(), erase() and the reuse of cb_fiber never leave two  *)
(* ways to one function.                                                   *)
THEOREM RunsOnce ==
  ASSUME NoHold PROVE Spec => [](torn \/ RunOnce)
<1> DEFINE I == FiberInv /\ TaskInv
<1>1. I => RunOnce
  BY DEF TaskInv, TasksApart, OncePart, RunOnce
<1>2. Init => I
  BY InitFiberInv, TaskInit
<1>3. (torn \/ I) /\ [Next]_vars => (torn \/ I)'
  BY Untorn, CleanFiberInv, CleanTaskInv
<1> HIDE DEF I
<1> QED BY <1>1, <1>2, <1>3, PTL DEF Spec

-----------------------------------------------------------------------------
(* The refinement of TaskPool.                                             *)

(* Thread t is executing the function of c.                                *)
On(t, c) == pc[t] \in OnFiber /\ Task(t) = c
Executes(c) == \E t \in Threads : On(t, c)
StatusOf(c) ==
  IF c \notin scheduled THEN "new"
  ELSE IF c \in finished THEN "done" ELSE IF Executes(c) THEN "running" ELSE "ready"

(* The refinement mapping, pointwise, before a step ...                    *)
LEMMA PoolStatusIs ==
  ASSUME finished \subseteq scheduled
  PROVE  PoolStatus = [c \in Tasks |-> StatusOf(c)]
<1> SUFFICES ASSUME NEW c \in Tasks
             PROVE  (CASE c \notin scheduled -> "new"
                       [] c \in finished -> "done"
                       [] OTHER -> IF \E t \in Threads : pc[t] \in OnFiber /\ Task(t) = c
                                   THEN "running" ELSE "ready") = StatusOf(c)
  BY DEF PoolStatus
<1>1. CASE c \notin scheduled
  BY <1>1 DEF StatusOf
<1> QED BY <1>1 DEF StatusOf, Executes, On

(* ... and after it.                                                       *)
LEMMA PoolStatusNext ==
  ASSUME finished' \subseteq scheduled'
  PROVE  PoolStatus' = [c \in Tasks |-> StatusOf(c)']
<1> SUFFICES ASSUME NEW c \in Tasks
             PROVE  (CASE c \notin scheduled' -> "new"
                       [] c \in finished' -> "done"
                       [] OTHER -> IF \E t \in Threads : pc'[t] \in OnFiber /\ Task(t)' = c
                                   THEN "running" ELSE "ready") = StatusOf(c)'
  BY DEF PoolStatus
<1>1. CASE c \notin scheduled'
  BY <1>1 DEF StatusOf
<1> QED BY <1>1 DEF StatusOf, Executes, On

(* A step that only moves c is a step of the pool.                         *)
LEMMA OneMoves ==
  ASSUME finished \subseteq scheduled, finished' \subseteq scheduled',
         NEW c \in Tasks, NEW from, NEW to,
         StatusOf(c) = from, StatusOf(c)' = to,
         \A d \in Tasks : d # c => StatusOf(d)' = StatusOf(d),
         ctl # "stopped", ctl' # "stopped"
  PROVE  Pool!Move(c, from, to)
<1>1. /\ PoolStatus = [d \in Tasks |-> StatusOf(d)]
      /\ PoolStatus' = [d \in Tasks |-> StatusOf(d)']
  BY PoolStatusIs, PoolStatusNext
<1>2. PoolStatus[c] = from
  BY <1>1
<1>3. PoolStatus' = [PoolStatus EXCEPT ![c] = to]
  BY <1>1
<1> QED BY <1>2, <1>3 DEF Pool!Move

(* A step that moves no task does not show.                                *)
LEMMA NoneMoves ==
  ASSUME finished \subseteq scheduled, finished' \subseteq scheduled',
         \A d \in Tasks : StatusOf(d)' = StatusOf(d),
         (ctl' = "stopped") = (ctl = "stopped")
  PROVE  UNCHANGED Pool!vars
<1>1. /\ PoolStatus = [d \in Tasks |-> StatusOf(d)]
      /\ PoolStatus' = [d \in Tasks |-> StatusOf(d)']
  BY PoolStatusIs, PoolStatusNext
<1> QED BY <1>1 DEF Pool!vars

(* A step of t that changes only the fiber f, to which no other thread     *)
(* points, leaves the tasks alone that other threads execute.              *)
LEMMA OthersOn ==
  ASSUME TypeInv, NEW t, NEW f,
         \A u \in Threads \ {t} : /\ pc'[u] = pc[u] \/ (pc'[u] = "pick" /\ pc[u] \notin OnFiber)
                                  /\ ft'[u] = ft[u] /\ cb_fiber'[u] = cb_fiber[u]
                                  /\ f # Null => ft[u].fiber # f /\ cb_fiber[u] # f,
         \A g \in Fibers \ {f} : m_cb'[g] = m_cb[g]
  PROVE  \A u \in Threads \ {t}, c \in Tasks : On(u, c)' <=> On(u, c)
<1> SUFFICES ASSUME NEW u \in Threads \ {t}, NEW c \in Tasks PROVE On(u, c)' <=> On(u, c)
  OBVIOUS
<1>1. Cur(u)' = Cur(u)
  BY DEF Cur
<1>2. CASE pc[u] \in OnFiber
  <2>1. PICK g \in Fibers \ {f} : g = Cur(u)
    BY <1>2, Shapes DEF Cur
  <2>2. m_cb'[g] = m_cb[g] /\ Cur(u)' = g /\ pc'[u] = pc[u]
    BY <1>1, <1>2, <2>1
  <2> QED BY <2>1, <2>2 DEF On, Task
<1>3. CASE pc[u] \notin OnFiber
  <2>1. pc'[u] \notin OnFiber
    BY <1>3
  <2> QED BY <1>3, <2>1 DEF On
<1> QED BY <1>2, <1>3

(* Then only t's own task may change its status.                           *)
LEMMA StatusKept ==
  ASSUME NEW t, NEW d \in Tasks,
         \A u \in Threads \ {t} : On(u, d)' <=> On(u, d),
         d \in scheduled' <=> d \in scheduled, d \in finished' <=> d \in finished,
         t \in Threads /\ d \notin finished => (On(t, d)' <=> On(t, d))
  PROVE  StatusOf(d)' = StatusOf(d)
BY DEF StatusOf, Executes

(* A thread that steps in run() finds the pool open.                       *)
LEMMA OpenWhileRunning ==
  ASSUME TypeInv, Service, NEW t \in Threads, Run(t)
  PROVE  /\ ctl # "stopped" /\ ctl' = ctl /\ t \in PoolThreads
         /\ \A u \in Threads : u # t => pc'[u] = pc[u]
<1>1. /\ pc[t] \notin {"off", "exited"} /\ ctl' = ctl
      /\ \A u \in Threads : u # t => pc'[u] = pc[u]
  BY RunMoves
<1>2. OwnerSteps /\ ThreadSteps
  BY DEF Service
<1> QED BY <1>1, <1>2 DEF OwnerSteps, ThreadSteps

(* While t executes nothing, fewer tasks run than the pool has threads.    *)
LEMMA RoomForOne ==
  ASSUME TypeInv, Service, NEW t \in PoolThreads, pc[t] \notin OnFiber
  PROVE  Cardinality(Pool!Running) < Cardinality(PoolThreads)
<1> DEFINE R == Pool!Running
           P == PoolThreads \ {t}
           h == [c \in R |-> CHOOSE u \in P : On(u, c)]
<1>1. ASSUME NEW c \in R PROVE c \in Tasks /\ \E u \in P : On(u, c)
  <2>1. c \in Tasks /\ PoolStatus[c] = "running"
    BY <1>1 DEF Pool!Running
  <2>2. Executes(c)
    BY <2>1, PoolStatusIs, TaskShapes DEF StatusOf
  <2>3. PICK u \in Threads : On(u, c)
    BY <2>2 DEF Executes
  <2>4. u \in PoolThreads /\ u # t
    BY <2>3 DEF On, Service, ThreadSteps
  <2> QED BY <2>1, <2>3, <2>4
<1>2. \A c \in R : h[c] \in P /\ On(h[c], c)
  BY <1>1
<1>3. h \in Injection(R, P)
  <2>1. h \in [R -> P]
    BY <1>2
  <2>2. \A c, d \in R : h[c] = h[d] => c = d
    BY <1>2 DEF On
  <2> HIDE DEF h
  <2> QED BY <2>1, <2>2 DEF Injection, IsInjective
<1>4. IsFiniteSet(PoolThreads)
  <2>1. IsFiniteSet({Root}) /\ IsFiniteSet({})
    BY FS_Singleton, FS_EmptySet
  <2> QED BY <2>1, FS_Union, SchedulerAssumption DEF PoolThreads
<1>5. /\ IsFiniteSet(P) /\ Cardinality(P) = Cardinality(PoolThreads) - 1
      /\ Cardinality(PoolThreads) \in Nat
  BY <1>4, FS_RemoveElement, FS_CardinalityType
<1> HIDE DEF h, R, P
<1>6. Cardinality(R) <= Cardinality(P) /\ IsFiniteSet(R)
  BY <1>3, <1>5, FS_Injection
<1>7. Cardinality(R) \in Nat
  BY <1>6, FS_CardinalityType
<1>8. Cardinality(R) < Cardinality(PoolThreads)
  BY <1>5, <1>6, <1>7
<1> QED BY <1>8 DEF R

(* A task whose function no fiber has is not executed.                     *)
LEMMA UnboundIdle ==
  ASSUME TypeInv, NEW c \in Tasks, \A g \in Fibers : m_cb[g] # c
  PROVE  ~Executes(c)
<1>1. \A u \in Threads : pc[u] \in OnFiber => Cur(u) \in Fibers
  BY Shapes
<1> QED BY <1>1 DEF Executes, On, Task

(* schedule() submits a task: of a function, or of a fiber f that is new.  *)
LEMMA StepSubmits ==
  ASSUME FiberInv, TypeInv', NEW c \in Tasks, NEW f, c \notin scheduled,
         scheduled' = scheduled \cup {c},
         UNCHANGED <<pc, ft, cb_fiber, finished, ctl>>, ctl # "stopped",
         f # Null => \A u \in Threads : ft[u].fiber # f /\ cb_fiber[u] # f,
         \A g \in Fibers \ {f} : m_cb'[g] = m_cb[g]
  PROVE  Pool!Submit(c)
<1>0. TypeInv
  BY DEF FiberInv
<1>1. finished \subseteq scheduled /\ finished' \subseteq scheduled'
  BY <1>0 DEF TypeInv, Types, HistoryType
<1>2. AnyThread \notin Threads
  BY SchedulerAssumption
<1>3. \A u \in Threads \ {AnyThread}, d \in Tasks : On(u, d)' <=> On(u, d)
  <2>1. \A u \in Threads \ {AnyThread} :
          /\ pc'[u] = pc[u] \/ (pc'[u] = "pick" /\ pc[u] \notin OnFiber)
          /\ ft'[u] = ft[u] /\ cb_fiber'[u] = cb_fiber[u]
          /\ f # Null => ft[u].fiber # f /\ cb_fiber[u] # f
    OBVIOUS
  <2> HIDE DEF Threads, OnFiber
  <2> QED BY <1>0, <2>1, OthersOn
<1>4. ASSUME NEW d \in Tasks PROVE Executes(d)' <=> Executes(d)
  BY <1>2, <1>3 DEF Executes
<1>5. ~Executes(c)
  BY <1>0, TaskShapes, UnboundIdle
<1>6. StatusOf(c) = "new" /\ StatusOf(c)' = "ready"
  BY <1>1, <1>4, <1>5 DEF StatusOf
<1>7. \A d \in Tasks : d # c => StatusOf(d)' = StatusOf(d)
  BY <1>4 DEF StatusOf
<1>8. Pool!Move(c, "new", "ready")
  BY <1>1, <1>6, <1>7, OneMoves
<1> QED BY <1>8 DEF Pool!Submit

(* swapIn() begins a task, or takes it up again.                           *)
LEMMA StepBegins ==
  ASSUME FiberInv, Service, TaskInv, TypeInv', NEW t \in Threads, RunFiber(t) \/ RunCb(t)
  PROVE  \E c \in Tasks : Pool!Begin(c)
<1>0. TypeInv /\ TypeInv' /\ Phases /\ TasksApart /\ TasksLive
  BY DEF FiberInv, TaskInv
<1>1. finished \subseteq scheduled /\ finished' \subseteq scheduled'
  BY <1>0 DEF TypeInv, Types, HistoryType
<1>2. /\ ctl # "stopped" /\ ctl' = ctl /\ t \in PoolThreads
      /\ \A u \in Threads : u # t => pc'[u] = pc[u]
  BY <1>0, OpenWhileRunning DEF Run
<1>3. pc[t] = "run" /\ pc' = [pc EXCEPT ![t] = "exec"] /\ UNCHANGED <<scheduled, finished>>
  BY DEF RunFiber, EnterFiber, RunCb
<1>4. pc'[t] = "exec"
  <2>1. pc \in [Threads -> Pcs]
    BY <1>0 DEF TypeInv, Types, ThreadType
  <2> HIDE DEF Threads, Pcs
  <2> QED BY <1>3, <2>1
<1>5. \E f \in Fibers, c \in Tasks :
        /\ c \in scheduled \ finished /\ Cur(t)' = f /\ m_cb'[f] = c
        /\ \A g \in Fibers \ {f} : m_cb'[g] = m_cb[g] /\ m_cb[g] # c
        /\ \A u \in Threads \ {t} : /\ ft'[u] = ft[u] /\ cb_fiber'[u] = cb_fiber[u]
                                    /\ ft[u].fiber # f /\ cb_fiber[u] # f
  <2>1. CASE RunFiber(t)
    <3>1. PICK f \in Fibers : f = ft[t].fiber /\ f # Null /\ Cur(t) = f
      BY <1>0, <2>1, Shapes DEF RunFiber, Cur
    <3>2. PICK c \in Tasks : c = m_cb[f] /\ c \in scheduled
      <4>1. m_cb[f] # Null
        BY <1>0, <2>1, <3>1 DEF RunFiber, Phases, PickedRunnable, Runnable
      <4> QED BY <1>0, <4>1, TaskShapes
    <3>3. c \notin finished
      BY <1>0, <1>3, <3>1, <3>2 DEF TasksLive, LiveHand, Live
    <3>4. UNCHANGED <<m_cb, ft, cb_fiber>> /\ Cur(t)' = f
      BY <2>1, <3>1 DEF RunFiber, locals, Cur
    <3>5. \A g \in Fibers \ {f} : m_cb[g] # c
      BY <1>0, <3>2 DEF TasksApart, Unique
    <3>6. \A u \in Threads : u # t => ft[u].fiber # f /\ cb_fiber[u] # f
      BY <3>1, CurIsOwn
    <3> QED BY <3>2, <3>3, <3>4, <3>5, <3>6
  <2>2. CASE RunCb(t)
    <3>1. PICK c \in Tasks : c = ft[t].cb /\ c \in scheduled
      BY <1>0, <2>2, TaskShapes DEF RunCb, TypeInv, Hands, GoodEntry
    <3>2. PICK f \in Fibers :
            /\ IF cb_fiber[t] # Null THEN f = cb_fiber[t] ELSE m_state[f] = "FREE"
            /\ cb_fiber' = [cb_fiber EXCEPT ![t] = f]
            /\ m_cb' = [m_cb EXCEPT ![f] = c]
      BY <2>2, <3>1 DEF RunCb
    <3>3. ft' = [ft EXCEPT ![t] = NoEntry] /\ ft[t].fiber = Null
      BY <2>2 DEF RunCb
    <3>4. /\ m_cb \in [Fibers -> Tasks \cup {Null}]
          /\ ft \in [Threads -> FiberAndThread] /\ cb_fiber \in [Threads -> Fibers \cup {Null}]
          /\ NoEntry.fiber = Null
      BY <1>0, Shapes DEF TypeInv, Types, FiberType, ThreadType
    <3>5. c \notin finished /\ \A g \in Fibers : m_cb[g] # c
      BY <1>0, <3>1 DEF TasksApart, Unique, OncePart, Unbound, Untouched
    <3>6. \A u \in Threads : u # t => ft[u].fiber # f /\ cb_fiber[u] # f
      <4>1. CASE cb_fiber[t] # Null
        <5>1. f = Cur(t) /\ Cur(t) # Null
          BY <3>2, <3>3, <4>1 DEF Cur
        <5> QED BY <5>1, CurIsOwn
      <4>2. CASE cb_fiber[t] = Null
        BY <3>2, <4>2, FreeIsFresh
      <4> QED BY <4>1, <4>2
    <3>7. Cur(t)' = f /\ m_cb'[f] = c
      BY <3>2, <3>3, <3>4 DEF Cur
    <3>8. \A u \in Threads \ {t} : ft'[u] = ft[u] /\ cb_fiber'[u] = cb_fiber[u]
      BY <3>2, <3>3, <3>4
    <3>9. \A g \in Fibers \ {f} : m_cb'[g] = m_cb[g]
      BY <3>2, <3>4
    <3> QED BY <3>1, <3>5, <3>6, <3>7, <3>8, <3>9
  <2> QED BY <2>1, <2>2
<1>6. PICK f \in Fibers : \E c \in Tasks :
        /\ c \in scheduled \ finished /\ Cur(t)' = f /\ m_cb'[f] = c
        /\ \A g \in Fibers \ {f} : m_cb'[g] = m_cb[g] /\ m_cb[g] # c
        /\ \A u \in Threads \ {t} : /\ ft'[u] = ft[u] /\ cb_fiber'[u] = cb_fiber[u]
                                    /\ ft[u].fiber # f /\ cb_fiber[u] # f
  BY <1>5
<1>7. PICK c \in Tasks :
        /\ c \in scheduled \ finished /\ Cur(t)' = f /\ m_cb'[f] = c
        /\ \A g \in Fibers \ {f} : m_cb'[g] = m_cb[g] /\ m_cb[g] # c
        /\ \A u \in Threads \ {t} : /\ ft'[u] = ft[u] /\ cb_fiber'[u] = cb_fiber[u]
                                    /\ ft[u].fiber # f /\ cb_fiber[u] # f
  BY <1>6
<1>8. \A u \in Threads \ {t}, d \in Tasks : On(u, d)' <=> On(u, d)
  <2>1. \A u \in Threads \ {t} :
          /\ pc'[u] = pc[u] \/ (pc'[u] = "pick" /\ pc[u] \notin OnFiber)
          /\ ft'[u] = ft[u] /\ cb_fiber'[u] = cb_fiber[u]
          /\ ft[u].fiber # f /\ cb_fiber[u] # f
    BY <1>2, <1>7
  <2>2. \A g \in Fibers \ {f} : m_cb'[g] = m_cb[g]
    BY <1>7
  <2> HIDE DEF Threads, OnFiber
  <2> QED BY <1>0, <2>1, <2>2, OthersOn
<1>9. ~Executes(c)
  <2>1. \A u \in Threads : pc[u] \in OnFiber => u # t /\ Cur(u) \in Fibers \ {f}
    BY <1>0, <1>3, <1>7, Shapes DEF Cur
  <2> QED BY <1>7, <2>1 DEF Executes, On, Task
<1>10. On(t, c)' /\ \A d \in Tasks : d # c => ~On(t, d)' /\ ~On(t, d)
  BY <1>3, <1>4, <1>7 DEF On, Task
<1>11. StatusOf(c) = "ready" /\ StatusOf(c)' = "running"
  BY <1>3, <1>7, <1>9, <1>10 DEF StatusOf, Executes
<1>12. \A d \in Tasks : d # c => StatusOf(d)' = StatusOf(d)
  BY <1>3, <1>8, <1>10, StatusKept
<1>13. Pool!Move(c, "ready", "running")
  BY <1>1, <1>2, <1>11, <1>12, OneMoves
<1>14. Cardinality(Pool!Running) < Cardinality(PoolThreads)
  BY <1>0, <1>2, <1>3, RoomForOne
<1>15. Pool!Cardinality(Pool!Running) = Cardinality(Pool!Running)
  BY DEF Pool!Cardinality, Cardinality, Pool!IsFiniteSet, IsFiniteSet
<1>16. Pool!Begin(c)
  BY <1>13, <1>14, <1>15 DEF Pool!Begin
<1> QED BY <1>16

(* The end of a function finishes its task, and the switch back to run()   *)
(* of a fiber that yielded suspends it.                                    *)
LEMMA StepEnds ==
  ASSUME FiberInv, Service, TaskInv, TypeInv', NEW t \in Threads,
         TaskReturns(t) \/ TaskThrows(t) \/ SwapOut(t)
  PROVE  \/ \E c \in Tasks : Pool!Suspend(c) \/ Pool!Finish(c)
         \/ UNCHANGED Pool!vars
<1>0. TypeInv /\ TypeInv' /\ Phases /\ TasksApart /\ TasksLive
  BY DEF FiberInv, TaskInv
<1>1. finished \subseteq scheduled /\ finished' \subseteq scheduled'
  BY <1>0 DEF TypeInv, Types, HistoryType
<1>2. ctl # "stopped" /\ ctl' = ctl /\ \A u \in Threads : u # t => pc'[u] = pc[u]
  BY <1>0, OpenWhileRunning DEF Run, Function
<1>3. pc[t] \in {"exec", "leaving", "ending"} /\ UNCHANGED <<ft, cb_fiber, scheduled>>
  BY DEF TaskReturns, TaskThrows, SwapOut, Leave, locals, history
<1>4. PICK f \in Fibers : f = Cur(t) /\ f # Null /\ Cur(t)' = f
  BY <1>0, <1>3, Shapes DEF Cur
<1>5. /\ \A g \in Fibers \ {f} : m_cb'[g] = m_cb[g] /\ (m_cb[g] # Null => m_cb[g] # m_cb[f])
      /\ \A u \in Threads : u # t => ft[u].fiber # f /\ cb_fiber[u] # f
  <2>1. \A g \in Fibers \ {f} : m_cb'[g] = m_cb[g]
    BY <1>0, <1>4 DEF TaskReturns, TaskThrows, SwapOut, TypeInv, Types, FiberType
  <2> QED BY <1>0, <1>4, <2>1, BoundOnce, CurIsOwn
<1>6. \A u \in Threads \ {t}, d \in Tasks : On(u, d)' <=> On(u, d)
  <2>1. \A u \in Threads \ {t} :
          /\ pc'[u] = pc[u] \/ (pc'[u] = "pick" /\ pc[u] \notin OnFiber)
          /\ ft'[u] = ft[u] /\ cb_fiber'[u] = cb_fiber[u]
          /\ ft[u].fiber # f /\ cb_fiber[u] # f
    BY <1>2, <1>3, <1>5
  <2>2. \A g \in Fibers \ {f} : m_cb'[g] = m_cb[g]
    BY <1>5
  <2> HIDE DEF Threads, OnFiber
  <2> QED BY <1>0, <2>1, <2>2, OthersOn
<1>7. PhaseOf(t) /\ LiveHand(t)
  BY <1>0, <1>3 DEF Phases, BusyPhase, TasksLive
<1>8. ASSUME pc[t] # "ending"
      PROVE  \E c \in Tasks : /\ c = m_cb[f] /\ c \in scheduled \ finished /\ On(t, c)
                              /\ \A d \in Tasks : d # c => ~On(t, d)
                              /\ \A u \in Threads \ {t} : ~On(u, c)
  <2>1. PICK c \in Tasks : c = m_cb[f] /\ c \in scheduled /\ c # Null
    BY <1>0, <1>3, <1>4, <1>7, <1>8, TaskShapes DEF PhaseOf
  <2>2. c \notin finished
    BY <1>3, <1>4, <1>7, <1>8, <2>1 DEF LiveHand
  <2>3. On(t, c) /\ \A d \in Tasks : d # c => ~On(t, d)
    BY <1>3, <1>4, <2>1 DEF On, Task
  <2>4. ASSUME NEW u \in Threads \ {t} PROVE ~On(u, c)
    <3>1. pc[u] \in OnFiber => Cur(u) \in Fibers \ {f}
      BY <1>0, <1>5, Shapes DEF Cur
    <3> QED BY <1>5, <2>1, <3>1 DEF On, Task
  <2> QED BY <2>1, <2>2, <2>3, <2>4
<1>9. CASE TaskReturns(t) \/ TaskThrows(t)
  <2>1. pc[t] = "exec" /\ finished' \ {Null} = (finished \cup {m_cb[f]}) \ {Null}
        /\ m_cb'[f] \in {m_cb[f], Null}
    BY <1>0, <1>4, <1>9 DEF TaskReturns, TaskThrows, Leave, Task, TypeInv, Types, FiberType
  <2>2. PICK c \in Tasks : /\ c = m_cb[f] /\ c \in scheduled \ finished /\ On(t, c)
                           /\ \A d \in Tasks : d # c => ~On(t, d)
    BY <1>8, <2>1
  <2>3. c # Null /\ Null \notin Tasks
    BY <1>0, TaskShapes
  <2>4. StatusOf(c) = "running" /\ StatusOf(c)' = "done"
    BY <1>3, <2>1, <2>2, <2>3 DEF StatusOf, Executes
  <2>5. ASSUME NEW d \in Tasks, d # c PROVE StatusOf(d)' = StatusOf(d)
    <3>1. ~On(t, d) /\ ~On(t, d)'
      BY <1>4, <2>1, <2>2, <2>3, <2>5 DEF On, Task
    <3>2. d \in finished' <=> d \in finished
      BY <2>1, <2>2, <2>3, <2>5
    <3> QED BY <1>3, <1>6, <3>1, <3>2, StatusKept
  <2>6. Pool!Move(c, "running", "done")
    BY <1>1, <1>2, <2>4, <2>5, OneMoves
  <2> QED BY <2>6 DEF Pool!Finish
<1>10. CASE SwapOut(t)
  <2>1. /\ pc[t] \in {"leaving", "ending"} /\ pc' = [pc EXCEPT ![t] = "back"]
        /\ UNCHANGED <<finished, m_cb>>
    BY <1>10 DEF SwapOut, history
  <2>2. pc'[t] = "back"
    <3>1. pc \in [Threads -> Pcs]
      BY <1>0 DEF TypeInv, Types, ThreadType
    <3> HIDE DEF Threads, Pcs
    <3> QED BY <2>1, <3>1
  <2>3. \A d \in Tasks : ~On(t, d)'
    BY <2>2 DEF On
  <2>4. CASE pc[t] = "leaving"
    <3>1. PICK c \in Tasks : /\ c = m_cb[f] /\ c \in scheduled \ finished /\ On(t, c)
                             /\ \A d \in Tasks : d # c => ~On(t, d)
                             /\ \A u \in Threads \ {t} : ~On(u, c)
      BY <1>8, <2>4
    <3>2. StatusOf(c) = "running" /\ StatusOf(c)' = "ready"
      BY <1>3, <1>6, <2>1, <2>3, <3>1 DEF StatusOf, Executes
    <3>3. \A d \in Tasks : d # c => StatusOf(d)' = StatusOf(d)
      BY <1>3, <1>6, <2>1, <2>3, <3>1, StatusKept
    <3>4. Pool!Move(c, "running", "ready")
      BY <1>1, <1>2, <3>2, <3>3, OneMoves
    <3> QED BY <3>4 DEF Pool!Suspend
  <2>5. CASE pc[t] = "ending"
    <3>1. m_cb[f] \in finished \cup {Null}
      BY <1>4, <1>7, <2>5 DEF PhaseOf, Ended
    <3>2. \A d \in Tasks : d \notin finished => ~On(t, d)
      BY <1>0, <1>4, <3>1, TaskShapes DEF On, Task
    <3>3. \A d \in Tasks : StatusOf(d)' = StatusOf(d)
      BY <1>3, <1>6, <2>1, <2>3, <3>2, StatusKept
    <3> QED BY <1>1, <1>2, <3>3, NoneMoves
  <2> QED BY <2>1, <2>4, <2>5
<1> QED BY <1>9, <1>10

(* What run() does besides does not show: taking entries, settling fibers, *)
(* idling, and the store of READY before the fiber is left.                *)
LEMMA StepHidden ==
  ASSUME FiberInv, Service, TypeInv', NEW t \in Threads,
         \/ PickTask(t) \/ PickNothing(t) \/ CountDown(t) \/ Settle(t) \/ EnterIdle(t)
         \/ Idle(t) \/ LeaveIdle(t) \/ ExitRun(t) \/ TaskYieldsReady(t)
  PROVE  UNCHANGED Pool!vars
<1>0. TypeInv /\ TypeInv' /\ Exclusive
  BY DEF FiberInv
<1>1. finished \subseteq scheduled /\ finished' \subseteq scheduled'
  BY <1>0 DEF TypeInv, Types, HistoryType
<1>2. ctl # "stopped" /\ ctl' = ctl /\ \A u \in Threads : u # t => pc'[u] = pc[u]
  BY <1>0, OpenWhileRunning DEF Run, Function
<1>3. UNCHANGED <<scheduled, finished>>
  BY DEF PickTask, PickNothing, CountDown, Settle, EnterIdle, Idle, LeaveIdle, ExitRun,
     TaskYieldsReady, Leave, history
<1>4. /\ pc \in [Threads -> Pcs] /\ ft \in [Threads -> FiberAndThread]
      /\ cb_fiber \in [Threads -> Fibers \cup {Null}] /\ m_cb \in [Fibers -> Tasks \cup {Null}]
  BY <1>0 DEF TypeInv, Types, ThreadType, FiberType
<1>5. /\ \A u \in Threads : u # t => ft'[u] = ft[u] /\ cb_fiber'[u] = cb_fiber[u]
      /\ \A g \in Fibers \ {Cur(t)} : m_cb'[g] = m_cb[g]
  <2>1. CASE PickTask(t)
    <3>1. UNCHANGED <<cb_fiber, m_cb>> /\ \E e : ft' = [ft EXCEPT ![t] = e]
      BY <2>1 DEF PickTask, fibers
    <3> QED BY <1>4, <3>1
  <2>2. CASE PickNothing(t)
    BY <1>4, <2>2 DEF PickNothing, fibers
  <2>3. CASE \/ CountDown(t) \/ EnterIdle(t) \/ Idle(t) \/ LeaveIdle(t) \/ TaskYieldsReady(t)
    BY <2>3 DEF CountDown, EnterIdle, Idle, LeaveIdle, TaskYieldsReady, Leave, locals, fibers
  <2>4. CASE Settle(t)
    <3>1. /\ ft' = [ft EXCEPT ![t] = NoEntry]
          /\ cb_fiber' = cb_fiber \/ cb_fiber' = [cb_fiber EXCEPT ![t] = Null]
      BY <2>4 DEF Settle
    <3>2. m_cb' = m_cb \/ m_cb' = [m_cb EXCEPT ![Cur(t)] = Null]
      BY <2>4 DEF Settle, DropFiber
    <3> HIDE DEF Threads
    <3> QED BY <1>4, <3>1, <3>2
  <2>5. CASE ExitRun(t)
    <3>1. UNCHANGED ft /\ cb_fiber' = [cb_fiber EXCEPT ![t] = Null]
      BY <2>5 DEF ExitRun
    <3>2. Cur(t) = cb_fiber[t]
      BY <1>0, <2>5, Shapes DEF ExitRun, Exclusive, NoneHolds, Cur
    <3>3. m_cb' = m_cb \/ m_cb' = [m_cb EXCEPT ![Cur(t)] = Null]
      BY <2>5, <3>2 DEF ExitRun, DropFiber, fibers
    <3> HIDE DEF Threads
    <3> QED BY <1>4, <3>1, <3>3
  <2> QED BY <2>1, <2>2, <2>3, <2>4, <2>5
<1>6. \A u \in Threads \ {t}, d \in Tasks : On(u, d)' <=> On(u, d)
  <2>1. PICK f : f = Cur(t)
    OBVIOUS
  <2>2. \A u \in Threads \ {t} :
          /\ pc'[u] = pc[u] \/ (pc'[u] = "pick" /\ pc[u] \notin OnFiber)
          /\ ft'[u] = ft[u] /\ cb_fiber'[u] = cb_fiber[u]
          /\ f # Null => ft[u].fiber # f /\ cb_fiber[u] # f
    BY <1>2, <1>5, <2>1, CurIsOwn
  <2>3. \A g \in Fibers \ {f} : m_cb'[g] = m_cb[g]
    BY <1>5, <2>1
  <2> HIDE DEF Threads, OnFiber
  <2> QED BY <1>0, <2>2, <2>3, OthersOn
<1>7. \A d \in Tasks : On(t, d)' <=> On(t, d)
  <2>1. CASE TaskYieldsReady(t)
    <3>1. /\ pc[t] = "exec" /\ pc' = [pc EXCEPT ![t] = "leaving"]
          /\ UNCHANGED <<m_cb, ft, cb_fiber>>
      BY <2>1 DEF TaskYieldsReady, Leave, locals
    <3>2. pc'[t] = "leaving" /\ Task(t)' = Task(t)
      BY <1>4, <3>1 DEF Task, Cur
    <3> QED BY <3>1, <3>2 DEF On
  <2>2. CASE ~TaskYieldsReady(t)
    <3>1. \E v \in Pcs \ OnFiber : pc' = [pc EXCEPT ![t] = v]
      BY <2>2 DEF PickTask, PickNothing, CountDown, Settle, EnterIdle, Idle, LeaveIdle, ExitRun
    <3>2. pc[t] \notin OnFiber
      BY <2>2 DEF PickTask, PickNothing, CountDown, Settle, EnterIdle, Idle, LeaveIdle, ExitRun
    <3>3. pc'[t] \notin OnFiber
      BY <1>4, <3>1
    <3> QED BY <3>2, <3>3 DEF On
  <2> QED BY <2>1, <2>2
<1>8. \A d \in Tasks : StatusOf(d)' = StatusOf(d)
  BY <1>3, <1>6, <1>7, StatusKept
<1> QED BY <1>1, <1>2, <1>8, NoneMoves

(* start() and stop() do not show either, but for the end of stop(), which *)
(* closes the pool with everything done.                                   *)
LEMMA StepCloses ==
  ASSUME FiberInv, StopDrains', ~torn', TypeInv',
         Start \/ StartReturns \/ OwnerStops
  PROVE  Pool!Close \/ UNCHANGED Pool!vars
<1>0. TypeInv /\ TypeInv'
  BY DEF FiberInv
<1>1. finished \subseteq scheduled /\ finished' \subseteq scheduled'
  BY <1>0 DEF TypeInv, Types, HistoryType
<1>2. ctl # "stopped" /\ UNCHANGED <<ft, cb_fiber, m_cb, scheduled, finished>>
  BY DEF Start, StartReturns, OwnerStops, StopBegins, StopMarks, StopCallsRoot, StopRootBack, StopJoins,
     fibers, locals, history
<1>3. \A u \in Threads : pc'[u] = pc[u] \/ (pc'[u] = "pick" /\ pc[u] \notin OnFiber)
  <2>0. pc \in [Threads -> Pcs] /\ AllOff
    BY <1>0 DEF TypeInv, Types, ThreadType
  <2>1. CASE Start \/ StartReturns
    BY <2>0, <2>1 DEF Start, StartReturns, AllOff
  <2>2. CASE OwnerStops
    BY <2>0, <2>2 DEF OwnerStops, StopBegins, StopMarks, StopCallsRoot, StopRootBack, StopJoins
  <2> QED BY <2>1, <2>2
<1>4. \A d \in Tasks : Executes(d)' <=> Executes(d)
  <2>1. \A u \in Threads, d \in Tasks : On(u, d)' <=> On(u, d)
    BY <1>2, <1>3 DEF On, Task, Cur
  <2> QED BY <2>1 DEF Executes
<1>5. \A d \in Tasks : StatusOf(d)' = StatusOf(d)
  BY <1>2, <1>4 DEF StatusOf
<1>6. CASE ctl' = "stopped"
  <2>1. scheduled \subseteq finished
    BY <1>2, <1>6 DEF StopDrains
  <2>2. \A d \in Tasks : StatusOf(d) \in {"new", "done"}
    BY <2>1 DEF StatusOf
  <2>3. /\ PoolStatus = [d \in Tasks |-> StatusOf(d)]
        /\ PoolStatus' = [d \in Tasks |-> StatusOf(d)']
    BY <1>1, PoolStatusIs, PoolStatusNext
  <2>4. (\A d \in Tasks : PoolStatus[d] \in {"new", "done"}) /\ PoolStatus' = PoolStatus
    BY <1>5, <2>2, <2>3
  <2> QED BY <1>6, <2>4 DEF Pool!Close
<1>7. CASE ctl' # "stopped"
  BY <1>1, <1>2, <1>5, <1>7, NoneMoves
<1> QED BY <1>6, <1>7

(* Every step of a scheduler whose sections exclude each other is a step   *)
(* of the task pool, or none.                                              *)
LEMMA StepPool ==
  ASSUME NoHold, DrainInv, TaskInv, TypeInv', StopDrains', ~torn',
         CleanStep \/ UNCHANGED vars
  PROVE  [Pool!Next]_(Pool!vars)
<1>0. FiberInv /\ TypeInv /\ Exclusive /\ Service
  BY DEF DrainInv, LocatedInv, FiberInv
<1>1. CASE UNCHANGED vars
  <2>1. UNCHANGED <<pc, ft, cb_fiber, m_cb, scheduled, finished, ctl>>
    BY <1>1 DEF vars, fibers, locals, history, owner
  <2>2. finished \subseteq scheduled /\ finished' \subseteq scheduled'
    BY <1>0, <2>1 DEF TypeInv, Types, HistoryType
  <2>3. \A d \in Tasks : StatusOf(d)' = StatusOf(d)
    BY <2>1 DEF StatusOf, Executes, On, Task, Cur
  <2> QED BY <2>1, <2>2, <2>3, NoneMoves
<1>2. CASE OwnerSchedules
  <2>1. PICK c \in Tasks, th \in Pins :
          OwnerSchedulesCb(c, th) \/ \E f \in Fibers : OwnerSchedulesFiber(c, f, th)
    BY <1>2 DEF OwnerSchedules
  <2>2. /\ c \notin scheduled /\ scheduled' = scheduled \cup {c} /\ ctl # "stopped"
        /\ UNCHANGED <<pc, ft, cb_fiber, finished, ctl>>
    BY <2>1 DEF OwnerSchedulesCb, OwnerSchedulesFiber, NewFiber, locals, owner
  <2>3. \E f : /\ f # Null => \A u \in Threads : ft[u].fiber # f /\ cb_fiber[u] # f
               /\ \A g \in Fibers \ {f} : m_cb'[g] = m_cb[g]
    <3>1. CASE OwnerSchedulesCb(c, th)
      BY <3>1 DEF OwnerSchedulesCb, fibers
    <3>2. CASE \E f \in Fibers : OwnerSchedulesFiber(c, f, th)
      <4>1. PICK f \in Fibers : OwnerSchedulesFiber(c, f, th)
        BY <3>2
      <4>2. m_state[f] = "FREE" /\ m_cb' = [m_cb EXCEPT ![f] = c]
        BY <4>1 DEF OwnerSchedulesFiber, NewFiber
      <4>3. \A u \in Threads : ft[u].fiber # f /\ cb_fiber[u] # f
        BY <1>0, <4>2, FreeIsFresh
      <4>4. \A g \in Fibers \ {f} : m_cb'[g] = m_cb[g]
        BY <1>0, <4>2 DEF TypeInv, Types, FiberType
      <4> QED BY <4>3, <4>4
    <3> QED BY <2>1, <3>1, <3>2
  <2>4. PICK f : /\ f # Null => \A u \in Threads : ft[u].fiber # f /\ cb_fiber[u] # f
                 /\ \A g \in Fibers \ {f} : m_cb'[g] = m_cb[g]
    BY <2>3
  <2>5. Pool!Submit(c)
    BY <1>0, <2>2, <2>4, StepSubmits
  <2> QED BY <2>5 DEF Pool!Next
<1>3. CASE Start \/ StartReturns \/ OwnerStops
  BY <1>0, <1>3, StepCloses DEF Pool!Next
<1>4. CASE \E f \in Fibers : Wake(f)
  BY <1>0, <1>4 DEF Wake, Exclusive, NoneHolds
<1>5. ASSUME NEW t \in Threads, Run(t) PROVE [Pool!Next]_(Pool!vars)
  <2>1. ASSUME NEW c \in Tasks, NEW th \in SpawnPins, TaskSpawns(t, c, th)
        PROVE  Pool!Submit(c)
    <3>1. /\ c \notin scheduled /\ scheduled' = scheduled \cup {c}
          /\ UNCHANGED <<pc, ft, cb_fiber, m_cb, finished, ctl>>
      BY <2>1 DEF TaskSpawns, fibers, locals, owner
    <3>2. ctl # "stopped"
      BY <1>0, <1>5, OpenWhileRunning
    <3>3. \A g \in Fibers \ {Null} : m_cb'[g] = m_cb[g]
      BY <3>1
    <3> QED BY <1>0, <3>1, <3>2, <3>3, StepSubmits
  <2>2. ~TaskRegisters(t) /\ ~TaskYieldsHold(t)
    BY <1>0 DEF TaskRegisters, NoHold, TaskYieldsHold, Leave, Exclusive, NoneHolds
  <2>3. CASE RunFiber(t) \/ RunCb(t)
    BY <1>0, <2>3, StepBegins DEF Pool!Next
  <2>4. CASE TaskReturns(t) \/ TaskThrows(t) \/ SwapOut(t)
    BY <1>0, <2>4, StepEnds DEF Pool!Next
  <2>5. CASE \/ PickTask(t) \/ PickNothing(t) \/ CountDown(t) \/ Settle(t) \/ EnterIdle(t)
             \/ Idle(t) \/ LeaveIdle(t) \/ ExitRun(t) \/ TaskYieldsReady(t)
    BY <1>0, <2>5, StepHidden
  <2>6. CASE \E c \in Tasks, th \in SpawnPins : TaskSpawns(t, c, th)
    BY <2>1, <2>6 DEF Pool!Next
  <2> QED BY <1>5, <2>2, <2>3, <2>4, <2>5, <2>6 DEF Run, Function
<1> QED BY <1>1, <1>2, <1>3, <1>4, <1>5 DEF CleanStep

(* Fiber and Scheduler implement the task pool for every number of threads *)
(* and tasks, as long as no callback holds and tasks are spawned without a *)
(* pin, until two sections of m_mutex overlap: at most one task runs per   *)
(* thread, a task that yielded is taken up again and never after its end,  *)
(* and stop() returns with everything done.                                *)
THEOREM PoolImplemented ==
  ASSUME NoHold, NoSpawnPin PROVE Spec => ImplementsTaskPool
<1> DEFINE I == DrainInv /\ TaskInv
<1>1. Init => torn \/ I
  BY InitDrainInv, TaskInit
<1>2. ASSUME torn \/ I, [Next]_vars PROVE (torn \/ I)' /\ [torn' \/ Pool!Next]_(Pool!vars)
  <2>1. CASE torn'
    BY <2>1
  <2>2. CASE ~torn /\ ~torn' /\ (CleanStep \/ UNCHANGED vars)
    <3>1. DrainInv' /\ TaskInv'
      BY <1>2, <2>2, CleanDrainInv, CleanTaskInv DEF DrainInv, LocatedInv
    <3>2. TypeInv' /\ StopDrains'
      BY <3>1, StoppedDrained, PTL DEF DrainInv, LocatedInv, FiberInv
    <3>3. [Pool!Next]_(Pool!vars)
      BY <1>2, <2>2, <3>2, StepPool
    <3> QED BY <3>1, <3>3
  <2> QED BY <1>2, <2>1, <2>2, Untorn
<1>3. Init => Pool!Init
  <2> SUFFICES ASSUME Init PROVE Pool!Init
    OBVIOUS
  <2>1. PoolStatus = [c \in Tasks |-> StatusOf(c)]
    BY PoolStatusIs DEF Init
  <2>2. \A c \in Tasks : StatusOf(c) = "new"
    BY DEF Init, StatusOf
  <2>3. ctl # "stopped"
    BY DEF Init
  <2> QED BY <2>1, <2>2, <2>3 DEF Pool!Init
<1>4. (torn \/ I) /\ [Next]_vars => (torn \/ I)' /\ [torn' \/ Pool!Next]_(Pool!vars)
  BY <1>2
<1> HIDE DEF I
<1> QED BY <1>1, <1>3, <1>4, PTL DEF Spec, ImplementsTaskPool
=============================================================================
