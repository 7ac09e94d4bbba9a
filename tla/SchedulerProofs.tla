-------------------------- MODULE SchedulerProofs --------------------------
(* What the scheduler guarantees for every number of threads, fibers and   *)
(* tasks.  For every behaviour of the tasks: its types and the exact       *)
(* counters.  When no callback waits with YieldToHold: a fiber never runs  *)
(* on two threads, no assertion but that of ~Fiber fails, and stop()       *)
(* drains: when it returns, every task that was ever scheduled has         *)
(* finished (tasks are spawned without a pin: one for a given thread may   *)
(* be left in the queue).                                                  *)
EXTENDS Scheduler, FiniteSetTheorems, SequenceTheorems, TLAPS

-----------------------------------------------------------------------------
(* The inductive invariant behind type correctness.                        *)

(* The thread holds an entry or a fiber from PickTask to Settle.           *)
BusyPcs == OnFiber \cup {"back", "settle"}

(* An entry of the queue carries a fiber or a function, and a function     *)
(* that is bound anywhere was scheduled.                                   *)
GoodEntry(e) ==
  /\ e.fiber # Null \/ e.cb # Null
  /\ e.cb \in scheduled \cup {Null}

(* The types of what the code keeps, without the history of the race.      *)
Types == QueueType /\ OwnerType /\ CountType /\ FiberType /\ ThreadType /\ HistoryType

(* Whatever a thread works on, it has in its hands.                        *)
Hands ==
  /\ \A i \in 1..Len(m_fibers) : GoodEntry(m_fibers[i])
  /\ \A f \in Fibers : m_cb[f] \in scheduled \cup {Null}
  /\ \A t \in Threads :
       /\ ft[t].cb \in scheduled \cup {Null}
       /\ pc[t] = "run" => GoodEntry(ft[t])
       /\ pc[t] \in BusyPcs => Cur(t) # Null

(* No thread runs before start().                                          *)
AllOff == ctl = "created" => \A t \in Threads : pc[t] = "off"

TypeInv == Types /\ Hands /\ AllOff /\ ActiveCountExact /\ IdleCountExact

(* The list that a robbed thread is still looking at has good entries too. *)
RaceInv ==
  /\ RaceType
  /\ \A i \in 1..Len(robbed.queue) : GoodEntry(robbed.queue[i])

(* The steps of the program as long as the sections of m_mutex exclude     *)
(* each other.                                                             *)
CleanStep ==
  \/ OwnerSchedules \/ Start \/ StartReturns \/ OwnerStops
  \/ \E t \in Threads : Run(t)
  \/ \E f \in Fibers : Wake(f)

-----------------------------------------------------------------------------
(* Lemmas about the operators of the model.                                *)

(* Erasing an entry leaves a queue made of entries of the old one.         *)
LEMMA WithoutType ==
  ASSUME NEW S, NEW q \in Seq(S), NEW i \in 1..Len(q)
  PROVE  /\ Without(q, i) \in Seq(S)
         /\ Len(Without(q, i)) = Len(q) - 1
         /\ \A j \in 1..(Len(q) - 1) :
              Without(q, i)[j] = IF j < i THEN q[j] ELSE q[j + 1]
<1> DEFINE a == SubSeq(q, 1, i - 1)  b == SubSeq(q, i + 1, Len(q))
<1>1. a \in Seq(S) /\ Len(a) = i - 1 /\ \A j \in 1..(i - 1) : a[j] = q[j]
  OBVIOUS
<1>2. b \in Seq(S) /\ Len(b) = Len(q) - i /\ \A j \in 1..(Len(q) - i) : b[j] = q[j + i]
  OBVIOUS
<1> HIDE DEF a, b
<1>3. (a \o b) \in Seq(S) /\ Len(a \o b) = Len(a) + Len(b)
  BY <1>1, <1>2, ConcatProperties
<1>3a. Len(a) + Len(b) = Len(q) - 1
  BY <1>1, <1>2, Len(q) \in Nat
<1>4. ASSUME NEW j \in 1..(Len(q) - 1)
      PROVE  (a \o b)[j] = IF j < i THEN q[j] ELSE q[j + 1]
  <2>1. (a \o b)[j] = IF j <= Len(a) THEN a[j] ELSE b[j - Len(a)]
    BY <1>1, <1>2, <1>3, <1>3a, ConcatProperties
  <2>2. CASE j < i
    BY <2>1, <2>2, <1>1, Len(q) \in Nat
  <2>3. CASE ~(j < i)
    <3>1. j - Len(a) \in 1..(Len(q) - i) /\ (j - Len(a)) + i = j + 1
      BY <2>3, <1>1, Len(q) \in Nat
    <3>2. ~(j <= Len(a))
      BY <2>3, <1>1
    <3>3. b[j - Len(a)] = q[j + 1]
      BY <3>1, <1>2
    <3> QED BY <3>2, <3>3, <2>1, <2>3
  <2> QED BY <2>2, <2>3
<1> QED BY <1>3, <1>3a, <1>4 DEF Without, a, b

(* Moving one program counter moves the count of the threads whose counter *)
(* lies in P by what that thread contributes.                              *)
LEMMA CountMove ==
  ASSUME NEW p \in [Threads -> Pcs], NEW t \in Threads, NEW v, NEW P
  PROVE  LET A == {u \in Threads : p[u] \in P}
             B == {u \in Threads : [p EXCEPT ![t] = v][u] \in P}
         IN /\ Cardinality(A) \in Nat
            /\ v \in P /\ p[t] \notin P => Cardinality(B) = Cardinality(A) + 1
            /\ v \notin P /\ p[t] \in P => /\ Cardinality(A) > 0
                                           /\ Cardinality(B) = Cardinality(A) - 1
            /\ (v \in P <=> p[t] \in P) => Cardinality(B) = Cardinality(A)
<1> DEFINE A == {u \in Threads : p[u] \in P}
           B == {u \in Threads : [p EXCEPT ![t] = v][u] \in P}
<1>0. IsFiniteSet(Threads)
  BY SchedulerAssumption, FS_AddElement DEF Threads
<1>1. IsFiniteSet(A) /\ IsFiniteSet(B)
  BY <1>0, FS_Subset
<1>2. Cardinality(A) \in Nat /\ Cardinality(B) \in Nat
  BY <1>1, FS_CardinalityType
<1>3. ASSUME v \in P, p[t] \notin P PROVE Cardinality(B) = Cardinality(A) + 1
  <2>1. B = A \cup {t} /\ t \notin A
    BY <1>3
  <2> QED BY <2>1, <1>1, <1>2, FS_AddElement
<1>4. ASSUME v \notin P, p[t] \in P
      PROVE  Cardinality(A) > 0 /\ Cardinality(B) = Cardinality(A) - 1
  <2>1. A = B \cup {t} /\ t \notin B
    BY <1>4
  <2>2. Cardinality(A) = Cardinality(B) + 1
    BY <2>1, <1>1, FS_AddElement
  <2> QED BY <2>2, <1>2
<1>5. ASSUME v \in P <=> p[t] \in P PROVE Cardinality(B) = Cardinality(A)
  <2>1. B = A
    BY <1>5
  <2> QED BY <2>1
<1> QED BY <1>2, <1>3, <1>4, <1>5

-----------------------------------------------------------------------------
(* Type correctness.                                                       *)

USE DEF Threads, OnFiber, ActivePcs, IdlePcs, Pcs, BusyPcs

(* An entry made of a fiber, a function and a thread is a FiberAndThread.  *)
LEMMA EntryType ==
  /\ NoEntry \in FiberAndThread
  /\ \A f \in Fibers \cup {Null}, c \in Tasks \cup {Null},
        th \in Threads \cup {AnyThread} :
       /\ Entry(f, c, th) \in FiberAndThread
       /\ Entry(f, c, th).fiber = f
       /\ Entry(f, c, th).cb = c
       /\ Entry(f, c, th).thread = th
BY DEF NoEntry, Entry, FiberAndThread

(* The constructor establishes the invariant: nothing runs.                *)
LEMMA InitTypeInv == Init => TypeInv
<1> SUFFICES ASSUME Init PROVE TypeInv
  OBVIOUS
<1>1. Types
  <2>1. QueueType
    BY EmptySeq DEF Init, QueueType
  <2>2. OwnerType /\ CountType
    BY DEF Init, OwnerType, CountType
  <2>3. FiberType
    BY DEF Init, FiberType, FiberStates, LiveStates, Contexts
  <2>4. ThreadType
    BY EntryType DEF Init, ThreadType
  <2>5. HistoryType
    BY DEF Init, HistoryType
  <2> QED BY <2>1, <2>2, <2>3, <2>4, <2>5 DEF Types
<1>2. Hands /\ AllOff
  BY SchedulerAssumption DEF Init, Hands, AllOff, NoEntry, Entry, GoodEntry
<1>3. {t \in Threads : pc[t] \in ActivePcs} = {} /\ {t \in Threads : pc[t] \in IdlePcs} = {}
  BY DEF Init
<1>4. ActiveCountExact /\ IdleCountExact
  BY <1>3, FS_EmptySet DEF Init, ActiveCountExact, IdleCountExact
<1> QED BY <1>1, <1>2, <1>4 DEF TypeInv

(* What is left of the invariant when thread t moves to v and neither      *)
(* counter has to change.                                                  *)
LEMMA MoveSame ==
  ASSUME TypeInv, NEW t \in Threads, NEW v \in Pcs,
         pc[t] # "off" \/ ctl # "created", pc' = [pc EXCEPT ![t] = v],
         v \in ActivePcs <=> pc[t] \in ActivePcs,
         v \in IdlePcs <=> pc[t] \in IdlePcs,
         UNCHANGED <<m_activeThreadCount, m_idleThreadCount, owner>>
  PROVE  /\ ActiveCountExact' /\ IdleCountExact' /\ CountType' /\ AllOff' /\ OwnerType'
         /\ pc' \in [Threads -> Pcs]
         /\ \A u \in Threads : pc'[u] = IF u = t THEN v ELSE pc[u]
<1>1. Types /\ ActiveCountExact /\ IdleCountExact /\ AllOff
  BY DEF TypeInv
<1>2. pc \in [Threads -> Pcs] /\ CountType /\ OwnerType
  BY <1>1 DEF Types, ThreadType
<1>3. \A u \in Threads : pc'[u] = IF u = t THEN v ELSE pc[u]
  BY <1>2
<1>4. pc' \in [Threads -> Pcs] /\ CountType'
  BY <1>2 DEF CountType
<1>5. AllOff' /\ OwnerType'
  BY <1>1, <1>2 DEF AllOff, OwnerType, owner
<1> HIDE DEF Threads, Pcs, ActivePcs, IdlePcs
<1>6. ActiveCountExact' /\ IdleCountExact'
  BY <1>1, <1>2, CountMove DEF ActiveCountExact, IdleCountExact
<1> QED BY <1>3, <1>4, <1>5, <1>6

(* The same when the thread enters or leaves the set a counter counts.     *)
LEMMA MoveCounted ==
  ASSUME TypeInv, NEW t \in Threads, NEW v \in Pcs,
         pc[t] # "off" \/ ctl # "created", pc' = [pc EXCEPT ![t] = v], UNCHANGED owner,
         \/ /\ v \in ActivePcs /\ pc[t] \notin ActivePcs
            /\ v \in IdlePcs <=> pc[t] \in IdlePcs
            /\ m_activeThreadCount' = m_activeThreadCount + 1 /\ UNCHANGED m_idleThreadCount
         \/ /\ v \notin ActivePcs /\ pc[t] \in ActivePcs
            /\ v \in IdlePcs <=> pc[t] \in IdlePcs
            /\ m_activeThreadCount' = m_activeThreadCount - 1 /\ UNCHANGED m_idleThreadCount
         \/ /\ v \in IdlePcs /\ pc[t] \notin IdlePcs
            /\ v \in ActivePcs <=> pc[t] \in ActivePcs
            /\ m_idleThreadCount' = m_idleThreadCount + 1 /\ UNCHANGED m_activeThreadCount
         \/ /\ v \notin IdlePcs /\ pc[t] \in IdlePcs
            /\ v \in ActivePcs <=> pc[t] \in ActivePcs
            /\ m_idleThreadCount' = m_idleThreadCount - 1 /\ UNCHANGED m_activeThreadCount
  PROVE  /\ ActiveCountExact' /\ IdleCountExact' /\ CountType' /\ AllOff' /\ OwnerType'
         /\ pc' \in [Threads -> Pcs]
         /\ \A u \in Threads : pc'[u] = IF u = t THEN v ELSE pc[u]
<1>1. Types /\ ActiveCountExact /\ IdleCountExact /\ AllOff
  BY DEF TypeInv
<1>2. /\ pc \in [Threads -> Pcs] /\ OwnerType
      /\ m_activeThreadCount \in Nat /\ m_idleThreadCount \in Nat
  BY <1>1 DEF Types, ThreadType, CountType
<1>3. \A u \in Threads : pc'[u] = IF u = t THEN v ELSE pc[u]
  BY <1>2
<1>4. pc' \in [Threads -> Pcs]
  BY <1>2
<1>5. AllOff' /\ OwnerType'
  BY <1>1, <1>2 DEF AllOff, OwnerType, owner
<1> HIDE DEF Threads, Pcs, ActivePcs, IdlePcs
<1> DEFINE A(p) == Cardinality({u \in Threads : p[u] \in ActivePcs})
           I(p) == Cardinality({u \in Threads : p[u] \in IdlePcs})
<1>6. /\ m_activeThreadCount = A(pc) /\ m_idleThreadCount = I(pc)
      /\ ActiveCountExact' <=> m_activeThreadCount' = A(pc')
      /\ IdleCountExact' <=> m_idleThreadCount' = I(pc')
  BY <1>1 DEF ActiveCountExact, IdleCountExact
<1>7. /\ A(pc) \in Nat /\ I(pc) \in Nat
      /\ v \in ActivePcs /\ pc[t] \notin ActivePcs => A(pc') = A(pc) + 1
      /\ v \notin ActivePcs /\ pc[t] \in ActivePcs => A(pc) > 0 /\ A(pc') = A(pc) - 1
      /\ (v \in ActivePcs <=> pc[t] \in ActivePcs) => A(pc') = A(pc)
  BY <1>2, CountMove
<1>8. /\ v \in IdlePcs /\ pc[t] \notin IdlePcs => I(pc') = I(pc) + 1
      /\ v \notin IdlePcs /\ pc[t] \in IdlePcs => I(pc) > 0 /\ I(pc') = I(pc) - 1
      /\ (v \in IdlePcs <=> pc[t] \in IdlePcs) => I(pc') = I(pc)
  BY <1>2, CountMove
<1> HIDE DEF A, I
<1>9. /\ ActiveCountExact' /\ m_activeThreadCount' \in Nat
      /\ IdleCountExact' /\ m_idleThreadCount' \in Nat
  BY <1>6, <1>7, <1>8
<1> QED BY <1>3, <1>4, <1>5, <1>9 DEF CountType

(* A step that leaves every program counter alone keeps the counts.        *)
LEMMA CountStutter ==
  ASSUME Types, ActiveCountExact, IdleCountExact, UNCHANGED <<pc, counts>>
  PROVE  ActiveCountExact' /\ IdleCountExact' /\ CountType' /\ pc' \in [Threads -> Pcs]
BY DEF ActiveCountExact, IdleCountExact, CountType, counts, Types, ThreadType

(* Appending an entry to the queue.                                        *)
LEMMA AppendType ==
  ASSUME NEW S, NEW q \in Seq(S), NEW e \in S
  PROVE  /\ Append(q, e) \in Seq(S)
         /\ Len(Append(q, e)) = Len(q) + 1
         /\ \A i \in 1..(Len(q) + 1) :
              Append(q, e)[i] = IF i = Len(q) + 1 THEN e ELSE q[i]
  OBVIOUS

-----------------------------------------------------------------------------
(* The owner's steps preserve the invariant.                               *)

(* schedule() by the owner.                                               *)
LEMMA SchedulesType ==
  ASSUME TypeInv, OwnerSchedules
  PROVE  TypeInv'
<1> PICK c \in Tasks, th \in Pins :
      \/ OwnerSchedulesCb(c, th)
      \/ \E f \in Fibers : OwnerSchedulesFiber(c, f, th)
  BY DEF OwnerSchedules
<1> USE DEF TypeInv
<1>0. th \in Threads \cup {AnyThread}
  BY SchedulerAssumption DEF PoolThreads
<1>1. CASE OwnerSchedulesCb(c, th)
  <2> USE <1>1 DEF OwnerSchedulesCb
  <2> DEFINE e == Entry(Null, c, th)
  <2>1. e \in FiberAndThread /\ e.fiber = Null /\ e.cb = c
    BY <1>0 DEF Entry, FiberAndThread
  <2>2. QueueType' /\ Len(m_fibers') = Len(m_fibers) + 1
        /\ \A i \in 1..(Len(m_fibers) + 1) :
             m_fibers'[i] = IF i = Len(m_fibers) + 1 THEN e ELSE m_fibers[i]
    BY <2>1, AppendType DEF Types, QueueType
  <2>3. Types'
    BY <2>2, CountStutter DEF Types, OwnerType, FiberType, ThreadType, HistoryType,
       owner, counts, fibers, locals
  <2>4. Hands'
    BY <2>1, <2>2, SchedulerAssumption DEF Hands, GoodEntry, Cur, fibers, locals, Types, QueueType
  <2>5. AllOff' /\ ActiveCountExact' /\ IdleCountExact'
    BY CountStutter DEF AllOff, owner, counts
  <2> QED BY <2>3, <2>4, <2>5
<1>2. ASSUME NEW f \in Fibers, OwnerSchedulesFiber(c, f, th) PROVE TypeInv'
  <2> USE <1>2 DEF OwnerSchedulesFiber
  <2> DEFINE e == Entry(f, Null, th)
  <2>1. e \in FiberAndThread /\ e.fiber = f /\ e.cb = Null
    BY <1>0 DEF Entry, FiberAndThread
  <2>2. QueueType' /\ Len(m_fibers') = Len(m_fibers) + 1
        /\ \A i \in 1..(Len(m_fibers) + 1) :
             m_fibers'[i] = IF i = Len(m_fibers) + 1 THEN e ELSE m_fibers[i]
    BY <2>1, AppendType DEF Types, QueueType
  <2>3. Types'
    <3>1. FiberType'
      BY DEF Types, FiberType, NewFiber, FiberStates, LiveStates, Contexts
    <3> QED BY <2>2, <3>1, CountStutter DEF Types, OwnerType, ThreadType, HistoryType,
       owner, counts, locals
  <2>4. Hands'
    BY <2>1, <2>2, SchedulerAssumption DEF Hands, GoodEntry, Cur, NewFiber, locals, Types, QueueType,
       FiberType
  <2>5. AllOff' /\ ActiveCountExact' /\ IdleCountExact'
    BY CountStutter DEF AllOff, owner, counts
  <2> QED BY <2>3, <2>4, <2>5
<1> QED BY <1>1, <1>2

(* start() and stop().                                                    *)
LEMMA OwnerType1 ==
  ASSUME TypeInv, Start \/ StartReturns \/ OwnerStops
  PROVE  TypeInv'
<1> USE DEF TypeInv
<1>1. CASE Start
  <2> USE <1>1 DEF Start
  <2>1. pc' \in [Threads -> Pcs]
    BY DEF Types, ThreadType
  <2>2. Types'
    BY <2>1 DEF Types, QueueType, OwnerType, CountType, FiberType, ThreadType,
       HistoryType, counts, fibers, locals, history
  <2>3. Hands'
    BY DEF Hands, AllOff, GoodEntry, Cur, fibers, locals, history
  <2>4. /\ {t \in Threads : pc'[t] \in ActivePcs} = {t \in Threads : pc[t] \in ActivePcs}
        /\ {t \in Threads : pc'[t] \in IdlePcs} = {t \in Threads : pc[t] \in IdlePcs}
    BY <2>1 DEF AllOff
  <2>5. ActiveCountExact' /\ IdleCountExact' /\ AllOff'
    BY <2>4 DEF ActiveCountExact, IdleCountExact, AllOff, counts
  <2> QED BY <2>2, <2>3, <2>5
<1>2. CASE StartReturns \/ StopBegins \/ StopMarks \/ StopRootBack \/ StopJoins
  <2>1. /\ UNCHANGED <<m_fibers, counts, fibers, pc, locals, waiting, history, abort>>
        /\ OwnerType' /\ ctl' # "created"
    BY <1>2 DEF StartReturns, StopBegins, StopMarks, StopRootBack, StopJoins, Types, OwnerType
  <2>2. Types'
    BY <2>1 DEF Types, QueueType, CountType, FiberType, ThreadType, HistoryType,
       counts, fibers, locals, history
  <2>3. Hands' /\ AllOff'
    BY <2>1 DEF Hands, AllOff, GoodEntry, Cur, fibers, locals, history
  <2>4. ActiveCountExact' /\ IdleCountExact'
    BY <2>1, CountStutter
  <2> QED BY <2>2, <2>3, <2>4
<1>3. CASE StopCallsRoot
  <2> USE <1>3 DEF StopCallsRoot
  <2>1. CASE stopping
    <3>1. UNCHANGED <<pc, counts>> /\ OwnerType' /\ ctl' # "created"
      BY <2>1 DEF Types, OwnerType
    <3>2. Types'
      BY <3>1 DEF Types, QueueType, CountType, FiberType, ThreadType, HistoryType,
         counts, fibers, locals, history
    <3>3. Hands' /\ AllOff'
      BY <3>1 DEF Hands, AllOff, GoodEntry, Cur, fibers, locals, history
    <3>4. ActiveCountExact' /\ IdleCountExact'
      BY <3>1 DEF counts, ActiveCountExact, IdleCountExact
    <3> QED BY <3>2, <3>3, <3>4
  <2>2. CASE ~stopping
    <3>1. /\ pc' = [pc EXCEPT ![Root] = "pick"] /\ UNCHANGED ctl /\ pc[Root] = "off"
          /\ UNCHANGED <<m_activeThreadCount, m_idleThreadCount, owner>> /\ ctl # "created"
      BY <2>2 DEF owner, counts
    <3> HIDE <1>3
    <3>2. ActiveCountExact' /\ IdleCountExact' /\ pc' \in [Threads -> Pcs]
      BY <3>1, MoveSame
    <3> USE <1>3
    <3>3. Types'
      BY <3>1, <3>2 DEF Types, QueueType, OwnerType, CountType, FiberType, ThreadType,
         HistoryType, counts, fibers, locals, history
    <3>4. Hands' /\ AllOff'
      BY <3>1, <3>2 DEF Hands, AllOff, GoodEntry, Cur, fibers, locals, history, Types,
         ThreadType
    <3> QED BY <3>2, <3>3, <3>4
  <2> QED BY <2>1, <2>2
<1> QED BY <1>1, <1>2, <1>3 DEF OwnerStops

-----------------------------------------------------------------------------
(* The steps of run() preserve the invariant.                              *)

(* Counting one more start keeps the type, whatever it is counted for.     *)
LEMMA StartedType ==
  ASSUME NEW s \in [Tasks -> Nat], NEW k, NEW d \in Nat
  PROVE  [s EXCEPT ![k] = @ + d] \in [Tasks -> Nat]
<1> DEFINE r == [s EXCEPT ![k] = @ + d]
<1>1. r = [x \in Tasks |-> IF x = k THEN s[x] + d ELSE s[x]]
  OBVIOUS
<1>2. \A x \in Tasks : s[x] + d \in Nat
  OBVIOUS
<1> QED BY <1>1, <1>2

(* A thread takes an entry: one more active thread, one more count.       *)
LEMMA PickTaskType ==
  ASSUME TypeInv, NEW t \in Threads, PickTask(t)
  PROVE  TypeInv'
<1> PICK i \in 1..Len(m_fibers) :
      /\ ft' = [ft EXCEPT ![t] = m_fibers[i]]
      /\ m_fibers' = Without(m_fibers, i)
  BY DEF PickTask
<1>0. /\ pc[t] = "pick" /\ pc' = [pc EXCEPT ![t] = "run"]
      /\ m_activeThreadCount' = m_activeThreadCount + 1
      /\ UNCHANGED <<owner, m_idleThreadCount, m_state, m_cb, m_ctx, cb_fiber, idleTerm,
                     waiting, scheduled, started, finished, yields, abort>>
  BY DEF PickTask, fibers, history
<1>1. Types /\ Hands
  BY DEF TypeInv
<1>2. /\ ActiveCountExact' /\ IdleCountExact' /\ CountType' /\ AllOff' /\ OwnerType'
      /\ pc' \in [Threads -> Pcs]
      /\ \A u \in Threads : pc'[u] = IF u = t THEN "run" ELSE pc[u]
  BY <1>0, MoveCounted
<1>3. m_fibers \in Seq(FiberAndThread) /\ Len(m_fibers) \in Nat
  BY <1>1 DEF Types, QueueType
<1>4. /\ m_fibers' \in Seq(FiberAndThread) /\ Len(m_fibers') = Len(m_fibers) - 1
      /\ \A j \in 1..(Len(m_fibers) - 1) :
           m_fibers'[j] = IF j < i THEN m_fibers[j] ELSE m_fibers[j + 1]
  BY <1>3, WithoutType
<1>5. ASSUME NEW j \in 1..Len(m_fibers')
      PROVE  \E k \in 1..Len(m_fibers) : m_fibers'[j] = m_fibers[k]
  <2>1. j \in 1..(Len(m_fibers) - 1) /\ j \in 1..Len(m_fibers) /\ j + 1 \in 1..Len(m_fibers)
    BY <1>3, <1>4
  <2> QED BY <2>1, <1>4
<1>6. /\ ft' \in [Threads -> FiberAndThread]
      /\ \A u \in Threads : ft'[u] = IF u = t THEN m_fibers[i] ELSE ft[u]
  BY <1>1, <1>3 DEF Types, ThreadType
<1>7. Types'
  BY <1>0, <1>1, <1>2, <1>4, <1>6 DEF Types, QueueType, FiberType, ThreadType, HistoryType
<1>8. Hands'
  <2>1. GoodEntry(m_fibers[i]) /\ \A j \in 1..Len(m_fibers') : GoodEntry(m_fibers'[j])
    BY <1>1, <1>5 DEF Hands
  <2> QED BY <2>1, <1>0, <1>1, <1>2, <1>6 DEF Hands, GoodEntry, Cur
<1> QED BY <1>2, <1>7, <1>8 DEF TypeInv

(* A thread finds no entry for it.                                        *)
LEMMA PickNothingType ==
  ASSUME TypeInv, NEW t \in Threads, PickNothing(t)
  PROVE  TypeInv'
<1>0. /\ pc[t] = "pick" /\ pc' = [pc EXCEPT ![t] = "nofiber"]
      /\ ft' = [ft EXCEPT ![t] = NoEntry]
      /\ UNCHANGED <<m_fibers, owner, m_activeThreadCount, m_idleThreadCount, m_state,
                     m_cb, m_ctx, cb_fiber, idleTerm, waiting, scheduled, started,
                     finished, yields, abort>>
  BY DEF PickNothing, fibers, history, counts
<1>1. Types /\ Hands
  BY DEF TypeInv
<1>2. /\ ActiveCountExact' /\ IdleCountExact' /\ CountType' /\ AllOff' /\ OwnerType'
      /\ pc' \in [Threads -> Pcs]
      /\ \A u \in Threads : pc'[u] = IF u = t THEN "nofiber" ELSE pc[u]
  BY <1>0, MoveSame
<1>3. /\ ft' \in [Threads -> FiberAndThread]
      /\ \A u \in Threads : ft'[u] = IF u = t THEN NoEntry ELSE ft[u]
  BY <1>0, <1>1, EntryType DEF Types, ThreadType
<1>4. Types'
  BY <1>0, <1>1, <1>2, <1>3 DEF Types, QueueType, FiberType, ThreadType, HistoryType
<1>5. NoEntry.cb = Null
  BY DEF NoEntry, Entry
<1>6. Hands'
  BY <1>0, <1>1, <1>2, <1>3, <1>5 DEF Hands, GoodEntry, Cur
<1> QED BY <1>2, <1>4, <1>6 DEF TypeInv

(* swapIn() of a fiber from the queue.                                    *)
LEMMA RunFiberType ==
  ASSUME TypeInv, NEW t \in Threads, RunFiber(t)
  PROVE  TypeInv'
<1> DEFINE f == ft[t].fiber
<1>0. /\ pc[t] = "run" /\ pc' = [pc EXCEPT ![t] = "exec"] /\ f # Null
      /\ m_state' = [m_state EXCEPT ![f] = "EXEC"]
      /\ started' = [started EXCEPT ![m_cb[f]] = @ + (IF m_ctx[f] = "start" THEN 1 ELSE 0)]
      /\ abort' \in {abort, "swapIn", "MainFunc"}
      /\ UNCHANGED <<m_fibers, owner, m_activeThreadCount, m_idleThreadCount, m_cb, m_ctx,
                     ft, cb_fiber, idleTerm, waiting, scheduled, finished, yields>>
  BY DEF RunFiber, EnterFiber, locals, counts
<1>1. Types /\ Hands
  BY DEF TypeInv
<1>2. /\ ActiveCountExact' /\ IdleCountExact' /\ CountType' /\ AllOff' /\ OwnerType'
      /\ pc' \in [Threads -> Pcs]
      /\ \A u \in Threads : pc'[u] = IF u = t THEN "exec" ELSE pc[u]
  BY <1>0, MoveSame
<1>3. f \in Fibers
  BY <1>0, <1>1 DEF Types, ThreadType, FiberAndThread
<1>4. started' \in [Tasks -> Nat]
  <2> DEFINE d == IF m_ctx[f] = "start" THEN 1 ELSE 0
  <2>1. d \in Nat
    OBVIOUS
  <2>2. started \in [Tasks -> Nat] /\ started' = [started EXCEPT ![m_cb[f]] = @ + d]
    BY <1>0, <1>1 DEF Types, HistoryType
  <2> HIDE DEF d, f
  <2> QED BY <2>1, <2>2, StartedType
<1>5. m_state' \in [Fibers -> FiberStates]
  BY <1>0, <1>1, <1>3 DEF Types, FiberType, FiberStates, LiveStates
<1>6. Types'
  BY <1>0, <1>1, <1>2, <1>4, <1>5 DEF Types, QueueType, FiberType, ThreadType, HistoryType
<1>7. Hands'
  BY <1>0, <1>1, <1>2 DEF Hands, GoodEntry, Cur
<1> QED BY <1>2, <1>6, <1>7 DEF TypeInv

(* swapIn() of the fiber that runs a function from the queue.             *)
LEMMA RunCbType ==
  ASSUME TypeInv, NEW t \in Threads, RunCb(t)
  PROVE  TypeInv'
<1> DEFINE c == ft[t].cb
<1> PICK f \in Fibers :
      /\ cb_fiber' = [cb_fiber EXCEPT ![t] = f]
      /\ m_cb' = [m_cb EXCEPT ![f] = c]
      /\ m_ctx' = [m_ctx EXCEPT ![f] = "start"]
      /\ m_state' = [m_state EXCEPT ![f] = "EXEC"]
      /\ abort' \in {abort, "reset"}
  BY DEF RunCb
<1>0. /\ pc[t] = "run" /\ pc' = [pc EXCEPT ![t] = "exec"] /\ ft[t].fiber = Null
      /\ ft' = [ft EXCEPT ![t] = NoEntry]
      /\ started' = [started EXCEPT ![c] = @ + 1]
      /\ UNCHANGED <<m_fibers, owner, m_activeThreadCount, m_idleThreadCount, idleTerm,
                     waiting, scheduled, finished, yields>>
  BY DEF RunCb, counts
<1>1. Types /\ Hands
  BY DEF TypeInv
<1>2. /\ ActiveCountExact' /\ IdleCountExact' /\ CountType' /\ AllOff' /\ OwnerType'
      /\ pc' \in [Threads -> Pcs]
      /\ \A u \in Threads : pc'[u] = IF u = t THEN "exec" ELSE pc[u]
  BY <1>0, MoveSame
<1>3. c \in Tasks /\ c \in scheduled
  BY <1>0, <1>1 DEF Types, ThreadType, FiberAndThread, Hands, GoodEntry
<1> HIDE DEF c
<1>4. FiberType' /\ \A g \in Fibers : m_cb'[g] = IF g = f THEN c ELSE m_cb[g]
  BY <1>0, <1>1, <1>3 DEF Types, FiberType, FiberStates, LiveStates, Contexts
<1>5. /\ ft' \in [Threads -> FiberAndThread]
      /\ \A u \in Threads : ft'[u] = IF u = t THEN NoEntry ELSE ft[u]
  BY <1>0, <1>1, EntryType DEF Types, ThreadType
<1>5a. /\ cb_fiber' \in [Threads -> Fibers \cup {Null}]
       /\ \A u \in Threads : cb_fiber'[u] = IF u = t THEN f ELSE cb_fiber[u]
  BY <1>0, <1>1 DEF Types, ThreadType
<1>6. started' \in [Tasks -> Nat]
  BY <1>0, <1>1, StartedType, 1 \in Nat DEF Types, HistoryType
<1>7. Types'
  BY <1>0, <1>1, <1>2, <1>4, <1>5, <1>5a, <1>6 DEF Types, QueueType, ThreadType, HistoryType
<1>8. NoEntry.cb = Null /\ NoEntry.fiber = Null /\ f # Null
  BY SchedulerAssumption DEF NoEntry, Entry
<1>9. Hands'
  BY <1>0, <1>1, <1>2, <1>3, <1>4, <1>5, <1>5a, <1>8 DEF Hands, GoodEntry, Cur
<1> QED BY <1>2, <1>7, <1>9 DEF TypeInv

(* The first half of every switch out of a fiber.                          *)
LEMMA LeaveType ==
  ASSUME TypeInv, NEW t \in Threads, NEW from \in {"exec", "holding"},
         NEW st \in LiveStates, NEW to \in {"leaving", "ending"}, Leave(t, from, st, to),
         m_cb' \in [Fibers -> Tasks \cup {Null}],
         \A f \in Fibers : m_cb'[f] \in {m_cb[f], Null},
         UNCHANGED waiting, finished' \subseteq scheduled, yields' \in [Tasks -> Nat]
  PROVE  TypeInv'
<1>0. /\ pc[t] = from /\ pc' = [pc EXCEPT ![t] = to]
      /\ m_state' = [m_state EXCEPT ![Cur(t)] = st]
      /\ UNCHANGED <<m_fibers, owner, m_activeThreadCount, m_idleThreadCount, m_ctx, ft,
                     cb_fiber, idleTerm, scheduled, started, abort>>
  BY DEF Leave, counts, locals
<1>1. Types /\ Hands
  BY DEF TypeInv
<1>2. /\ ActiveCountExact' /\ IdleCountExact' /\ CountType' /\ AllOff' /\ OwnerType'
      /\ pc' \in [Threads -> Pcs]
      /\ \A u \in Threads : pc'[u] = IF u = t THEN to ELSE pc[u]
  BY <1>0, MoveSame
<1>3. m_state' \in [Fibers -> FiberStates]
  BY <1>0, <1>1 DEF Types, FiberType, FiberStates
<1>4. Types'
  BY <1>0, <1>1, <1>2, <1>3 DEF Types, QueueType, FiberType, ThreadType, HistoryType
<1>5. Hands'
  BY <1>0, <1>1, <1>2 DEF Hands, GoodEntry, Cur
<1> QED BY <1>2, <1>4, <1>5 DEF TypeInv

(* The function of the running fiber.                                      *)
LEMMA FunctionType ==
  ASSUME TypeInv, NEW t \in Threads, Function(t)
  PROVE  TypeInv'
<1>0. Types /\ Hands
  BY DEF TypeInv
<1>1. pc[t] \in BusyPcs => Cur(t) \in Fibers
  BY <1>0 DEF Types, ThreadType, FiberAndThread, Hands, Cur
<1>2. pc[t] = "exec" => Task(t) \in scheduled \cup {Null}
  BY <1>0, <1>1 DEF Hands, Task
<1>3. /\ m_cb \in [Fibers -> Tasks \cup {Null}]
      /\ finished \subseteq scheduled /\ yields \in [Tasks -> Nat]
  BY <1>0 DEF Types, FiberType, HistoryType
<1>4. [yields EXCEPT ![Task(t)] = @ + 1] \in [Tasks -> Nat]
  BY <1>3, StartedType, 1 \in Nat
<1>5. ASSUME NEW c \in Tasks, NEW th \in SpawnPins, TaskSpawns(t, c, th)
      PROVE  TypeInv'
  <2>0. /\ m_fibers' = Append(m_fibers, Entry(Null, c, th))
        /\ scheduled' = scheduled \cup {c}
        /\ UNCHANGED <<owner, counts, m_state, m_cb, m_ctx, pc, ft, cb_fiber, idleTerm,
                       waiting, started, finished, yields, abort>>
    BY <1>5 DEF TaskSpawns, fibers, locals
  <2>1. th \in Threads \cup {AnyThread}
    BY SchedulerAssumption DEF PoolThreads
  <2> DEFINE e == Entry(Null, c, th)
  <2>2. e \in FiberAndThread /\ e.fiber = Null /\ e.cb = c
    BY <2>1, EntryType
  <2>3. m_fibers \in Seq(FiberAndThread) /\ Len(m_fibers) \in Nat
    BY <1>0 DEF Types, QueueType
  <2>4. /\ m_fibers' \in Seq(FiberAndThread) /\ Len(m_fibers') = Len(m_fibers) + 1
        /\ \A i \in 1..(Len(m_fibers) + 1) :
             m_fibers'[i] = IF i = Len(m_fibers) + 1 THEN e ELSE m_fibers[i]
    BY <2>0, <2>2, <2>3, AppendType
  <2> HIDE DEF e
  <2>5. Types'
    BY <2>0, <2>4, <1>0, c \in Tasks DEF Types, QueueType, OwnerType, CountType, FiberType,
       ThreadType, HistoryType, owner, counts
  <2>6. Hands'
    BY <2>0, <2>2, <2>3, <2>4, <1>0, SchedulerAssumption DEF Hands, GoodEntry, Cur
  <2>7. AllOff' /\ ActiveCountExact' /\ IdleCountExact'
    BY <2>0 DEF TypeInv, AllOff, ActiveCountExact, IdleCountExact, owner, counts
  <2> QED BY <2>5, <2>6, <2>7 DEF TypeInv
<1>6. CASE TaskYieldsReady(t)
  <2>1. Leave(t, "exec", "READY", "leaving") /\ UNCHANGED <<m_cb, waiting, finished, scheduled>>
        /\ yields' = [yields EXCEPT ![Task(t)] = @ + 1]
    BY <1>6 DEF TaskYieldsReady, Leave
  <2> QED BY <2>1, <1>3, <1>4, LeaveType DEF LiveStates
<1>7. CASE TaskRegisters(t)
  <2>0. /\ pc[t] = "exec" /\ pc' = [pc EXCEPT ![t] = "holding"]
        /\ waiting' = waiting \cup {Cur(t)}
        /\ yields' = [yields EXCEPT ![Task(t)] = @ + 1]
        /\ UNCHANGED <<m_fibers, owner, m_activeThreadCount, m_idleThreadCount, m_state,
                       m_cb, m_ctx, ft, cb_fiber, idleTerm, scheduled, started, finished,
                       abort>>
    BY <1>7 DEF TaskRegisters, CanYield, InFunction, counts, fibers, locals
  <2>2. /\ ActiveCountExact' /\ IdleCountExact' /\ CountType' /\ AllOff' /\ OwnerType'
        /\ pc' \in [Threads -> Pcs]
        /\ \A u \in Threads : pc'[u] = IF u = t THEN "holding" ELSE pc[u]
    BY <2>0, MoveSame
  <2>3. Types'
    BY <1>0, <1>1, <1>4, <2>0, <2>2 DEF Types, QueueType, FiberType, ThreadType, HistoryType
  <2>4. Hands'
    BY <1>0, <2>0, <2>2 DEF Hands, GoodEntry, Cur
  <2> QED BY <2>2, <2>3, <2>4 DEF TypeInv
<1>8. CASE TaskYieldsHold(t)
  <2>1. Leave(t, "holding", "HOLD", "leaving") /\ UNCHANGED <<m_cb, waiting, finished, scheduled, yields>>
    BY <1>8 DEF TaskYieldsHold, Leave
  <2> QED BY <2>1, <1>3, LeaveType DEF LiveStates
<1>9. CASE TaskReturns(t)
  <2>1. /\ Leave(t, "exec", "TERM", "ending") /\ UNCHANGED <<waiting, yields>>
        /\ m_cb' = [m_cb EXCEPT ![Cur(t)] = Null]
        /\ finished' = finished \cup {Task(t)}
        /\ pc[t] = "exec" /\ Task(t) # Null
    BY <1>9 DEF TaskReturns, InFunction
  <2>2. finished' \subseteq scheduled
    BY <2>1, <1>2, <1>3
  <2>3. m_cb' \in [Fibers -> Tasks \cup {Null}] /\ \A f \in Fibers : m_cb'[f] \in {m_cb[f], Null}
    BY <2>1, <1>3
  <2> QED BY <2>1, <2>2, <2>3, <1>3, LeaveType DEF LiveStates
<1>10. CASE TaskThrows(t)
  <2>1. /\ Leave(t, "exec", "EXEC", "ending") /\ UNCHANGED <<m_cb, waiting, yields>>
        /\ finished' = finished \cup ({Task(t)} \ {Null})
        /\ pc[t] = "exec"
    BY <1>10 DEF TaskThrows, Leave
  <2>2. finished' \subseteq scheduled
    BY <2>1, <1>2, <1>3
  <2> QED BY <2>1, <2>2, <1>3, LeaveType DEF LiveStates
<1> QED BY <1>5, <1>6, <1>7, <1>8, <1>9, <1>10 DEF Function

(* Dropping a pointer destroys at most the fiber it points to.             *)
LEMMA DropType ==
  ASSUME Types, NEW f \in Fibers, NEW t, NEW q, NEW st \in FiberStates,
         DropFiber(f, t, q, st)
  PROVE  /\ m_state' \in [Fibers -> FiberStates]
         /\ m_cb' \in [Fibers -> Tasks \cup {Null}]
         /\ m_ctx' \in [Fibers -> Contexts]
         /\ \A g \in Fibers : m_cb'[g] \in {m_cb[g], Null}
         /\ abort' \in {abort, "~Fiber"}
<1>1. CASE Referenced(f, t, q)
  BY <1>1 DEF DropFiber, Types, FiberType
<1>2. CASE ~Referenced(f, t, q)
  BY <1>2 DEF DropFiber, Types, FiberType, FiberStates, Contexts
<1> QED BY <1>1, <1>2

(* The fiber that came back is requeued, kept or dropped.                 *)
LEMMA SettleType ==
  ASSUME TypeInv, NEW t \in Threads, Settle(t)
  PROVE  TypeInv'
<1> DEFINE f == Cur(t)  st == m_state[f]  isCb == ft[t].fiber = Null
<1>0. /\ pc[t] = "settle" /\ pc' = [pc EXCEPT ![t] = "pick"]
      /\ m_fibers' = Requeue(f, st) /\ ft' = [ft EXCEPT ![t] = NoEntry]
      /\ UNCHANGED <<owner, m_activeThreadCount, m_idleThreadCount, idleTerm, waiting,
                     scheduled, started, finished, yields>>
  BY DEF Settle, counts, history
<1>1. Types /\ Hands
  BY DEF TypeInv
<1>2. /\ ActiveCountExact' /\ IdleCountExact' /\ CountType' /\ AllOff' /\ OwnerType'
      /\ pc' \in [Threads -> Pcs]
      /\ \A u \in Threads : pc'[u] = IF u = t THEN "pick" ELSE pc[u]
  BY <1>0, MoveSame
<1>3. f \in Fibers
  BY <1>0, <1>1 DEF Types, ThreadType, FiberAndThread, Hands, Cur
<1>4. st \in FiberStates /\ StateAfter(st) \in FiberStates
  BY <1>1, <1>3 DEF Types, FiberType, StateAfter, FiberStates, LiveStates
<1>5. /\ m_fibers' \in Seq(FiberAndThread)
      /\ \A i \in 1..Len(m_fibers') : GoodEntry(m_fibers'[i])
  <2> DEFINE e == Entry(f, Null, AnyThread)
  <2>1. e \in FiberAndThread /\ e.fiber = f /\ e.cb = Null
    BY <1>3 DEF Entry, FiberAndThread
  <2>2. GoodEntry(e)
    BY <2>1, <1>3, SchedulerAssumption DEF GoodEntry
  <2>3. m_fibers \in Seq(FiberAndThread) /\ Len(m_fibers) \in Nat
        /\ \A i \in 1..Len(m_fibers) : GoodEntry(m_fibers[i])
    BY <1>1 DEF Types, QueueType, Hands
  <2>4. m_fibers' \in {m_fibers, Append(m_fibers, e)}
    BY <1>0 DEF Requeue
  <2> HIDE DEF e
  <2> QED BY <2>1, <2>2, <2>3, <2>4, AppendType
<1>6. /\ m_state' \in [Fibers -> FiberStates]
      /\ m_cb' \in [Fibers -> Tasks \cup {Null}]
      /\ m_ctx' \in [Fibers -> Contexts]
      /\ \A g \in Fibers : m_cb'[g] \in {m_cb[g], Null}
      /\ abort' \in {abort, "~Fiber"}
      /\ cb_fiber' \in {cb_fiber, [cb_fiber EXCEPT ![t] = Null]}
  <2>1. CASE isCb /\ st \in {"TERM", "EXCEPT"}
    <3>1. /\ m_state' = [m_state EXCEPT ![f] = "INIT"]
          /\ m_cb' = [m_cb EXCEPT ![f] = Null]
          /\ m_ctx' = [m_ctx EXCEPT ![f] = "start"]
          /\ UNCHANGED <<abort, cb_fiber>>
      BY <2>1 DEF Settle
    <3> HIDE DEF f
    <3> QED BY <3>1, <1>1, <1>3 DEF Types, FiberType, FiberStates, LiveStates, Contexts
  <2>2. CASE ~(isCb /\ st \in {"TERM", "EXCEPT"})
    <3>1. /\ DropFiber(f, t, Requeue(f, st), StateAfter(st))
          /\ cb_fiber' \in {cb_fiber, [cb_fiber EXCEPT ![t] = Null]}
      BY <2>2 DEF Settle
    <3> HIDE DEF f, st
    <3> QED BY <3>1, <1>1, <1>3, <1>4, DropType
  <2> QED BY <2>1, <2>2
<1>7. /\ ft' \in [Threads -> FiberAndThread] /\ cb_fiber' \in [Threads -> Fibers \cup {Null}]
  BY <1>0, <1>1, <1>6, EntryType DEF Types, ThreadType
<1>8. Types'
  BY <1>0, <1>1, <1>2, <1>5, <1>6, <1>7 DEF Types, QueueType, FiberType, ThreadType, HistoryType
<1>9. \A u \in Threads : /\ ft'[u] = IF u = t THEN NoEntry ELSE ft[u]
                         /\ u # t => cb_fiber'[u] = cb_fiber[u]
  BY <1>0, <1>1, <1>6 DEF Types, ThreadType
<1>10. NoEntry.cb = Null
  BY DEF NoEntry, Entry
<1>11. Hands'
  <2>1. \A g \in Fibers : m_cb'[g] \in scheduled \cup {Null}
    BY <1>1, <1>6 DEF Hands
  <2>2. \A u \in Threads : ft'[u].cb \in scheduled \cup {Null}
    BY <1>1, <1>9, <1>10 DEF Hands
  <2>3. \A u \in Threads : pc'[u] = "run" => GoodEntry(ft'[u])
    BY <1>1, <1>2, <1>9 DEF Hands
  <2>4. \A u \in Threads : pc'[u] \in BusyPcs => Cur(u)' # Null
    BY <1>1, <1>2, <1>9 DEF Hands, Cur
  <2> HIDE DEF f
  <2> QED BY <2>1, <2>2, <2>3, <2>4, <1>0, <1>5 DEF Hands, GoodEntry
<1> QED BY <1>2, <1>8, <1>11 DEF TypeInv

(* The context switch back, and the count that follows it.                *)
LEMMA SwitchType ==
  ASSUME TypeInv, NEW t \in Threads, SwapOut(t) \/ CountDown(t)
  PROVE  TypeInv'
<1>1. Types /\ Hands
  BY DEF TypeInv
<1>2. ASSUME SwapOut(t) PROVE TypeInv'
  <2>0. /\ pc[t] \in {"leaving", "ending"} /\ pc' = [pc EXCEPT ![t] = "back"]
        /\ \E x \in {"end", "mid"} : m_ctx' = [m_ctx EXCEPT ![Cur(t)] = x]
        /\ UNCHANGED <<m_fibers, owner, m_activeThreadCount, m_idleThreadCount, m_state,
                       m_cb, ft, cb_fiber, idleTerm, waiting, scheduled, started, finished,
                       yields, abort>>
    BY <1>2 DEF SwapOut, counts, locals, history
  <2>1. /\ ActiveCountExact' /\ IdleCountExact' /\ CountType' /\ AllOff' /\ OwnerType'
        /\ pc' \in [Threads -> Pcs]
        /\ \A u \in Threads : pc'[u] = IF u = t THEN "back" ELSE pc[u]
    BY <2>0, MoveSame
  <2>2. m_ctx' \in [Fibers -> Contexts]
    BY <2>0, <1>1 DEF Types, FiberType, Contexts
  <2>3. Types'
    BY <1>1, <2>0, <2>1, <2>2 DEF Types, QueueType, FiberType, ThreadType, HistoryType
  <2>4. Hands'
    BY <1>1, <2>0, <2>1 DEF Hands, GoodEntry, Cur
  <2> QED BY <2>1, <2>3, <2>4 DEF TypeInv
<1>3. ASSUME CountDown(t) PROVE TypeInv'
  <2>0. /\ pc[t] = "back" /\ pc' = [pc EXCEPT ![t] = "settle"]
        /\ m_activeThreadCount' = m_activeThreadCount - 1
        /\ UNCHANGED <<m_fibers, owner, m_idleThreadCount, m_state, m_cb, m_ctx, ft,
                       cb_fiber, idleTerm, waiting, scheduled, started, finished,
                       yields, abort>>
    BY <1>3 DEF CountDown, fibers, locals, history
  <2>1. /\ ActiveCountExact' /\ IdleCountExact' /\ CountType' /\ AllOff' /\ OwnerType'
        /\ pc' \in [Threads -> Pcs]
        /\ \A u \in Threads : pc'[u] = IF u = t THEN "settle" ELSE pc[u]
    BY <2>0, MoveCounted
  <2>3. Types'
    BY <1>1, <2>0, <2>1 DEF Types, QueueType, FiberType, ThreadType, HistoryType
  <2>4. Hands'
    BY <1>1, <2>0, <2>1 DEF Hands, GoodEntry, Cur
  <2> QED BY <2>1, <2>3, <2>4 DEF TypeInv
<1> QED BY <1>2, <1>3

(* Entering and leaving the idle fiber, and leaving run().                *)
LEMMA IdleType ==
  ASSUME TypeInv, NEW t \in Threads,
         EnterIdle(t) \/ Idle(t) \/ LeaveIdle(t) \/ ExitRun(t)
  PROVE  TypeInv'
<1>1. Types /\ Hands
  BY DEF TypeInv
<1>2. ASSUME EnterIdle(t) PROVE TypeInv'
  <2>0. /\ pc[t] = "nofiber" /\ pc' = [pc EXCEPT ![t] = "idle"]
        /\ m_idleThreadCount' = m_idleThreadCount + 1
        /\ UNCHANGED <<m_fibers, owner, m_activeThreadCount, m_state, m_cb, m_ctx, ft,
                       cb_fiber, idleTerm, waiting, scheduled, started, finished,
                       yields, abort>>
    BY <1>2 DEF EnterIdle, fibers, locals, history
  <2>1. /\ ActiveCountExact' /\ IdleCountExact' /\ CountType' /\ AllOff' /\ OwnerType'
        /\ pc' \in [Threads -> Pcs]
        /\ \A u \in Threads : pc'[u] = IF u = t THEN "idle" ELSE pc[u]
    BY <2>0, MoveCounted
  <2>3. Types'
    BY <1>1, <2>0, <2>1 DEF Types, QueueType, FiberType, ThreadType, HistoryType
  <2>4. Hands'
    BY <1>1, <2>0, <2>1 DEF Hands, GoodEntry, Cur
  <2> QED BY <2>1, <2>3, <2>4 DEF TypeInv
<1>3. ASSUME LeaveIdle(t) PROVE TypeInv'
  <2>0. /\ pc[t] = "idleback" /\ pc' = [pc EXCEPT ![t] = "pick"]
        /\ m_idleThreadCount' = m_idleThreadCount - 1
        /\ UNCHANGED <<m_fibers, owner, m_activeThreadCount, m_state, m_cb, m_ctx, ft,
                       cb_fiber, idleTerm, waiting, scheduled, started, finished,
                       yields, abort>>
    BY <1>3 DEF LeaveIdle, fibers, locals, history
  <2>1. /\ ActiveCountExact' /\ IdleCountExact' /\ CountType' /\ AllOff' /\ OwnerType'
        /\ pc' \in [Threads -> Pcs]
        /\ \A u \in Threads : pc'[u] = IF u = t THEN "pick" ELSE pc[u]
    BY <2>0, MoveCounted
  <2>3. Types'
    BY <1>1, <2>0, <2>1 DEF Types, QueueType, FiberType, ThreadType, HistoryType
  <2>4. Hands'
    BY <1>1, <2>0, <2>1 DEF Hands, GoodEntry, Cur
  <2> QED BY <2>1, <2>3, <2>4 DEF TypeInv
<1>4. ASSUME Idle(t) PROVE TypeInv'
  <2>0. /\ pc[t] = "idle" /\ pc' = [pc EXCEPT ![t] = "idleback"]
        /\ idleTerm' = [idleTerm EXCEPT ![t] = stopping]
        /\ UNCHANGED <<m_fibers, owner, m_activeThreadCount, m_idleThreadCount, m_state,
                       m_cb, m_ctx, ft, cb_fiber, waiting, scheduled, started, finished,
                       yields, abort>>
    BY <1>4 DEF Idle, counts, fibers, history
  <2>1. /\ ActiveCountExact' /\ IdleCountExact' /\ CountType' /\ AllOff' /\ OwnerType'
        /\ pc' \in [Threads -> Pcs]
        /\ \A u \in Threads : pc'[u] = IF u = t THEN "idleback" ELSE pc[u]
    BY <2>0, MoveSame
  <2>2. idleTerm' \in [Threads -> BOOLEAN]
    <3>1. stopping \in BOOLEAN
      BY DEF stopping
    <3>2. idleTerm \in [Threads -> BOOLEAN]
      BY <1>1 DEF Types, ThreadType
    <3> HIDE DEF Threads
    <3> QED BY <2>0, <3>1, <3>2
  <2>3. Types'
    BY <1>1, <2>0, <2>1, <2>2 DEF Types, QueueType, FiberType, ThreadType, HistoryType
  <2>4. Hands'
    BY <1>1, <2>0, <2>1 DEF Hands, GoodEntry, Cur
  <2> QED BY <2>1, <2>3, <2>4 DEF TypeInv
<1>5. ASSUME ExitRun(t) PROVE TypeInv'
  <2>0. /\ pc[t] = "nofiber" /\ pc' = [pc EXCEPT ![t] = "exited"]
        /\ cb_fiber' = [cb_fiber EXCEPT ![t] = Null]
        /\ UNCHANGED <<m_fibers, owner, m_activeThreadCount, m_idleThreadCount, ft, idleTerm,
                       waiting, scheduled, started, finished, yields>>
    BY <1>5 DEF ExitRun, counts, history
  <2>1. /\ ActiveCountExact' /\ IdleCountExact' /\ CountType' /\ AllOff' /\ OwnerType'
        /\ pc' \in [Threads -> Pcs]
        /\ \A u \in Threads : pc'[u] = IF u = t THEN "exited" ELSE pc[u]
    BY <2>0, MoveSame
  <2>2. /\ m_state' \in [Fibers -> FiberStates]
        /\ m_cb' \in [Fibers -> Tasks \cup {Null}]
        /\ m_ctx' \in [Fibers -> Contexts]
        /\ \A g \in Fibers : m_cb'[g] \in {m_cb[g], Null}
        /\ abort' \in {abort, "~Fiber"}
    <3>1. CASE cb_fiber[t] = Null
      BY <3>1, <1>1, <1>5 DEF ExitRun, fibers, Types, FiberType
    <3>2. CASE cb_fiber[t] # Null
      <4>1. DropFiber(cb_fiber[t], t, m_fibers, m_state[cb_fiber[t]])
        BY <3>2, <1>5 DEF ExitRun
      <4>2. cb_fiber[t] \in Fibers /\ m_state[cb_fiber[t]] \in FiberStates
        BY <3>2, <1>1 DEF Types, ThreadType, FiberType
      <4> QED BY <4>1, <4>2, <1>1, DropType
    <3> QED BY <3>1, <3>2
  <2>3. /\ cb_fiber' \in [Threads -> Fibers \cup {Null}]
        /\ \A u \in Threads : u # t => cb_fiber'[u] = cb_fiber[u]
    BY <1>1, <2>0 DEF Types, ThreadType
  <2>4. Types'
    BY <1>1, <2>0, <2>1, <2>2, <2>3 DEF Types, QueueType, FiberType, ThreadType, HistoryType
  <2>5. Hands'
    <3>1. \A g \in Fibers : m_cb'[g] \in scheduled \cup {Null}
      BY <1>1, <2>2 DEF Hands
    <3>2. \A u \in Threads : pc'[u] \in BusyPcs => Cur(u)' # Null
      BY <1>1, <2>0, <2>1, <2>3 DEF Hands, Cur
    <3> QED BY <3>1, <3>2, <1>1, <2>0, <2>1 DEF Hands, GoodEntry
  <2> QED BY <2>1, <2>4, <2>5 DEF TypeInv
<1> QED BY <1>2, <1>3, <1>4, <1>5

(* An event or a timer schedules the fiber it holds.                      *)
LEMMA WakeType ==
  ASSUME TypeInv, NEW f \in Fibers, Wake(f)
  PROVE  TypeInv'
<1>0. /\ waiting' = waiting \ {f}
      /\ m_fibers' = Append(m_fibers, Entry(f, Null, AnyThread))
      /\ UNCHANGED <<owner, counts, m_state, m_cb, m_ctx, pc, ft, cb_fiber, idleTerm,
                     scheduled, started, finished, yields, abort>>
  BY DEF Wake, fibers, locals, history
<1> DEFINE e == Entry(f, Null, AnyThread)
<1>1. Types /\ Hands
  BY DEF TypeInv
<1>2. e \in FiberAndThread /\ e.fiber = f /\ e.cb = Null
  BY DEF Entry, FiberAndThread
<1>3. m_fibers \in Seq(FiberAndThread) /\ Len(m_fibers) \in Nat
  BY <1>1 DEF Types, QueueType
<1>4. /\ m_fibers' \in Seq(FiberAndThread) /\ Len(m_fibers') = Len(m_fibers) + 1
      /\ \A i \in 1..(Len(m_fibers) + 1) :
           m_fibers'[i] = IF i = Len(m_fibers) + 1 THEN e ELSE m_fibers[i]
  BY <1>0, <1>2, <1>3, AppendType
<1> HIDE DEF e
<1>5. Types'
  BY <1>0, <1>1, <1>4 DEF Types, QueueType, OwnerType, CountType, FiberType, ThreadType,
     HistoryType, owner, counts
<1>6. Hands'
  BY <1>0, <1>1, <1>2, <1>3, <1>4, SchedulerAssumption DEF Hands, GoodEntry, Cur
<1>7. AllOff' /\ ActiveCountExact' /\ IdleCountExact'
  BY <1>0 DEF TypeInv, AllOff, ActiveCountExact, IdleCountExact, owner, counts
<1> QED BY <1>5, <1>6, <1>7 DEF TypeInv

-----------------------------------------------------------------------------
(* No step of any thread breaks TypeInv.                                  *)
LEMMA CleanTypeInv ==
  ASSUME TypeInv, CleanStep
  PROVE  TypeInv'
<1>1. ASSUME NEW t \in Threads, Run(t) PROVE TypeInv'
  BY <1>1, PickTaskType, PickNothingType, RunFiberType, RunCbType, FunctionType,
     SettleType, SwitchType, IdleType DEF Run
<1> QED BY <1>1, SchedulesType, OwnerType1, WakeType DEF CleanStep

LEMMA StillTypeInv ==
  ASSUME TypeInv, UNCHANGED vars
  PROVE  TypeInv'
BY DEF vars, owner, counts, fibers, locals, history, TypeInv, Types, QueueType,
   OwnerType, CountType, FiberType, ThreadType, HistoryType, Hands, GoodEntry, Cur,
   AllOff, ActiveCountExact, IdleCountExact

(* A section of m_mutex, or an unlock, robs at most one thread of the list *)
(* as it is.                                                               *)
LEMMA RaceStep ==
  ASSUME TypeInv, RaceInv, NEW t,
         UNCHANGED robbed \/ UnlocksAgain(t),
         torn' \in BOOLEAN, scheduled \subseteq scheduled'
  PROVE  RaceInv'
<1>1. robbed.queue \in Seq(FiberAndThread) /\ m_fibers \in Seq(FiberAndThread)
  BY DEF TypeInv, Types, QueueType, RaceInv, RaceType
<1>2. CASE UNCHANGED robbed
  BY <1>2 DEF RaceInv, RaceType, GoodEntry
<1>3. CASE robbed' = Nobody
  <2>1. /\ robbed' \in [thread : Threads \cup {Null}, queue : Seq(FiberAndThread)]
        /\ robbed'.queue = <<>>
    BY <1>3, EmptySeq DEF Nobody, Robbed
  <2> QED BY <2>1 DEF RaceInv, RaceType
<1>4. CASE \E u \in Threads \ {t} : robbed' = Robbed(u, m_fibers)
  <2>1. /\ robbed' \in [thread : Threads \cup {Null}, queue : Seq(FiberAndThread)]
        /\ robbed'.queue = m_fibers
    BY <1>1, <1>4 DEF Robbed
  <2>2. \A i \in 1..Len(m_fibers) :
          /\ m_fibers[i].fiber # Null \/ m_fibers[i].cb # Null
          /\ m_fibers[i].cb \in scheduled' \cup {Null}
    BY DEF TypeInv, Hands, GoodEntry
  <2> QED BY <2>1, <2>2 DEF RaceInv, RaceType, GoodEntry
<1> QED BY <1>2, <1>3, <1>4 DEF UnlocksAgain

(* The tasks that are known to have been scheduled are not forgotten.      *)
LEMMA ScheduledGrows ==
  ASSUME CleanStep \/ Astray
  PROVE  scheduled \subseteq scheduled'
<1>1. ASSUME NEW t \in Threads, Run(t) PROVE scheduled \subseteq scheduled'
  BY <1>1 DEF Run, Function, PickTask, PickNothing, RunFiber, EnterFiber, RunCb, TaskSpawns,
     TaskYieldsReady, TaskRegisters, TaskYieldsHold, TaskReturns, TaskThrows, Leave,
     SwapOut, CountDown, Settle, EnterIdle, Idle, LeaveIdle, ExitRun, history
<1> QED BY <1>1 DEF CleanStep, Astray, OwnerSchedules, OwnerSchedulesCb, OwnerSchedulesFiber,
     Start, StartReturns, OwnerStops, StopBegins, StopMarks, StopCallsRoot, StopRootBack,
     StopJoins, Wake, TakesAgain, Unlinks, ListBreaks, history

(* An entry that two threads take counts twice, and both work on it.       *)
LEMMA TakesAgainType ==
  ASSUME TypeInv, RaceInv, NEW t \in Threads, TakesAgain(t)
  PROVE  TypeInv'
<1> PICK i \in 1..Len(robbed.queue) : ft' = [ft EXCEPT ![t] = robbed.queue[i]]
  BY DEF TakesAgain
<1> DEFINE e == robbed.queue[i]
<1>0. /\ pc[t] = "pick" /\ pc' = [pc EXCEPT ![t] = "run"]
      /\ m_activeThreadCount' = m_activeThreadCount + 1
      /\ UNCHANGED <<m_fibers, owner, m_idleThreadCount, m_state, m_cb, m_ctx, cb_fiber,
                     idleTerm, waiting, scheduled, started, finished, yields, abort>>
  BY DEF TakesAgain, fibers, history
<1>1. Types /\ Hands
  BY DEF TypeInv
<1>2. /\ ActiveCountExact' /\ IdleCountExact' /\ CountType' /\ AllOff' /\ OwnerType'
      /\ pc' \in [Threads -> Pcs]
      /\ \A u \in Threads : pc'[u] = IF u = t THEN "run" ELSE pc[u]
  BY <1>0, MoveCounted
<1>3. e \in FiberAndThread /\ GoodEntry(e)
  BY DEF RaceInv, RaceType
<1>4. /\ ft' \in [Threads -> FiberAndThread]
      /\ \A u \in Threads : ft'[u] = IF u = t THEN e ELSE ft[u]
  BY <1>1, <1>3 DEF Types, ThreadType
<1> HIDE DEF e
<1>5. Types'
  BY <1>0, <1>1, <1>2, <1>4 DEF Types, QueueType, FiberType, ThreadType, HistoryType
<1>6. Hands'
  BY <1>0, <1>1, <1>2, <1>3, <1>4 DEF Hands, GoodEntry, Cur
<1> QED BY <1>2, <1>5, <1>6 DEF TypeInv

(* What is left of a list that lost its end is a list of its entries.      *)
LEMMA UnlinksType ==
  ASSUME TypeInv, Unlinks \/ ListBreaks
  PROVE  TypeInv'
<1>1. /\ UNCHANGED <<owner, counts, m_state, m_cb, m_ctx, pc, ft, cb_fiber, idleTerm,
                     waiting, scheduled, started, finished, yields>>
      /\ abort' \in {abort, "race"}
  BY DEF Unlinks, ListBreaks, fibers, locals, history
<1>2. m_fibers \in Seq(FiberAndThread) /\ Len(m_fibers) \in Nat
  BY DEF TypeInv, Types, QueueType
<1>3. PICK n \in 0..Len(m_fibers) : m_fibers' = SubSeq(m_fibers, 1, n) \/ m_fibers' = m_fibers
  BY <1>2 DEF Unlinks, ListBreaks
<1>4. /\ m_fibers' \in Seq(FiberAndThread)
      /\ \A i \in 1..Len(m_fibers') : i \in 1..Len(m_fibers) /\ m_fibers'[i] = m_fibers[i]
  <2>1. CASE m_fibers' = m_fibers
    BY <1>2, <2>1
  <2>2. CASE m_fibers' = SubSeq(m_fibers, 1, n)
    BY <1>2, <2>2
  <2> QED BY <1>3, <2>1, <2>2
<1>5. Types'
  BY <1>1, <1>4 DEF TypeInv, Types, QueueType, OwnerType, CountType, FiberType, ThreadType,
     HistoryType, owner, counts
<1>6. Hands'
  BY <1>1, <1>4 DEF TypeInv, Hands, GoodEntry, Cur
<1>7. AllOff' /\ ActiveCountExact' /\ IdleCountExact'
  BY <1>1 DEF TypeInv, AllOff, ActiveCountExact, IdleCountExact, owner, counts
<1> QED BY <1>5, <1>6, <1>7 DEF TypeInv

(* ... nor one that goes astray.                                           *)
LEMMA StepTypeInv == TypeInv /\ RaceInv /\ [Next]_vars => (TypeInv /\ RaceInv)'
<1> SUFFICES ASSUME TypeInv, RaceInv, [Next]_vars PROVE TypeInv' /\ RaceInv'
  OBVIOUS
<1>1. CASE UNCHANGED vars
  <2>1. UNCHANGED <<robbed, torn, scheduled>>
    BY <1>1 DEF vars, race, history
  <2> QED BY <1>1, <2>1, StillTypeInv DEF RaceInv, RaceType, GoodEntry
<1>2. CASE Step
  <2>1. CleanStep \/ Astray
    BY <1>2 DEF Step, CleanStep, Runs
  <2>2. TypeInv'
    BY <2>1, CleanTypeInv, TakesAgainType, UnlinksType DEF Astray
  <2>3. torn \in BOOLEAN
    BY DEF RaceInv, RaceType
  <2>4. /\ torn' \in BOOLEAN
        /\ UNCHANGED robbed \/ \E t \in Threads \cup {AnyThread} : UnlocksAgain(t)
    BY <1>2, <2>3 DEF Step, Runs, Section, StartReturns, Astray, TakesAgain, Unlinks,
       ListBreaks, race
  <2> QED BY <2>1, <2>2, <2>4, RaceStep, ScheduledGrows
<1> QED BY <1>1, <1>2 DEF Next, Done

(* Nobody is robbed before start() returns.                                *)
LEMMA InitRaceInv == Init => RaceInv
<1> SUFFICES ASSUME Init PROVE RaceInv
  OBVIOUS
<1>1. /\ robbed \in [thread : Threads \cup {Null}, queue : Seq(FiberAndThread)]
      /\ robbed.queue = <<>> /\ torn \in BOOLEAN
  BY EmptySeq DEF Init, Nobody, Robbed
<1> QED BY <1>1 DEF RaceInv, RaceType

(* Type correctness, for every pool and every workload, whatever becomes   *)
(* of the list after the second unlock of start(): in particular the       *)
(* size_t counters that run() decrements without a test never wrap.        *)
THEOREM TypeCorrect == Spec => []TypeOK
<1>1. TypeInv /\ RaceInv => TypeOK
  BY DEF TypeInv, Types, RaceInv, TypeOK
<1> QED BY <1>1, InitTypeInv, InitRaceInv, StepTypeInv, PTL DEF Spec

(* m_activeThreadCount and m_idleThreadCount are exact at every step of    *)
(* every thread, whatever the callbacks do and also when two threads are   *)
(* in the list at a time.                                                  *)
THEOREM CountsExact == Spec => [](ActiveCountExact /\ IdleCountExact)
<1>1. TypeInv => ActiveCountExact /\ IdleCountExact
  BY DEF TypeInv
<1> QED BY <1>1, InitTypeInv, InitRaceInv, StepTypeInv, PTL DEF Spec

-----------------------------------------------------------------------------
(* Until two sections of m_mutex overlap, every step is one of a program   *)
(* whose sections exclude each other; the overlap stays on record.         *)
LEMMA Untorn ==
  ASSUME [Next]_vars
  PROVE  torn' \/ (~torn /\ (CleanStep \/ UNCHANGED vars))
<1>1. CASE UNCHANGED vars
  BY <1>1 DEF vars, race
<1>2. CASE Step
  <2>1. CleanStep \/ Astray
    BY <1>2 DEF Step, CleanStep, Runs
  <2>2. torn => torn'
    BY <1>2 DEF Step, Runs, Section, StartReturns, Astray, TakesAgain, Unlinks,
       ListBreaks, race
  <2>3. Astray => torn
    BY DEF Astray, TakesAgain, Unlinks, ListBreaks, Overlap
  <2> QED BY <2>1, <2>2, <2>3
<1> QED BY <1>1, <1>2 DEF Next, Done

(* In a pool whose only thread is the caller's, no section overlaps with   *)
(* another: the second unlock of start() meets nobody in the list.         *)
THEOREM CallerAlone ==
  ASSUME Workers = {} PROVE Spec => []~torn
<1> DEFINE I == robbed = Nobody /\ ~torn
<1>1. Init => I
  BY DEF Init
<1>2. I /\ [Next]_vars => I'
  <2> SUFFICES ASSUME I, [Next]_vars PROVE I'
    OBVIOUS
  <2>1. CASE UNCHANGED vars
    BY <2>1 DEF vars, race
  <2>2. CASE Step
    <3>1. robbed.thread = Null /\ Null \notin Threads \cup {AnyThread}
      BY SchedulerAssumption DEF Nobody, Robbed
    <3>2. ASSUME NEW t \in Threads \cup {AnyThread}, Section(t) PROVE I'
      BY <3>1, <3>2 DEF Section
    <3>3. ASSUME StartReturns PROVE I'
      BY <3>3 DEF StartReturns, UnlocksAgain
    <3>4. ~Astray
      BY DEF Astray, TakesAgain, Unlinks, ListBreaks, Overlap
    <3>5. (UNCHANGED race) => I'
      BY DEF race
    <3> QED BY <2>2, <3>2, <3>3, <3>4, <3>5 DEF Step, Runs
  <2> QED BY <2>1, <2>2 DEF Next, Done
<1>3. I => ~torn
  OBVIOUS
<1> QED BY <1>1, <1>2, <1>3, PTL DEF Spec

-----------------------------------------------------------------------------
(* Each pointer to a fiber is the only one: it is in one queue entry or in *)
(* the hands of one thread.                                                *)
NoneHolds ==
  /\ waiting = {}
  /\ \A t \in Threads :
       /\ pc[t] # "holding"
       /\ pc[t] \notin {"run"} \cup BusyPcs => ft[t] = NoEntry
QueueDistinct ==
  \A i, j \in 1..Len(m_fibers) :
    m_fibers[i].fiber # Null /\ i # j => m_fibers[j].fiber # m_fibers[i].fiber
QueueApart ==
  \A i \in 1..Len(m_fibers), t \in Threads :
    m_fibers[i].fiber # Null =>
      ft[t].fiber # m_fibers[i].fiber /\ cb_fiber[t] # m_fibers[i].fiber
HandsApart ==
  \A t, u \in Threads :
    /\ ft[t].fiber # Null => /\ cb_fiber[u] # ft[t].fiber
                             /\ t # u => ft[u].fiber # ft[t].fiber
    /\ cb_fiber[t] # Null /\ t # u => cb_fiber[u] # cb_fiber[t]
Exclusive == NoneHolds /\ QueueDistinct /\ QueueApart /\ HandsApart

(* A fiber that may be switched to: swapIn() will not assert, and a        *)
(* function is there to run.                                               *)
Runnable(f) == m_state[f] \in {"INIT", "READY"} /\ m_ctx[f] # "end" /\ m_cb[f] # Null
(* A fiber whose function is over, normally or by an exception.            *)
Ended(f) ==
  /\ m_state[f] \in {"TERM", "EXEC"}
  /\ m_cb[f] \in finished \cup {Null}
  /\ m_state[f] = "EXEC" => "throw" \in Behaviours
(* Thread t is running a callback, so cb_fiber is not the spare one.       *)
RunsCb(t) == pc[t] \in BusyPcs /\ ft[t].fiber = Null

(* Each fiber is in the state that its place calls for.                    *)
PhaseOf(t) ==
  LET f == Cur(t) IN
  /\ pc[t] = "exec" => m_state[f] = "EXEC" /\ m_cb[f] # Null
  /\ pc[t] = "leaving" => m_state[f] = "READY" /\ m_cb[f] # Null
  /\ pc[t] = "ending" => Ended(f)
  /\ pc[t] \in {"back", "settle"} =>
       \/ m_state[f] = "READY" /\ m_ctx[f] = "mid" /\ m_cb[f] # Null
       \/ Ended(f) /\ m_ctx[f] = "end"
QueueRunnable ==
  \A i \in 1..Len(m_fibers) : m_fibers[i].fiber # Null => Runnable(m_fibers[i].fiber)
PickedRunnable ==
  \A t \in Threads : pc[t] = "run" /\ ft[t].fiber # Null => Runnable(ft[t].fiber)
SpareReady ==
  \A t \in Threads : cb_fiber[t] # Null /\ ~RunsCb(t) =>
    m_state[cb_fiber[t]] = "INIT" /\ m_cb[cb_fiber[t]] = Null
BusyPhase == \A t \in Threads : pc[t] \in BusyPcs => PhaseOf(t)
Phases == QueueRunnable /\ PickedRunnable /\ SpareReady /\ BusyPhase

(* The assertion that may have failed.                                     *)
Aborts == /\ abort \in {"none", "~Fiber"}
          /\ abort = "~Fiber" => "throw" \in Behaviours

FiberInv == TypeInv /\ Exclusive /\ Phases /\ Aborts

-----------------------------------------------------------------------------
(* The workload that waits for nothing.                                    *)
NoHold == "hold" \notin Behaviours

(* The pointwise effect of the steps, for the proofs below.                *)

(* Thread t moves the entry at i to ft; the others stay, in their order.   *)
Takes(t, i) ==
  /\ FirstEligible(t, i)
  /\ Len(m_fibers') = Len(m_fibers) - 1 /\ Len(m_fibers) \in Nat
  /\ \A j \in 1..Len(m_fibers') :
       \E k \in 1..Len(m_fibers) :
         /\ m_fibers'[j] = m_fibers[k] /\ k # i
         /\ k = IF j < i THEN j ELSE j + 1
  /\ \A k \in 1..Len(m_fibers) : k # i =>
       \E j \in 1..Len(m_fibers') : m_fibers'[j] = m_fibers[k]
  /\ \A u \in Threads : ft'[u] = IF u = t THEN m_fibers[i] ELSE ft[u]

(* run() erases the entry it copies to ft and keeps the others in order.   *)
LEMMA PickTaskFacts ==
  ASSUME TypeInv, NEW t \in Threads, PickTask(t)
  PROVE  \E i \in 1..Len(m_fibers) : Takes(t, i)
<1>0. PICK i \in 1..Len(m_fibers) :
      /\ FirstEligible(t, i)
      /\ ft' = [ft EXCEPT ![t] = m_fibers[i]]
      /\ m_fibers' = Without(m_fibers, i)
  BY DEF PickTask
<1>1. m_fibers \in Seq(FiberAndThread) /\ Len(m_fibers) \in Nat
  BY DEF TypeInv, Types, QueueType
<1>2. /\ Len(m_fibers') = Len(m_fibers) - 1
      /\ \A j \in 1..(Len(m_fibers) - 1) :
           m_fibers'[j] = IF j < i THEN m_fibers[j] ELSE m_fibers[j + 1]
  BY <1>0, <1>1, WithoutType
<1>3. ASSUME NEW j \in 1..Len(m_fibers')
      PROVE  \E k \in 1..Len(m_fibers) :
               /\ m_fibers'[j] = m_fibers[k] /\ k # i
               /\ k = IF j < i THEN j ELSE j + 1
  <2>1. j \in 1..(Len(m_fibers) - 1) /\ j \in 1..Len(m_fibers) /\ j + 1 \in 1..Len(m_fibers)
    BY <1>1, <1>2
  <2>2. CASE j < i
    BY <2>1, <2>2, <1>2
  <2>3. CASE ~(j < i)
    <3>1. j + 1 # i
      BY <2>1, <2>3
    <3> QED BY <2>1, <2>3, <3>1, <1>2
  <2> QED BY <2>2, <2>3
<1>4. ASSUME NEW k \in 1..Len(m_fibers), k # i
      PROVE  \E j \in 1..Len(m_fibers') : m_fibers'[j] = m_fibers[k]
  <2>1. CASE k < i
    <3>1. k \in 1..(Len(m_fibers) - 1)
      BY <2>1, <1>1
    <3> QED BY <2>1, <3>1, <1>2
  <2>2. CASE ~(k < i)
    <3>1. k - 1 \in 1..(Len(m_fibers) - 1) /\ ~(k - 1 < i) /\ (k - 1) + 1 = k
      BY <2>2, <1>4, <1>1
    <3> QED BY <3>1, <1>2
  <2> QED BY <2>1, <2>2
<1>5. \A u \in Threads : ft'[u] = IF u = t THEN m_fibers[i] ELSE ft[u]
  BY <1>0 DEF TypeInv, Types, ThreadType
<1> QED BY <1>0, <1>1, <1>2, <1>3, <1>4, <1>5 DEF Takes

(* Every step of a thread moves that thread's program counter only.        *)
LEMMA PcFacts ==
  ASSUME TypeInv, NEW t \in Threads, NEW v, pc' = [pc EXCEPT ![t] = v]
  PROVE  \A u \in Threads : pc'[u] = IF u = t THEN v ELSE pc[u]
BY DEF TypeInv, Types, ThreadType

(* The facts about types that every proof below uses.                      *)
LEMMA Shapes ==
  ASSUME TypeInv
  PROVE  /\ Len(m_fibers) \in Nat
         /\ \A i \in 1..Len(m_fibers) : m_fibers[i].fiber \in Fibers \cup {Null}
         /\ \A t \in Threads : /\ ft[t].fiber \in Fibers \cup {Null}
                               /\ cb_fiber[t] \in Fibers \cup {Null}
                               /\ pc[t] \in BusyPcs => Cur(t) \in Fibers
         /\ NoEntry.fiber = Null /\ NoEntry.cb = Null
         /\ Null \notin Fibers /\ Null \notin Tasks
<1>1. Types /\ Hands
  BY DEF TypeInv
<1>2. m_fibers \in Seq(FiberAndThread) /\ Len(m_fibers) \in Nat
  BY <1>1 DEF Types, QueueType
<1>3. \A i \in 1..Len(m_fibers) : m_fibers[i].fiber \in Fibers \cup {Null}
  <2>1. \A i \in 1..Len(m_fibers) : m_fibers[i] \in FiberAndThread
    BY <1>2
  <2> QED BY <2>1 DEF FiberAndThread
<1>4. \A t \in Threads : /\ ft[t].fiber \in Fibers \cup {Null}
                         /\ cb_fiber[t] \in Fibers \cup {Null}
  BY <1>1 DEF Types, ThreadType, FiberAndThread
<1>5. \A t \in Threads : pc[t] \in BusyPcs => Cur(t) \in Fibers
  BY <1>1, <1>4 DEF Hands, Cur
<1>6. NoEntry.fiber = Null /\ NoEntry.cb = Null
  BY DEF NoEntry, Entry
<1> QED BY <1>2, <1>3, <1>4, <1>5, <1>6, SchedulerAssumption

-----------------------------------------------------------------------------
(* FiberInv is inductive when no callback holds.                           *)

(* Nothing is scheduled when the constructor returns.                     *)
LEMMA InitFiberInv == Init => FiberInv
<1> SUFFICES ASSUME Init PROVE FiberInv
  OBVIOUS
<1>1. TypeInv
  BY InitTypeInv
<1>2. Exclusive
  BY Shapes, <1>1 DEF Init, Exclusive, NoneHolds, QueueDistinct, QueueApart, HandsApart
<1>3. QueueRunnable /\ Aborts
  BY DEF Init, QueueRunnable, Aborts
<1>4. PickedRunnable /\ SpareReady /\ BusyPhase
  BY DEF Init, PickedRunnable, SpareReady, BusyPhase
<1> QED BY <1>1, <1>2, <1>3, <1>4 DEF FiberInv, Phases

(* The entry that moves to a thread was the only one for its fiber.       *)
LEMMA PickTaskFiber ==
  ASSUME FiberInv, NEW t \in Threads, PickTask(t)
  PROVE  Exclusive' /\ Phases' /\ Aborts'
<1>0. /\ pc[t] = "pick" /\ pc' = [pc EXCEPT ![t] = "run"]
      /\ UNCHANGED <<m_state, m_cb, m_ctx, cb_fiber, waiting, finished, abort>>
  BY DEF PickTask, fibers, history
<1>1. TypeInv /\ Exclusive /\ Phases /\ Aborts
  BY DEF FiberInv
<1>2. \A u \in Threads : pc'[u] = IF u = t THEN "run" ELSE pc[u]
  BY <1>0, <1>1, PcFacts
<1> PICK i \in 1..Len(m_fibers) : Takes(t, i)
  BY <1>1, PickTaskFacts
<1> /\ Len(m_fibers') = Len(m_fibers) - 1 /\ Len(m_fibers) \in Nat
    /\ \A j \in 1..Len(m_fibers') :
         \E k \in 1..Len(m_fibers) :
           /\ m_fibers'[j] = m_fibers[k] /\ k # i
           /\ k = IF j < i THEN j ELSE j + 1
    /\ \A u \in Threads : ft'[u] = IF u = t THEN m_fibers[i] ELSE ft[u]
  BY DEF Takes
<1>3. ft[t] = NoEntry
  BY <1>0, <1>1 DEF Exclusive, NoneHolds
<1>3a. NoEntry.fiber = Null
  BY <1>1, Shapes
<1>4. QueueDistinct'
  <2> SUFFICES ASSUME NEW a \in 1..Len(m_fibers'), NEW b \in 1..Len(m_fibers'),
                      m_fibers'[a].fiber # Null, a # b
               PROVE  m_fibers'[b].fiber # m_fibers'[a].fiber
    BY DEF QueueDistinct
  <2> PICK k \in 1..Len(m_fibers) : m_fibers'[a] = m_fibers[k] /\ k = IF a < i THEN a ELSE a + 1
    OBVIOUS
  <2> PICK l \in 1..Len(m_fibers) : m_fibers'[b] = m_fibers[l] /\ l = IF b < i THEN b ELSE b + 1
    OBVIOUS
  <2>1. k # l
    OBVIOUS
  <2> QED BY <2>1, <1>1 DEF Exclusive, QueueDistinct
<1>5. QueueApart'
  BY <1>0, <1>1 DEF Exclusive, QueueApart, QueueDistinct
<1>6. HandsApart'
  BY <1>0, <1>1 DEF Exclusive, QueueApart, HandsApart
<1>7. NoneHolds'
  BY <1>0, <1>1, <1>2 DEF Exclusive, NoneHolds
<1>8. QueueRunnable'
  <2>1. \A g : Runnable(g)' = Runnable(g)
    BY <1>0 DEF Runnable
  <2> QED BY <2>1, <1>1 DEF Phases, QueueRunnable
<1>9. PickedRunnable'
  BY <1>0, <1>1, <1>2 DEF Phases, QueueRunnable, PickedRunnable, Runnable
<1>10. SpareReady'
  BY <1>0, <1>1, <1>2, <1>3, <1>3a DEF Phases, SpareReady, RunsCb
<1>11. BusyPhase'
  BY <1>0, <1>1, <1>2 DEF Phases, BusyPhase, PhaseOf, Cur, Ended
<1>12. Aborts'
  BY <1>0, <1>1 DEF Aborts
<1> QED BY <1>4, <1>5, <1>6, <1>7, <1>8, <1>9, <1>10, <1>11, <1>12 DEF Exclusive, Phases

(* Steps that only move program counters between places where the thread   *)
(* has nothing in its hands, or from back to settle.                       *)
LEMMA SteadyFiber ==
  ASSUME FiberInv,
         UNCHANGED <<m_fibers, cb_fiber, m_state, m_cb, m_ctx, waiting, finished, abort>>,
         \A u \in Threads :
           /\ ft'[u] = ft[u]
           /\ \/ pc'[u] = pc[u]
              \/ pc[u] \notin {"run"} \cup BusyPcs /\ pc'[u] \notin {"run"} \cup BusyPcs
              \/ pc[u] = "back" /\ pc'[u] = "settle"
  PROVE  Exclusive' /\ Phases' /\ Aborts'
<1>1. Exclusive /\ Phases /\ Aborts
  BY DEF FiberInv
<1>2. Exclusive'
  <2>1. NoneHolds'
    BY <1>1 DEF Exclusive, NoneHolds
  <2>2. QueueDistinct' /\ QueueApart' /\ HandsApart'
    BY <1>1 DEF Exclusive, QueueDistinct, QueueApart, HandsApart
  <2> QED BY <2>1, <2>2 DEF Exclusive
<1>3. QueueRunnable' /\ PickedRunnable'
  BY <1>1 DEF Phases, QueueRunnable, PickedRunnable, Runnable
<1>4. SpareReady'
  BY <1>1 DEF Phases, SpareReady, RunsCb
<1>5. BusyPhase'
  BY <1>1 DEF Phases, BusyPhase, PhaseOf, Cur, Ended
<1>6. Aborts'
  BY <1>1 DEF Aborts
<1> QED BY <1>2, <1>3, <1>4, <1>5, <1>6 DEF Phases

(* schedule() of a function by the owner or by a running task.             *)
LEMMA ScheduleCbFiber ==
  ASSUME FiberInv, NEW c \in Tasks, NEW th \in Threads \cup {AnyThread},
         m_fibers' = Append(m_fibers, Entry(Null, c, th)),
         UNCHANGED <<ft, cb_fiber, pc, m_state, m_cb, m_ctx, waiting, finished, abort>>
  PROVE  Exclusive' /\ Phases' /\ Aborts'
<1>1. TypeInv /\ Exclusive /\ Phases /\ Aborts
  BY DEF FiberInv
<1> DEFINE e == Entry(Null, c, th)
<1>2. e \in FiberAndThread /\ e.fiber = Null
  BY EntryType
<1>3. m_fibers \in Seq(FiberAndThread) /\ Len(m_fibers) \in Nat
  BY <1>1 DEF TypeInv, Types, QueueType
<1>4. /\ Len(m_fibers') = Len(m_fibers) + 1
      /\ \A i \in 1..(Len(m_fibers) + 1) :
           m_fibers'[i] = IF i = Len(m_fibers) + 1 THEN e ELSE m_fibers[i]
  BY <1>2, <1>3, AppendType
<1> HIDE DEF e
<1>5. \A i \in 1..Len(m_fibers') :
        m_fibers'[i].fiber = Null \/ (i \in 1..Len(m_fibers) /\ m_fibers'[i] = m_fibers[i])
  BY <1>2, <1>3, <1>4
<1>6. Exclusive'
  <2>1. NoneHolds' /\ HandsApart'
    BY <1>1 DEF Exclusive, NoneHolds, HandsApart
  <2>2. QueueDistinct'
    BY <1>1, <1>5 DEF Exclusive, QueueDistinct
  <2>3. QueueApart'
    BY <1>1, <1>5 DEF Exclusive, QueueApart
  <2> QED BY <2>1, <2>2, <2>3 DEF Exclusive
<1>7. QueueRunnable' /\ PickedRunnable'
  BY <1>1, <1>5 DEF Phases, QueueRunnable, PickedRunnable, Runnable
<1>8. SpareReady'
  BY <1>1 DEF Phases, SpareReady, RunsCb
<1>9. BusyPhase'
  BY <1>1 DEF Phases, BusyPhase, PhaseOf, Cur, Ended
<1>10. Aborts'
  BY <1>1 DEF Aborts
<1> QED BY <1>6, <1>7, <1>8, <1>9, <1>10 DEF Phases

(* A fiber that is FREE has no pointer to it.                              *)
LEMMA FreeIsFresh ==
  ASSUME FiberInv, NEW f \in Fibers, m_state[f] = "FREE"
  PROVE  /\ \A i \in 1..Len(m_fibers) : m_fibers[i].fiber # f
         /\ \A u \in Threads : ft[u].fiber # f /\ cb_fiber[u] # f
<1>1. TypeInv /\ Exclusive /\ Phases
  BY DEF FiberInv
<1>2. f # Null
  BY SchedulerAssumption
<1>3. \A i \in 1..Len(m_fibers) : m_fibers[i].fiber # f
  BY <1>1, <1>2 DEF Phases, QueueRunnable, Runnable
<1>4. ASSUME NEW u \in Threads PROVE ft[u].fiber # f
  <2>1. CASE pc[u] = "run"
    BY <2>1, <1>1, <1>2 DEF Phases, PickedRunnable, Runnable
  <2>2. CASE pc[u] \in BusyPcs
    BY <2>2, <1>1, <1>2 DEF Phases, BusyPhase, PhaseOf, Cur, Ended, Exclusive, NoneHolds
  <2>3. CASE pc[u] \notin {"run"} \cup BusyPcs
    BY <2>3, <1>1, <1>2, Shapes DEF Exclusive, NoneHolds
  <2> QED BY <2>1, <2>2, <2>3
<1>5. ASSUME NEW u \in Threads PROVE cb_fiber[u] # f
  <2>1. CASE RunsCb(u)
    BY <2>1, <1>1, <1>2 DEF RunsCb, Phases, BusyPhase, PhaseOf, Cur, Ended, Exclusive, NoneHolds
  <2>2. CASE ~RunsCb(u)
    BY <2>2, <1>1, <1>2 DEF Phases, SpareReady
  <2> QED BY <2>1, <2>2
<1> QED BY <1>3, <1>4, <1>5

(* schedule() of a new fiber.                                              *)
LEMMA ScheduleFiberFiber ==
  ASSUME FiberInv, NEW c \in Tasks, NEW f \in Fibers, NEW th \in Threads \cup {AnyThread},
         OwnerSchedulesFiber(c, f, th)
  PROVE  Exclusive' /\ Phases' /\ Aborts'
<1>0. /\ m_fibers' = Append(m_fibers, Entry(f, Null, th))
      /\ m_state[f] = "FREE"
      /\ m_state' = [m_state EXCEPT ![f] = "INIT"]
      /\ m_cb' = [m_cb EXCEPT ![f] = c]
      /\ m_ctx' = [m_ctx EXCEPT ![f] = "start"]
      /\ UNCHANGED <<ft, cb_fiber, pc, waiting, finished, abort>>
  BY DEF OwnerSchedulesFiber, NewFiber, locals
<1>1. TypeInv /\ Exclusive /\ Phases /\ Aborts
  BY DEF FiberInv
<1>2. \A g \in Fibers : /\ m_state'[g] = IF g = f THEN "INIT" ELSE m_state[g]
                        /\ m_cb'[g] = IF g = f THEN c ELSE m_cb[g]
                        /\ m_ctx'[g] = IF g = f THEN "start" ELSE m_ctx[g]
  BY <1>0, <1>1 DEF TypeInv, Types, FiberType
<1> DEFINE e == Entry(f, Null, th)
<1>3. e \in FiberAndThread /\ e.fiber = f
  BY DEF Entry, FiberAndThread
<1>4. m_fibers \in Seq(FiberAndThread) /\ Len(m_fibers) \in Nat
  BY <1>1 DEF TypeInv, Types, QueueType
<1>5. /\ Len(m_fibers') = Len(m_fibers) + 1
      /\ \A i \in 1..(Len(m_fibers) + 1) :
           m_fibers'[i] = IF i = Len(m_fibers) + 1 THEN e ELSE m_fibers[i]
  BY <1>0, <1>3, <1>4, AppendType
<1> HIDE DEF e
<1>6. \A i \in 1..Len(m_fibers') :
        \/ i = Len(m_fibers) + 1 /\ m_fibers'[i].fiber = f
        \/ i \in 1..Len(m_fibers) /\ m_fibers'[i] = m_fibers[i]
  BY <1>3, <1>4, <1>5
<1>7. /\ \A i \in 1..Len(m_fibers) : m_fibers[i].fiber # f
      /\ \A u \in Threads : ft[u].fiber # f /\ cb_fiber[u] # f
  BY <1>0, FreeIsFresh
<1>8. /\ \A i \in 1..Len(m_fibers) : m_fibers[i].fiber \in Fibers \cup {Null}
      /\ \A t \in Threads : /\ ft[t].fiber \in Fibers \cup {Null}
                            /\ cb_fiber[t] \in Fibers \cup {Null}
                            /\ pc[t] \in BusyPcs => Cur(t) \in Fibers
      /\ f # Null /\ c # Null
  BY <1>1, Shapes
<1>9. Exclusive'
  <2>1. NoneHolds' /\ HandsApart'
    BY <1>0, <1>1 DEF Exclusive, NoneHolds, HandsApart
  <2>2. QueueDistinct'
    BY <1>1, <1>6, <1>7, <1>8 DEF Exclusive, QueueDistinct
  <2>3. QueueApart'
    BY <1>0, <1>1, <1>6, <1>7 DEF Exclusive, QueueApart
  <2> QED BY <2>1, <2>2, <2>3 DEF Exclusive
<1>10. QueueRunnable'
  BY <1>1, <1>2, <1>6, <1>7, <1>8 DEF Phases, QueueRunnable, Runnable
<1>11. PickedRunnable'
  BY <1>0, <1>1, <1>2, <1>7, <1>8 DEF Phases, PickedRunnable, Runnable
<1>12. SpareReady'
  BY <1>0, <1>1, <1>2, <1>7, <1>8 DEF Phases, SpareReady, RunsCb
<1>13. BusyPhase'
  <2>1. \A t \in Threads : pc[t] \in BusyPcs => Cur(t) # f /\ Cur(t)' = Cur(t)
    BY <1>0, <1>7 DEF Cur
  <2> QED BY <2>1, <1>0, <1>1, <1>2, <1>8 DEF Phases, BusyPhase, PhaseOf, Ended
<1>14. Aborts'
  BY <1>0, <1>1 DEF Aborts
<1> QED BY <1>9, <1>10, <1>11, <1>12, <1>13, <1>14 DEF Phases

(* Steps of thread t that change only the state of the fiber it runs, or   *)
(* of the fiber it is about to run: everyone else's fibers stay as they    *)
(* are.                                                                    *)
LEMMA OwnFiberStep ==
  ASSUME FiberInv, NEW t \in Threads, NEW f \in Fibers, NEW v \in BusyPcs,
         v # "holding",
         pc[t] \in {"run"} \cup BusyPcs, pc' = [pc EXCEPT ![t] = v],
         f = Cur(t), pc[t] = "run" => ft[t].fiber # Null,
         UNCHANGED <<m_fibers, ft, cb_fiber, waiting>>, finished \subseteq finished',
         \A g \in Fibers : g # f =>
           m_state'[g] = m_state[g] /\ m_cb'[g] = m_cb[g] /\ m_ctx'[g] = m_ctx[g]
  PROVE  /\ Exclusive' /\ QueueRunnable' /\ SpareReady' /\ PickedRunnable'
         /\ PhaseOf(t)' => BusyPhase'
<1>1. TypeInv /\ Exclusive /\ Phases
  BY DEF FiberInv
<1>2. \A u \in Threads : pc'[u] = IF u = t THEN v ELSE pc[u]
  <2>1. pc \in [Threads -> Pcs]
    BY <1>1 DEF TypeInv, Types, ThreadType
  <2> HIDE DEF Threads, Pcs
  <2> QED BY <2>1
<1>3. /\ \A i \in 1..Len(m_fibers) : m_fibers[i].fiber \in Fibers \cup {Null}
      /\ \A u \in Threads : /\ ft[u].fiber \in Fibers \cup {Null}
                            /\ cb_fiber[u] \in Fibers \cup {Null}
                            /\ pc[u] \in BusyPcs => Cur(u) \in Fibers
      /\ f # Null
  BY <1>1, Shapes
<1>4. \A i \in 1..Len(m_fibers) : m_fibers[i].fiber # f
  BY <1>1, <1>3 DEF Exclusive, QueueApart, Cur
<1>5. \A u \in Threads : u # t => ft[u].fiber # f /\ cb_fiber[u] # f
  BY <1>1, <1>3 DEF Exclusive, HandsApart, Cur
<1>6. Exclusive'
  <2>1. NoneHolds'
    BY <1>1, <1>2 DEF Exclusive, NoneHolds
  <2>2. QueueDistinct' /\ QueueApart' /\ HandsApart'
    BY <1>1 DEF Exclusive, QueueDistinct, QueueApart, HandsApart
  <2> QED BY <2>1, <2>2 DEF Exclusive
<1>7. QueueRunnable'
  BY <1>1, <1>3, <1>4 DEF Phases, QueueRunnable, Runnable
<1>8. PickedRunnable'
  BY <1>1, <1>2, <1>3, <1>5 DEF Phases, PickedRunnable, Runnable
<1>9. SpareReady'
  <2> SUFFICES ASSUME NEW u \in Threads, cb_fiber[u] # Null, ~RunsCb(u)'
               PROVE  m_state'[cb_fiber[u]] = "INIT" /\ m_cb'[cb_fiber[u]] = Null
    BY DEF SpareReady
  <2>1. ~RunsCb(u) /\ cb_fiber[u] # f
    <3>1. CASE u = t
      <4>1. ft[t].fiber # Null
        BY <3>1, <1>2 DEF RunsCb
      <4>2. f = ft[t].fiber
        BY <4>1 DEF Cur
      <4>3. cb_fiber[t] # f
        BY <4>1, <4>2, <1>1 DEF Exclusive, HandsApart
      <4> QED BY <4>1, <4>3, <3>1 DEF RunsCb
    <3>2. CASE u # t
      BY <3>2, <1>2, <1>5 DEF RunsCb
    <3> QED BY <3>1, <3>2
  <2> QED BY <2>1, <1>1, <1>3 DEF Phases, SpareReady
<1>10. ASSUME PhaseOf(t)' PROVE BusyPhase'
  <2> SUFFICES ASSUME NEW u \in Threads, u # t, pc[u] \in BusyPcs
               PROVE  PhaseOf(u)'
    BY <1>2, <1>10 DEF BusyPhase
  <2>1. Cur(u)' = Cur(u) /\ Cur(u) \in Fibers /\ Cur(u) # f
    BY <1>3, <1>5 DEF Cur
  <2>2. PhaseOf(u) /\ pc'[u] = pc[u]
    BY <1>1, <1>2 DEF Phases, BusyPhase
  <2> QED BY <2>1, <2>2 DEF PhaseOf, Ended
<1> QED BY <1>6, <1>7, <1>8, <1>9, <1>10

(* swapIn() of a queued fiber, which is runnable.                         *)
LEMMA RunFiberFiber ==
  ASSUME FiberInv, NEW t \in Threads, RunFiber(t)
  PROVE  Exclusive' /\ Phases' /\ Aborts'
<1> DEFINE f == ft[t].fiber
<1>0. /\ pc[t] = "run" /\ pc' = [pc EXCEPT ![t] = "exec"] /\ f # Null
      /\ m_state' = [m_state EXCEPT ![f] = "EXEC"]
      /\ abort' = CASE m_state[f] = "EXEC" -> "swapIn"
                    [] m_state[f] # "EXEC" /\ m_ctx[f] = "end" -> "MainFunc"
                    [] OTHER -> abort
      /\ UNCHANGED <<m_fibers, m_cb, m_ctx, ft, cb_fiber, waiting, finished>>
  BY DEF RunFiber, EnterFiber, locals
<1>1. TypeInv /\ Exclusive /\ Phases /\ Aborts
  BY DEF FiberInv
<1>2. f \in Fibers /\ f = Cur(t)
  BY <1>0, <1>1, Shapes DEF Cur
<1>3. Runnable(f)
  BY <1>0, <1>1 DEF Phases, PickedRunnable
<1>4. \A g \in Fibers : m_state'[g] = IF g = f THEN "EXEC" ELSE m_state[g]
  BY <1>0, <1>1 DEF TypeInv, Types, FiberType
<1>5. Cur(t)' = f /\ pc'[t] = "exec"
  BY <1>0, <1>1, PcFacts DEF Cur
<1> HIDE DEF f
<1>6. PhaseOf(t)'
  BY <1>0, <1>2, <1>3, <1>4, <1>5 DEF PhaseOf, Runnable
<1>7. Exclusive' /\ QueueRunnable' /\ SpareReady' /\ PickedRunnable' /\ BusyPhase'
  <2>1. \A g \in Fibers : g # f =>
          m_state'[g] = m_state[g] /\ m_cb'[g] = m_cb[g] /\ m_ctx'[g] = m_ctx[g]
    BY <1>0, <1>4
  <2>2. "exec" \in BusyPcs /\ "exec" # "holding"
    OBVIOUS
  <2>3. pc[t] \in {"run"} \cup BusyPcs /\ (pc[t] = "run" => ft[t].fiber # Null)
    BY <1>0 DEF f
  <2>4. finished \subseteq finished' /\ UNCHANGED <<m_fibers, ft, cb_fiber, waiting>>
    BY <1>0
  <2> HIDE DEF BusyPcs
  <2> QED BY <1>0, <1>2, <1>6, <2>1, <2>2, <2>3, <2>4, OwnFiberStep
<1>8. Aborts'
  BY <1>0, <1>1, <1>3 DEF Aborts, Runnable
<1> QED BY <1>7, <1>8 DEF Phases

(* YieldToReady, the return of the function, and an exception.             *)
LEMMA LeaveFiber ==
  ASSUME FiberInv, NEW t \in Threads,
         TaskYieldsReady(t) \/ TaskReturns(t) \/ TaskThrows(t)
  PROVE  Exclusive' /\ Phases' /\ Aborts'
<1> DEFINE f == Cur(t)
<1>1. TypeInv /\ Exclusive /\ Phases /\ Aborts
  BY DEF FiberInv
<1>2. /\ pc[t] = "exec"
      /\ UNCHANGED <<m_fibers, m_ctx, ft, cb_fiber, waiting, abort>>
      /\ finished \subseteq finished'
      /\ \E v \in {"leaving", "ending"} : pc' = [pc EXCEPT ![t] = v]
  BY DEF TaskYieldsReady, TaskReturns, TaskThrows, Leave, locals
<1>3. f \in Fibers /\ m_cb[f] # Null /\ f # Null
  BY <1>1, <1>2, Shapes DEF Phases, BusyPhase, PhaseOf
<1>4. PICK v \in {"leaving", "ending"} : pc' = [pc EXCEPT ![t] = v]
  BY <1>2
<1>5. Cur(t)' = f
  BY <1>2 DEF Cur
<1>6. pc \in [Threads -> Pcs] /\ m_state \in [Fibers -> FiberStates] /\ m_cb \in [Fibers -> Tasks \cup {Null}]
  BY <1>1 DEF TypeInv, Types, FiberType, ThreadType
<1>7. /\ PhaseOf(t)'
      /\ \A g \in Fibers : g # f => m_state'[g] = m_state[g] /\ m_cb'[g] = m_cb[g]
  <2>1. CASE TaskYieldsReady(t)
    <3>1. /\ m_state' = [m_state EXCEPT ![f] = "READY"] /\ UNCHANGED m_cb
          /\ pc' = [pc EXCEPT ![t] = "leaving"]
      BY <2>1 DEF TaskYieldsReady, Leave
    <3>2. pc'[t] = "leaving"
      BY <3>1, <1>6
    <3> HIDE DEF f
    <3> QED BY <3>1, <3>2, <1>3, <1>5, <1>6 DEF PhaseOf
  <2>2. CASE TaskReturns(t)
    <3>1. /\ m_state' = [m_state EXCEPT ![f] = "TERM"]
          /\ m_cb' = [m_cb EXCEPT ![f] = Null]
          /\ pc' = [pc EXCEPT ![t] = "ending"]
      BY <2>2 DEF TaskReturns, Leave
    <3>2. pc'[t] = "ending"
      BY <3>1, <1>6
    <3> HIDE DEF f
    <3> QED BY <3>1, <3>2, <1>3, <1>5, <1>6 DEF PhaseOf, Ended
  <2>3. CASE TaskThrows(t)
    <3>1. /\ m_state' = [m_state EXCEPT ![f] = "EXEC"] /\ UNCHANGED m_cb
          /\ pc' = [pc EXCEPT ![t] = "ending"]
          /\ finished' = finished \cup ({m_cb[f]} \ {Null})
          /\ "throw" \in Behaviours
      BY <2>3, <1>3 DEF TaskThrows, Leave, Task
    <3>2. pc'[t] = "ending"
      BY <3>1, <1>6
    <3> HIDE DEF f
    <3> QED BY <3>1, <3>2, <1>3, <1>5, <1>6 DEF PhaseOf, Ended
  <2> QED BY <2>1, <2>2, <2>3
<1>8. Exclusive' /\ QueueRunnable' /\ SpareReady' /\ PickedRunnable' /\ BusyPhase'
  BY <1>2, <1>3, <1>4, <1>7, OwnFiberStep
<1>9. Aborts'
  BY <1>1, <1>2 DEF Aborts
<1> QED BY <1>8, <1>9 DEF Phases

(* The second half of the switch.                                          *)
LEMMA SwapOutFiber ==
  ASSUME FiberInv, NEW t \in Threads, SwapOut(t)
  PROVE  Exclusive' /\ Phases' /\ Aborts'
<1> DEFINE f == Cur(t)
<1>0. /\ pc[t] \in {"leaving", "ending"} /\ pc' = [pc EXCEPT ![t] = "back"]
      /\ m_ctx' = [m_ctx EXCEPT ![f] = IF pc[t] = "ending" THEN "end" ELSE "mid"]
      /\ UNCHANGED <<m_fibers, m_state, m_cb, ft, cb_fiber, waiting, finished, abort>>
  BY DEF SwapOut, locals, history
<1>1. TypeInv /\ Exclusive /\ Phases /\ Aborts
  BY DEF FiberInv
<1>2. f \in Fibers /\ PhaseOf(t)
  BY <1>0, <1>1, Shapes DEF Phases, BusyPhase
<1>3. Cur(t)' = f /\ pc'[t] = "back"
  <2>1. Cur(t)' = f
    BY <1>0 DEF Cur
  <2>2. pc'[t] = "back"
    BY <1>0, <1>1 DEF TypeInv, Types, ThreadType
  <2> QED BY <2>1, <2>2
<1>4. \A g \in Fibers :
        m_ctx'[g] = IF g # f THEN m_ctx[g] ELSE IF pc[t] = "ending" THEN "end" ELSE "mid"
  BY <1>0, <1>1 DEF TypeInv, Types, FiberType
<1>5. PhaseOf(t)'
  BY <1>0, <1>2, <1>3, <1>4 DEF PhaseOf, Ended
<1>6. Exclusive' /\ QueueRunnable' /\ SpareReady' /\ PickedRunnable' /\ BusyPhase'
  <2>1. \A g \in Fibers : g # f =>
          m_state'[g] = m_state[g] /\ m_cb'[g] = m_cb[g] /\ m_ctx'[g] = m_ctx[g]
    BY <1>0, <1>4
  <2>2. "back" \in BusyPcs /\ "back" # "holding"
    OBVIOUS
  <2>3. pc[t] \in {"run"} \cup BusyPcs /\ (pc[t] = "run" => ft[t].fiber # Null)
    BY <1>0
  <2>4. finished \subseteq finished' /\ UNCHANGED <<m_fibers, ft, cb_fiber, waiting>>
    BY <1>0
  <2> HIDE DEF BusyPcs
  <2> QED BY <1>0, <1>2, <1>5, <2>1, <2>2, <2>3, <2>4, OwnFiberStep
<1>7. Aborts'
  BY <1>0, <1>1 DEF Aborts
<1> QED BY <1>6, <1>7 DEF Phases

(* A callback runs on the spare fiber of the thread or on a new one.       *)
LEMMA RunCbFiber ==
  ASSUME FiberInv, NEW t \in Threads, RunCb(t)
  PROVE  Exclusive' /\ Phases' /\ Aborts'
<1> DEFINE c == ft[t].cb
<1>1. TypeInv /\ Exclusive /\ Phases /\ Aborts
  BY DEF FiberInv
<1>2. PICK f \in Fibers :
        /\ IF cb_fiber[t] # Null THEN f = cb_fiber[t] ELSE m_state[f] = "FREE"
        /\ cb_fiber' = [cb_fiber EXCEPT ![t] = f]
        /\ m_cb' = [m_cb EXCEPT ![f] = c]
        /\ m_ctx' = [m_ctx EXCEPT ![f] = "start"]
        /\ m_state' = [m_state EXCEPT ![f] = "EXEC"]
        /\ abort' = IF m_state[f] \in {"FREE", "TERM", "INIT", "EXCEPT"} THEN abort ELSE "reset"
  BY DEF RunCb
<1>3. /\ pc[t] = "run" /\ pc' = [pc EXCEPT ![t] = "exec"] /\ ft[t].fiber = Null
      /\ ft' = [ft EXCEPT ![t] = NoEntry]
      /\ UNCHANGED <<m_fibers, waiting, finished>>
  BY DEF RunCb
<1>4. c # Null
  BY <1>1, <1>3 DEF TypeInv, Hands, GoodEntry
<1> HIDE DEF c
<1>5. /\ \A i \in 1..Len(m_fibers) : m_fibers[i].fiber \in Fibers \cup {Null}
      /\ \A u \in Threads : /\ ft[u].fiber \in Fibers \cup {Null}
                            /\ cb_fiber[u] \in Fibers \cup {Null}
                            /\ pc[u] \in BusyPcs => Cur(u) \in Fibers
      /\ f # Null /\ NoEntry.fiber = Null
  BY <1>1, Shapes
<1>6. /\ \A i \in 1..Len(m_fibers) : m_fibers[i].fiber # f
      /\ \A u \in Threads : ft[u].fiber # f /\ (u # t => cb_fiber[u] # f)
      /\ m_state[f] \in {"FREE", "INIT"}
  <2>1. CASE cb_fiber[t] # Null
    <3>1. f = cb_fiber[t] /\ ~RunsCb(t)
      BY <2>1, <1>2, <1>3 DEF RunsCb
    <3>2. m_state[f] = "INIT"
      BY <2>1, <3>1, <1>1 DEF Phases, SpareReady
    <3> QED BY <2>1, <3>1, <3>2, <1>1, <1>5 DEF Exclusive, QueueApart, HandsApart
  <2>2. CASE cb_fiber[t] = Null
    BY <2>2, <1>2, FreeIsFresh
  <2> QED BY <2>1, <2>2
<1>7. /\ \A u \in Threads : /\ pc'[u] = IF u = t THEN "exec" ELSE pc[u]
                            /\ ft'[u] = IF u = t THEN NoEntry ELSE ft[u]
                            /\ cb_fiber'[u] = IF u = t THEN f ELSE cb_fiber[u]
      /\ \A g \in Fibers : /\ m_state'[g] = IF g = f THEN "EXEC" ELSE m_state[g]
                           /\ m_cb'[g] = IF g = f THEN c ELSE m_cb[g]
                           /\ m_ctx'[g] = IF g = f THEN "start" ELSE m_ctx[g]
  BY <1>1, <1>2, <1>3 DEF TypeInv, Types, ThreadType, FiberType
<1>8. Exclusive'
  <2>1. NoneHolds'
    BY <1>1, <1>3, <1>7 DEF Exclusive, NoneHolds
  <2>2. QueueDistinct'
    BY <1>1, <1>3 DEF Exclusive, QueueDistinct
  <2>3. QueueApart'
    BY <1>1, <1>3, <1>5, <1>6, <1>7 DEF Exclusive, QueueApart
  <2>4. HandsApart'
    BY <1>1, <1>3, <1>5, <1>6, <1>7 DEF Exclusive, HandsApart
  <2> QED BY <2>1, <2>2, <2>3, <2>4 DEF Exclusive
<1>9. QueueRunnable'
  BY <1>1, <1>3, <1>5, <1>6, <1>7 DEF Phases, QueueRunnable, Runnable
<1>10. PickedRunnable'
  BY <1>1, <1>5, <1>6, <1>7 DEF Phases, PickedRunnable, Runnable
<1>11. SpareReady'
  <2> SUFFICES ASSUME NEW u \in Threads, cb_fiber'[u] # Null, ~RunsCb(u)'
               PROVE  m_state'[cb_fiber'[u]] = "INIT" /\ m_cb'[cb_fiber'[u]] = Null
    BY DEF SpareReady
  <2>1. u # t
    BY <1>5, <1>7 DEF RunsCb
  <2>2. ~RunsCb(u) /\ cb_fiber'[u] = cb_fiber[u] /\ cb_fiber[u] # f
    BY <2>1, <1>6, <1>7 DEF RunsCb
  <2> QED BY <2>2, <1>1, <1>5, <1>7 DEF Phases, SpareReady
<1>12. BusyPhase'
  <2> SUFFICES ASSUME NEW u \in Threads, pc'[u] \in BusyPcs PROVE PhaseOf(u)'
    BY DEF BusyPhase
  <2>1. CASE u = t
    <3>1. Cur(t)' = f /\ pc'[t] = "exec"
      BY <1>5, <1>7 DEF Cur
    <3> QED BY <2>1, <3>1, <1>4, <1>7 DEF PhaseOf
  <2>2. CASE u # t
    <3>1. Cur(u)' = Cur(u) /\ Cur(u) \in Fibers /\ Cur(u) # f /\ pc'[u] = pc[u]
      BY <2>2, <1>5, <1>6, <1>7 DEF Cur
    <3>2. PhaseOf(u)
      BY <3>1, <1>1 DEF Phases, BusyPhase
    <3> QED BY <3>1, <3>2, <1>3, <1>7 DEF PhaseOf, Ended
  <2> QED BY <2>1, <2>2
<1>13. Aborts'
  BY <1>1, <1>2, <1>6 DEF Aborts
<1> QED BY <1>8, <1>9, <1>10, <1>11, <1>12, <1>13 DEF Phases

(* The step that gives the fiber back: to the queue, to the spare place or *)
(* to its destructor.                                                      *)
LEMMA SettleFiber ==
  ASSUME FiberInv, NEW t \in Threads, Settle(t)
  PROVE  Exclusive' /\ Phases' /\ Aborts'
<1> DEFINE f == Cur(t)  st == m_state[f]  isCb == ft[t].fiber = Null
           keep == isCb /\ st \in {"TERM", "EXCEPT"}
<1>1. TypeInv /\ Exclusive /\ Phases /\ Aborts
  BY DEF FiberInv
<1>2. /\ pc[t] = "settle" /\ pc' = [pc EXCEPT ![t] = "pick"]
      /\ m_fibers' = Requeue(f, st) /\ ft' = [ft EXCEPT ![t] = NoEntry]
      /\ UNCHANGED <<waiting, finished>>
  BY DEF Settle, history
<1>3. /\ \A i \in 1..Len(m_fibers) : m_fibers[i].fiber \in Fibers \cup {Null}
      /\ \A u \in Threads : /\ ft[u].fiber \in Fibers \cup {Null}
                            /\ cb_fiber[u] \in Fibers \cup {Null}
                            /\ pc[u] \in BusyPcs => Cur(u) \in Fibers
      /\ f \in Fibers /\ f # Null /\ NoEntry.fiber = Null /\ Len(m_fibers) \in Nat
  BY <1>1, <1>2, Shapes
<1>4. /\ \A i \in 1..Len(m_fibers) : m_fibers[i].fiber # f
      /\ \A u \in Threads : u # t => ft[u].fiber # f /\ cb_fiber[u] # f
      /\ cb_fiber[t] = f <=> isCb
  BY <1>1, <1>3 DEF Exclusive, QueueApart, HandsApart, Cur
<1>5. \/ st = "READY" /\ m_ctx[f] = "mid" /\ m_cb[f] # Null
      \/ Ended(f) /\ m_ctx[f] = "end"
  BY <1>1, <1>2 DEF Phases, BusyPhase, PhaseOf
<1>6. \A u \in Threads : /\ pc'[u] = IF u = t THEN "pick" ELSE pc[u]
                         /\ ft'[u] = IF u = t THEN NoEntry ELSE ft[u]
  BY <1>1, <1>2 DEF TypeInv, Types, ThreadType
<1>7. m_fibers \in Seq(FiberAndThread)
  BY <1>1 DEF TypeInv, Types, QueueType
(* what happens to the fiber and to cb_fiber *)
<1>8. /\ \A g \in Fibers : g # f =>
           m_state'[g] = m_state[g] /\ m_cb'[g] = m_cb[g] /\ m_ctx'[g] = m_ctx[g]
      /\ st = "READY" => m_state'[f] = "READY" /\ m_cb'[f] = m_cb[f] /\ m_ctx'[f] = m_ctx[f]
      /\ keep => m_state'[f] = "INIT" /\ m_cb'[f] = Null /\ cb_fiber' = cb_fiber
      /\ ~keep => cb_fiber' = IF isCb THEN [cb_fiber EXCEPT ![t] = Null] ELSE cb_fiber
      /\ abort' \in {abort, "~Fiber"}
      /\ abort' # abort => st = "EXEC"
  <2>0. /\ m_state \in [Fibers -> FiberStates] /\ m_cb \in [Fibers -> Tasks \cup {Null}]
        /\ m_ctx \in [Fibers -> Contexts]
    BY <1>1 DEF TypeInv, Types, FiberType
  <2>1. CASE keep
    <3>1. /\ m_state' = [m_state EXCEPT ![f] = "INIT"]
          /\ m_cb' = [m_cb EXCEPT ![f] = Null]
          /\ m_ctx' = [m_ctx EXCEPT ![f] = "start"]
          /\ UNCHANGED <<abort, cb_fiber>>
      BY <2>1 DEF Settle
    <3>2. st # "READY"
      BY <2>1
    <3> HIDE DEF f, st, isCb
    <3> QED BY <2>0, <2>1, <3>1, <3>2, <1>3
  <2>2. CASE ~keep
    <3>1. /\ DropFiber(f, t, Requeue(f, st), StateAfter(st))
          /\ cb_fiber' = IF isCb THEN [cb_fiber EXCEPT ![t] = Null] ELSE cb_fiber
      BY <2>2 DEF Settle
    <3>2. CASE st = "READY"
      <4>1. Referenced(f, t, Requeue(f, st)) /\ StateAfter(st) = "READY"
        BY <3>2, <1>5 DEF Referenced, StateAfter, Ended
      <4>2. m_state' = [m_state EXCEPT ![f] = "READY"] /\ UNCHANGED <<m_cb, m_ctx, abort>>
        BY <3>1, <4>1 DEF DropFiber
      <4> HIDE DEF f, isCb
      <4> QED BY <2>0, <2>2, <3>1, <3>2, <4>2, <1>3
    <3>3. CASE st # "READY"
      <4>1. /\ \A g \in Fibers : g # f =>
                 m_state'[g] = m_state[g] /\ m_cb'[g] = m_cb[g] /\ m_ctx'[g] = m_ctx[g]
            /\ abort' \in {abort, "~Fiber"}
            /\ abort' # abort => StateAfter(st) \notin {"TERM", "INIT", "EXCEPT"}
        BY <3>1, <2>0 DEF DropFiber
      <4>2. abort' # abort => st = "EXEC"
        BY <4>1, <3>3, <1>5 DEF StateAfter, Ended
      <4> HIDE DEF f, st, isCb
      <4> QED BY <2>2, <3>1, <3>3, <4>1, <4>2
    <3> QED BY <3>2, <3>3
  <2> QED BY <2>1, <2>2
<1>9. /\ \A u \in Threads : u # t => cb_fiber'[u] = cb_fiber[u]
      /\ cb_fiber'[t] = IF isCb /\ ~keep THEN Null ELSE cb_fiber[t]
  BY <1>1, <1>8 DEF TypeInv, Types, ThreadType
(* the queue *)
<1>10. \A i \in 1..Len(m_fibers') :
         \/ i \in 1..Len(m_fibers) /\ m_fibers'[i] = m_fibers[i]
         \/ i = Len(m_fibers) + 1 /\ m_fibers'[i].fiber = f /\ st = "READY"
  <2> DEFINE e == Entry(f, Null, AnyThread)
  <2>1. e \in FiberAndThread /\ e.fiber = f
    BY <1>3 DEF Entry, FiberAndThread
  <2>2. m_fibers' = IF st = "READY" THEN Append(m_fibers, e) ELSE m_fibers
    BY <1>2 DEF Requeue
  <2> HIDE DEF e, f, st
  <2> QED BY <2>1, <2>2, <1>3, <1>7, AppendType
<1>11. st = "READY" => cb_fiber'[t] # f
  BY <1>3, <1>4, <1>9
<1> HIDE DEF f, st, isCb, keep
<1>12. Exclusive'
  <2>1. NoneHolds'
    BY <1>1, <1>2, <1>6 DEF Exclusive, NoneHolds
  <2>2. QueueDistinct'
    BY <1>1, <1>3, <1>4, <1>10 DEF Exclusive, QueueDistinct
  <2>3. QueueApart'
    BY <1>1, <1>3, <1>4, <1>6, <1>9, <1>10, <1>11 DEF Exclusive, QueueApart
  <2>4. HandsApart'
    BY <1>1, <1>3, <1>6, <1>9 DEF Exclusive, HandsApart
  <2> QED BY <2>1, <2>2, <2>3, <2>4 DEF Exclusive
<1>13. QueueRunnable'
  BY <1>1, <1>3, <1>4, <1>5, <1>8, <1>10 DEF Phases, QueueRunnable, Runnable, Ended, st
<1>14. PickedRunnable'
  BY <1>1, <1>3, <1>4, <1>6, <1>8 DEF Phases, PickedRunnable, Runnable
<1>15. SpareReady'
  <2> SUFFICES ASSUME NEW u \in Threads, cb_fiber'[u] # Null, ~RunsCb(u)'
               PROVE  m_state'[cb_fiber'[u]] = "INIT" /\ m_cb'[cb_fiber'[u]] = Null
    BY DEF SpareReady
  <2>1. CASE u # t
    <3>1. ~RunsCb(u) /\ cb_fiber'[u] = cb_fiber[u] /\ cb_fiber[u] # f
      BY <2>1, <1>4, <1>6, <1>9 DEF RunsCb
    <3> QED BY <3>1, <1>1, <1>3, <1>8 DEF Phases, SpareReady
  <2>2. CASE u = t /\ isCb
    BY <2>2, <1>4, <1>8, <1>9
  <2>3. CASE u = t /\ ~isCb
    <3>1. ~RunsCb(t) /\ cb_fiber'[t] = cb_fiber[t] /\ cb_fiber[t] # f
      BY <2>3, <1>4, <1>9 DEF RunsCb, isCb
    <3> QED BY <2>3, <3>1, <1>1, <1>3, <1>8 DEF Phases, SpareReady
  <2> QED BY <2>1, <2>2, <2>3
<1>16. BusyPhase'
  <2> SUFFICES ASSUME NEW u \in Threads, pc'[u] \in BusyPcs PROVE PhaseOf(u)'
    BY DEF BusyPhase
  <2>1. u # t /\ pc'[u] = pc[u]
    BY <1>6
  <2>2. Cur(u)' = Cur(u) /\ Cur(u) \in Fibers /\ Cur(u) # f
    BY <2>1, <1>3, <1>4, <1>6, <1>9 DEF Cur
  <2>3. PhaseOf(u)
    BY <2>1, <1>1 DEF Phases, BusyPhase
  <2> QED BY <2>1, <2>2, <2>3, <1>2, <1>8 DEF PhaseOf, Ended
<1>17. Aborts'
  BY <1>1, <1>5, <1>8 DEF Aborts, Ended, st
<1> QED BY <1>12, <1>13, <1>14, <1>15, <1>16, <1>17 DEF Phases

(* run() returns: only the spare fiber, which has no function, goes.       *)
LEMMA ExitRunFiber ==
  ASSUME FiberInv, NEW t \in Threads, ExitRun(t)
  PROVE  Exclusive' /\ Phases' /\ Aborts'
<1> DEFINE f == cb_fiber[t]
<1>1. TypeInv /\ Exclusive /\ Phases /\ Aborts
  BY DEF FiberInv
<1>2. /\ pc[t] = "nofiber" /\ pc' = [pc EXCEPT ![t] = "exited"]
      /\ cb_fiber' = [cb_fiber EXCEPT ![t] = Null]
      /\ UNCHANGED <<m_fibers, ft, waiting, finished>>
  BY DEF ExitRun, history
<1>3. /\ \A i \in 1..Len(m_fibers) : m_fibers[i].fiber \in Fibers \cup {Null}
      /\ \A u \in Threads : /\ ft[u].fiber \in Fibers \cup {Null}
                            /\ cb_fiber[u] \in Fibers \cup {Null}
                            /\ pc[u] \in BusyPcs => Cur(u) \in Fibers
  BY <1>1, Shapes
<1>4. \A u \in Threads : /\ pc'[u] = IF u = t THEN "exited" ELSE pc[u]
                         /\ cb_fiber'[u] = IF u = t THEN Null ELSE cb_fiber[u]
  BY <1>1, <1>2 DEF TypeInv, Types, ThreadType
<1>5. /\ \A g \in Fibers : g # f =>
           m_state'[g] = m_state[g] /\ m_cb'[g] = m_cb[g] /\ m_ctx'[g] = m_ctx[g]
      /\ abort' = abort
  <2>0. /\ m_state \in [Fibers -> FiberStates] /\ m_cb \in [Fibers -> Tasks \cup {Null}]
        /\ m_ctx \in [Fibers -> Contexts]
    BY <1>1 DEF TypeInv, Types, FiberType
  <2>1. CASE f = Null
    BY <2>1 DEF ExitRun, fibers
  <2>2. CASE f # Null
    <3>1. DropFiber(f, t, m_fibers, m_state[f])
      BY <2>2 DEF ExitRun
    <3>2. m_state[f] = "INIT"
      BY <2>2, <1>1, <1>2 DEF Phases, SpareReady, RunsCb
    <3> HIDE DEF f
    <3> QED BY <2>0, <3>1, <3>2 DEF DropFiber
  <2> QED BY <2>1, <2>2
<1>6. f # Null =>
        /\ \A i \in 1..Len(m_fibers) : m_fibers[i].fiber # f
        /\ \A u \in Threads : ft[u].fiber # f /\ (u # t => cb_fiber[u] # f)
  BY <1>1, <1>3 DEF Exclusive, QueueApart, HandsApart
<1> HIDE DEF f
<1>7. Exclusive'
  <2>1. NoneHolds'
    BY <1>1, <1>2, <1>4 DEF Exclusive, NoneHolds
  <2>2. QueueDistinct' /\ QueueApart' /\ HandsApart'
    BY <1>1, <1>2, <1>3, <1>4 DEF Exclusive, QueueDistinct, QueueApart, HandsApart
  <2> QED BY <2>1, <2>2 DEF Exclusive
<1>8. QueueRunnable'
  BY <1>1, <1>2, <1>3, <1>5, <1>6 DEF Phases, QueueRunnable, Runnable
<1>9. PickedRunnable'
  BY <1>1, <1>2, <1>3, <1>4, <1>5, <1>6 DEF Phases, PickedRunnable, Runnable
<1>10. SpareReady'
  <2> SUFFICES ASSUME NEW u \in Threads, cb_fiber'[u] # Null, ~RunsCb(u)'
               PROVE  m_state'[cb_fiber'[u]] = "INIT" /\ m_cb'[cb_fiber'[u]] = Null
    BY DEF SpareReady
  <2>1. u # t /\ ~RunsCb(u) /\ cb_fiber'[u] = cb_fiber[u]
    BY <1>2, <1>4 DEF RunsCb
  <2>2. cb_fiber[u] \in Fibers /\ cb_fiber[u] # f
    BY <2>1, <1>3, <1>6
  <2> QED BY <2>1, <2>2, <1>1, <1>5 DEF Phases, SpareReady
<1>11. BusyPhase'
  <2> SUFFICES ASSUME NEW u \in Threads, pc'[u] \in BusyPcs PROVE PhaseOf(u)'
    BY DEF BusyPhase
  <2>1. u # t /\ pc'[u] = pc[u]
    BY <1>4
  <2>2. Cur(u)' = Cur(u) /\ Cur(u) \in Fibers
    BY <2>1, <1>2, <1>3, <1>4 DEF Cur
  <2>3. Cur(u) # f
    BY <2>1, <2>2, <1>6, SchedulerAssumption DEF Cur
  <2>4. PhaseOf(u)
    BY <2>1, <1>1 DEF Phases, BusyPhase
  <2> QED BY <2>1, <2>2, <2>3, <2>4, <1>2, <1>5 DEF PhaseOf, Ended
<1>12. Aborts'
  BY <1>1, <1>5 DEF Aborts
<1> QED BY <1>7, <1>8, <1>9, <1>10, <1>11, <1>12 DEF Phases

(* The owner's start() and stop(), and the steps of an idle thread.        *)
LEMMA StillFiber ==
  ASSUME FiberInv, NEW t \in Threads,
         \/ Start \/ StartReturns \/ StopBegins \/ StopMarks \/ StopCallsRoot \/ StopRootBack \/ StopJoins
         \/ PickNothing(t) \/ CountDown(t) \/ EnterIdle(t) \/ Idle(t) \/ LeaveIdle(t)
  PROVE  Exclusive' /\ Phases' /\ Aborts'
<1>1. TypeInv /\ Exclusive
  BY DEF FiberInv
<1>2. UNCHANGED <<m_fibers, cb_fiber, m_state, m_cb, m_ctx, waiting, finished, abort>>
  BY DEF Start, StartReturns, StopBegins, StopMarks, StopCallsRoot, StopRootBack, StopJoins, PickNothing,
     CountDown, EnterIdle, Idle, LeaveIdle, fibers, locals, history
<1>3. \A u \in Threads : ft'[u] = ft[u]
  <2>1. CASE PickNothing(t)
    BY <2>1, <1>1 DEF PickNothing, Exclusive, NoneHolds, TypeInv, Types, ThreadType
  <2>2. CASE ~PickNothing(t)
    BY <2>2 DEF Start, StartReturns, StopBegins, StopMarks, StopCallsRoot, StopRootBack, StopJoins,
       CountDown, EnterIdle, Idle, LeaveIdle, locals
  <2> QED BY <2>1, <2>2
<1>4. ASSUME NEW u \in Threads
      PROVE  \/ pc'[u] = pc[u]
             \/ pc[u] \notin {"run"} \cup BusyPcs /\ pc'[u] \notin {"run"} \cup BusyPcs
             \/ pc[u] = "back" /\ pc'[u] = "settle"
  <2>0. pc \in [Threads -> Pcs] /\ Root \in Threads
    BY <1>1 DEF TypeInv, Types, ThreadType
  <2>1. CASE Start
    BY <2>0, <2>1, <1>1 DEF Start, TypeInv, AllOff
  <2>2. CASE StartReturns \/ StopBegins \/ StopMarks \/ StopRootBack \/ StopJoins
    BY <2>2 DEF StartReturns, StopBegins, StopMarks, StopRootBack, StopJoins
  <2>3. CASE StopCallsRoot
    BY <2>0, <2>3 DEF StopCallsRoot
  <2>4. CASE PickNothing(t) \/ CountDown(t) \/ EnterIdle(t) \/ Idle(t) \/ LeaveIdle(t)
    BY <2>0, <2>4 DEF PickNothing, CountDown, EnterIdle, Idle, LeaveIdle
  <2> QED BY <2>1, <2>2, <2>3, <2>4
<1> QED BY <1>2, <1>3, <1>4, SteadyFiber

(* No step breaks FiberInv, as long as no callback holds and the sections  *)
(* of m_mutex exclude each other.                                          *)
LEMMA CleanFiberInv ==
  ASSUME NoHold, FiberInv, CleanStep \/ UNCHANGED vars
  PROVE  FiberInv'
<1>1. TypeInv /\ Exclusive
  BY DEF FiberInv
<1>2. TypeInv'
  BY <1>1, CleanTypeInv, StillTypeInv
<1>3. CASE UNCHANGED vars
  <2>1. /\ UNCHANGED <<m_fibers, cb_fiber, m_state, m_cb, m_ctx, waiting, finished, abort>>
        /\ UNCHANGED <<ft, pc>>
    BY <1>3 DEF vars, fibers, locals, history
  <2> QED BY <2>1, <1>2, SteadyFiber DEF FiberInv
<1>4. ASSUME NEW t \in Threads, Run(t) PROVE Exclusive' /\ Phases' /\ Aborts'
  <2>1. CASE \E c \in Tasks, th \in SpawnPins : TaskSpawns(t, c, th)
    <3>1. PICK c \in Tasks, th \in SpawnPins : TaskSpawns(t, c, th)
      BY <2>1
    <3>2. th \in Threads \cup {AnyThread}
      BY <3>1, SchedulerAssumption DEF PoolThreads
    <3>3. /\ m_fibers' = Append(m_fibers, Entry(Null, c, th))
          /\ UNCHANGED <<ft, cb_fiber, pc, m_state, m_cb, m_ctx, waiting, finished, abort>>
      BY <3>1 DEF TaskSpawns, fibers, locals
    <3> QED BY <3>2, <3>3, ScheduleCbFiber
  <2>2. ~TaskRegisters(t)
    BY DEF TaskRegisters, NoHold
  <2>3. ~TaskYieldsHold(t)
    BY <1>1 DEF TaskYieldsHold, Leave, Exclusive, NoneHolds
  <2> QED BY <1>4, <2>1, <2>2, <2>3, PickTaskFiber, RunFiberFiber, RunCbFiber, LeaveFiber,
             SwapOutFiber, SettleFiber, ExitRunFiber, StillFiber DEF Run, Function
<1>5. CASE OwnerSchedules
  <2>1. PICK c \in Tasks, th \in Pins :
          OwnerSchedulesCb(c, th) \/ \E f \in Fibers : OwnerSchedulesFiber(c, f, th)
    BY <1>5 DEF OwnerSchedules
  <2>2. th \in Threads \cup {AnyThread}
    BY SchedulerAssumption DEF PoolThreads
  <2>3. CASE OwnerSchedulesCb(c, th)
    <3>1. /\ m_fibers' = Append(m_fibers, Entry(Null, c, th))
          /\ UNCHANGED <<ft, cb_fiber, pc, m_state, m_cb, m_ctx, waiting, finished, abort>>
      BY <2>3 DEF OwnerSchedulesCb, fibers, locals
    <3>2. Exclusive' /\ Phases' /\ Aborts'
      BY <2>2, <3>1, ScheduleCbFiber
    <3> QED BY <3>2, <1>2 DEF FiberInv
  <2>4. CASE \E f \in Fibers : OwnerSchedulesFiber(c, f, th)
    BY <2>2, <2>4, <1>2, ScheduleFiberFiber DEF FiberInv
  <2> QED BY <2>1, <2>3, <2>4
<1>6. CASE Start \/ StartReturns \/ OwnerStops
  <2>1. Root \in Threads
    OBVIOUS
  <2> QED BY <1>6, <2>1, <1>2, StillFiber DEF FiberInv, OwnerStops
<1>7. CASE \E f \in Fibers : Wake(f)
  BY <1>7, <1>1 DEF Wake, Exclusive, NoneHolds
<1>8. CASE CleanStep
  BY <1>2, <1>4, <1>5, <1>6, <1>7, <1>8 DEF CleanStep, FiberInv
<1> QED BY <1>3, <1>8

LEMMA StepFiberInv ==
  ASSUME NoHold, torn \/ FiberInv, [Next]_vars
  PROVE  (torn \/ FiberInv)'
BY Untorn, CleanFiberInv

-----------------------------------------------------------------------------
(* A fiber never runs on two threads at once, in every pool whose          *)
(* callbacks do not wait with YieldToHold, until two sections of m_mutex   *)
(* overlap after the second unlock of start(): the store of m_state before *)
(* swapcontext in YieldToReady is harmless because only the thread itself  *)
(* schedules the fiber again, after the switch.                            *)
THEOREM FiberExclusion ==
  ASSUME NoHold PROVE Spec => []OneThreadPerFiber
<1>1. torn \/ FiberInv => OneThreadPerFiber
  <2> SUFFICES ASSUME FiberInv, NEW t \in Threads, NEW u \in Threads,
                      pc[t] \in OnFiber, pc[u] \in OnFiber, t # u
               PROVE  Cur(t) # Cur(u)
    BY DEF OneThreadPerFiber
  <2>1. HandsApart /\ Cur(t) \in Fibers /\ Cur(u) \in Fibers /\ Null \notin Fibers
    BY Shapes DEF FiberInv, Exclusive
  <2> QED BY <2>1 DEF HandsApart, Cur
<1>2. (torn \/ FiberInv) /\ [Next]_vars => (torn \/ FiberInv)'
  BY StepFiberInv
<1>3. Init => torn \/ FiberInv
  BY InitFiberInv
<1> QED BY <1>1, <1>2, <1>3, PTL DEF Spec

(* Whatever the callbacks throw, the only assertion that can fail before   *)
(* two sections of m_mutex overlap is the one of ~Fiber: no thread         *)
(* switches to a fiber that is executing or over, and none resets a fiber  *)
(* that is in use.                                                         *)
THEOREM OnlyDestructorAsserts ==
  ASSUME NoHold PROVE Spec => [](torn \/ OnlyDestructorFails)
<1>1. FiberInv => OnlyDestructorFails
  BY DEF FiberInv, Aborts, OnlyDestructorFails
<1>2. (torn \/ FiberInv) /\ [Next]_vars => (torn \/ FiberInv)'
  BY StepFiberInv
<1> QED BY <1>1, <1>2, InitFiberInv, PTL DEF Spec

(* No assertion fails when the callbacks neither throw nor hold, until two *)
(* sections of m_mutex overlap.                                            *)
THEOREM NoAssertionFails ==
  ASSUME NoHold, "throw" \notin Behaviours PROVE Spec => [](torn \/ NoAbort)
<1>1. FiberInv => NoAbort
  BY DEF FiberInv, Aborts, NoAbort
<1>2. (torn \/ FiberInv) /\ [Next]_vars => (torn \/ FiberInv)'
  BY StepFiberInv
<1> QED BY <1>1, <1>2, InitFiberInv, PTL DEF Spec

-----------------------------------------------------------------------------
(* An entry is a fiber or a function, never both.                          *)
Single ==
  /\ \A i \in 1..Len(m_fibers) : m_fibers[i].fiber = Null \/ m_fibers[i].cb = Null
  /\ \A t \in Threads : ft[t].fiber = Null \/ ft[t].cb = Null

(* Where a task is that no event holds.                                    *)
Located(c) == Queued(c) \/ \E t \in Threads : InHand(c, t)
AllLocated == \A c \in scheduled \ finished : Located(c)

(* Thread t will look at the queue again before it leaves run().           *)
Serves(t) ==
  IF pc[t] = "off"
  THEN ctl = "created" \/ (t = Root /\ ctl \in {"starting", "started", "stopping", "root"})
  ELSE ~(idleTerm[t] /\ pc[t] \in {"idleback", "nofiber", "exited"})

(* A thread that has seen stopping() leaves nothing that needs it.         *)
Unpinned == \A i \in 1..Len(m_fibers) : m_fibers[i].thread = AnyThread
LeftOpen == \A t \in Threads : idleTerm[t] => m_autoStop /\ Unpinned

(* How the threads and stop() depend on each other.                        *)
OwnerSteps ==
  /\ m_autoStop <=> ctl \notin {"created", "starting", "started"}
  /\ ctl = "root" => UseCaller
  /\ pc[Root] \notin {"off", "exited"} => ctl = "root"
ThreadSteps ==
  /\ \A t \in Threads : /\ pc[t] # "off" => t \in PoolThreads
                        /\ pc[t] = "exited" => idleTerm[t]
  /\ \A t \in Workers : /\ ctl # "created" => pc[t] # "off"
                        /\ ctl = "stopped" => pc[t] = "exited"
Served == m_fibers # <<>> => \E t \in PoolThreads : Serves(t)
Service == LeftOpen /\ OwnerSteps /\ ThreadSteps /\ Served

(* The inductive invariants behind TaskNotLost and StopDrains.             *)
LocatedInv == FiberInv /\ Single /\ AllLocated
DrainInv == LocatedInv /\ Service

-----------------------------------------------------------------------------

(* schedule() keeps the entries that are there and adds one.               *)
LEMMA AppendEntries ==
  ASSUME TypeInv, NEW e \in FiberAndThread, m_fibers' = Append(m_fibers, e)
  PROVE  /\ \A i \in 1..Len(m_fibers) : \E j \in 1..Len(m_fibers') : m_fibers'[j] = m_fibers[i]
         /\ \E j \in 1..Len(m_fibers') : m_fibers'[j] = e
         /\ \A j \in 1..Len(m_fibers') :
              m_fibers'[j] = e \/ \E i \in 1..Len(m_fibers) : m_fibers'[j] = m_fibers[i]
<1>1. m_fibers \in Seq(FiberAndThread) /\ Len(m_fibers) \in Nat
  BY DEF TypeInv, Types, QueueType
<1>2. /\ Len(m_fibers') = Len(m_fibers) + 1
      /\ \A i \in 1..(Len(m_fibers) + 1) :
           m_fibers'[i] = IF i = Len(m_fibers) + 1 THEN e ELSE m_fibers[i]
  BY <1>1, AppendType
<1>3. \A i \in 1..Len(m_fibers) : i \in 1..Len(m_fibers') /\ m_fibers'[i] = m_fibers[i]
  BY <1>1, <1>2
<1>4. Len(m_fibers) + 1 \in 1..Len(m_fibers') /\ m_fibers'[Len(m_fibers) + 1] = e
  BY <1>1, <1>2
<1>5. \A j \in 1..Len(m_fibers') : j # Len(m_fibers) + 1 =>
        j \in 1..Len(m_fibers) /\ m_fibers'[j] = m_fibers[j]
  BY <1>1, <1>2
<1> QED BY <1>3, <1>4, <1>5

(* Every step of a thread, of the owner or of an event leaves the queue    *)
(* alone, appends one entry, or moves one entry to the thread.             *)
LEMMA QueueStep ==
  ASSUME TypeInv, CleanStep
  PROVE  \/ m_fibers' = m_fibers
         \/ \E t \in Threads : PickTask(t)
         \/ \E e \in FiberAndThread :
              /\ m_fibers' = Append(m_fibers, e)
              /\ e.fiber = Null \/ e.cb = Null
              /\ e.thread = AnyThread \/ e.thread \in SpawnPins \/ OwnerSchedules
<1>1. CASE OwnerSchedules
  <2>1. PICK c \in Tasks, th \in Pins, f \in Fibers \cup {Null} :
          m_fibers' = Append(m_fibers, IF f = Null THEN Entry(Null, c, th) ELSE Entry(f, Null, th))
    BY <1>1, SchedulerAssumption DEF OwnerSchedules, OwnerSchedulesCb, OwnerSchedulesFiber
  <2>2. th \in Threads \cup {AnyThread}
    BY SchedulerAssumption DEF PoolThreads
  <2> QED BY <1>1, <2>1, <2>2 DEF Entry, FiberAndThread
<1>2. CASE Start \/ StartReturns \/ OwnerStops
  BY <1>2 DEF Start, StartReturns, OwnerStops, StopBegins, StopMarks, StopCallsRoot, StopRootBack, StopJoins
<1>3. ASSUME NEW t \in Threads, Run(t), ~PickTask(t)
      PROVE  \/ m_fibers' = m_fibers
             \/ \E e \in FiberAndThread :
                  /\ m_fibers' = Append(m_fibers, e)
                  /\ e.fiber = Null \/ e.cb = Null
                  /\ e.thread = AnyThread \/ e.thread \in SpawnPins
  <2>1. CASE \E c \in Tasks, th \in SpawnPins : TaskSpawns(t, c, th)
    <3>1. PICK c \in Tasks, th \in SpawnPins : m_fibers' = Append(m_fibers, Entry(Null, c, th))
      BY <2>1 DEF TaskSpawns
    <3>2. th \in Threads \cup {AnyThread}
      BY SchedulerAssumption DEF PoolThreads
    <3> QED BY <3>1, <3>2 DEF Entry, FiberAndThread
  <2>2. CASE Settle(t)
    <3>1. m_fibers' = Requeue(Cur(t), m_state[Cur(t)]) /\ pc[t] = "settle"
      BY <2>2 DEF Settle
    <3>2. Cur(t) \in Fibers
      BY <3>1, Shapes
    <3> QED BY <3>1, <3>2 DEF Requeue, Entry, FiberAndThread
  <2>3. CASE ~Settle(t) /\ ~(\E c \in Tasks, th \in SpawnPins : TaskSpawns(t, c, th))
    BY <2>3, <1>3 DEF Run, Function, PickNothing, RunFiber, RunCb, TaskYieldsReady, TaskRegisters,
       TaskYieldsHold, TaskReturns, TaskThrows, Leave, SwapOut, CountDown, EnterIdle, Idle,
       LeaveIdle, ExitRun
  <2> QED BY <2>1, <2>2, <2>3
<1>4. CASE \E f \in Fibers : Wake(f)
  BY <1>4 DEF Wake, Entry, FiberAndThread
<1> QED BY <1>1, <1>2, <1>3, <1>4 DEF CleanStep

(* ... and the entry of a thread is dropped or replaced by a queued one.   *)
LEMMA HandStep ==
  ASSUME TypeInv, CleanStep
  PROVE  (\E t \in Threads : PickTask(t)) \/
         \A u \in Threads : ft'[u] = ft[u] \/ ft'[u] = NoEntry
<1>0. ft \in [Threads -> FiberAndThread]
  BY DEF TypeInv, Types, ThreadType
<1>1. CASE OwnerSchedules \/ Start \/ StartReturns \/ OwnerStops \/ \E f \in Fibers : Wake(f)
  BY <1>1 DEF OwnerSchedules, OwnerSchedulesCb, OwnerSchedulesFiber, Start, StartReturns, OwnerStops,
     StopBegins, StopMarks, StopCallsRoot, StopRootBack, StopJoins, Wake, locals
<1>2. ASSUME NEW t \in Threads, Run(t), ~PickTask(t)
      PROVE  ft' = ft \/ ft' = [ft EXCEPT ![t] = NoEntry]
  <2>1. CASE PickNothing(t) \/ RunCb(t) \/ Settle(t)
    BY <2>1 DEF PickNothing, RunCb, Settle
  <2>2. CASE ~PickNothing(t) /\ ~RunCb(t) /\ ~Settle(t)
    BY <2>2, <1>2 DEF Run, Function, RunFiber, TaskSpawns, TaskYieldsReady, TaskRegisters,
       TaskYieldsHold, TaskReturns, TaskThrows, Leave, SwapOut, CountDown, EnterIdle, Idle,
       LeaveIdle, ExitRun, locals
  <2> QED BY <2>1, <2>2
<1> QED BY <1>0, <1>1, <1>2 DEF CleanStep

(* schedule() is the only source of entries, and fills one of the two.    *)
LEMMA StepSingle ==
  ASSUME TypeInv, Single, CleanStep
  PROVE  Single'
<1>0. NoEntry.fiber = Null /\ NoEntry.cb = Null
  BY Shapes
<1>1. CASE \E t \in Threads : PickTask(t)
  <2>1. PICK t \in Threads : PickTask(t)
    BY <1>1
  <2>2. PICK i \in 1..Len(m_fibers) : Takes(t, i)
    BY <2>1, PickTaskFacts
  <2>3. /\ \A j \in 1..Len(m_fibers') : \E k \in 1..Len(m_fibers) : m_fibers'[j] = m_fibers[k]
        /\ \A u \in Threads : ft'[u] = IF u = t THEN m_fibers[i] ELSE ft[u]
    BY <2>2 DEF Takes
  <2>4. \A u \in Threads : ft'[u].fiber = Null \/ ft'[u].cb = Null
    BY <2>2, <2>3 DEF Single
  <2>5. \A j \in 1..Len(m_fibers') : m_fibers'[j].fiber = Null \/ m_fibers'[j].cb = Null
    BY <2>3 DEF Single
  <2> QED BY <2>4, <2>5 DEF Single
<1>2. CASE ~\E t \in Threads : PickTask(t)
  <2>1. \A u \in Threads : ft'[u].fiber = Null \/ ft'[u].cb = Null
    BY <1>0, <1>2, HandStep DEF Single
  <2>2. \A i \in 1..Len(m_fibers') : m_fibers'[i].fiber = Null \/ m_fibers'[i].cb = Null
    <3>1. CASE m_fibers' = m_fibers
      BY <3>1 DEF Single
    <3>2. CASE m_fibers' # m_fibers
      <4>1. PICK e \in FiberAndThread : /\ m_fibers' = Append(m_fibers, e)
                                        /\ e.fiber = Null \/ e.cb = Null
        BY <1>2, <3>2, QueueStep
      <4>2. \A j \in 1..Len(m_fibers') :
              m_fibers'[j] = e \/ \E i \in 1..Len(m_fibers) : m_fibers'[j] = m_fibers[i]
        BY <4>1, AppendEntries
      <4> QED BY <4>1, <4>2 DEF Single
    <3> QED BY <3>1, <3>2
  <2> QED BY <2>1, <2>2 DEF Single
<1> QED BY <1>1, <1>2

-----------------------------------------------------------------------------
(* Tasks are spawned for any thread.                                       *)
NoSpawnPin == SpawnPins \subseteq {AnyThread}

(* A step of thread t in run() moves t only, from inside run() to inside   *)
(* it or, by ExitRun, out of it, and is no step of the owner.              *)
LEMMA RunMoves ==
  ASSUME TypeInv, NEW t \in Threads, Run(t)
  PROVE  /\ pc[t] \notin {"off", "exited"} /\ UNCHANGED <<ctl, m_stopping, m_autoStop>>
         /\ \A u \in Threads : u # t => pc'[u] = pc[u]
         /\ pc'[t] # "off"
         /\ pc'[t] = "exited" => ExitRun(t)
         /\ pc'[t] = "nofiber" => PickNothing(t)
         /\ pc'[t] = "idleback" => Idle(t)
         /\ idleTerm' = idleTerm \/ Idle(t)
<1>0. pc \in [Threads -> Pcs]
  BY DEF TypeInv, Types, ThreadType
<1>1. CASE PickTask(t) \/ PickNothing(t) \/ EnterIdle(t) \/ Idle(t) \/ LeaveIdle(t) \/ ExitRun(t)
  BY <1>0, <1>1 DEF PickTask, PickNothing, EnterIdle, Idle, LeaveIdle, ExitRun, owner, locals
<1>2. CASE RunFiber(t) \/ RunCb(t) \/ SwapOut(t) \/ CountDown(t) \/ Settle(t)
  BY <1>0, <1>2 DEF RunFiber, RunCb, SwapOut, CountDown, Settle, owner, locals
<1>3. CASE Function(t)
  <2>1. CASE \E c \in Tasks, th \in SpawnPins : TaskSpawns(t, c, th)
    BY <1>0, <2>1 DEF TaskSpawns, InFunction, owner, locals
  <2>2. CASE TaskYieldsReady(t) \/ TaskReturns(t) \/ TaskThrows(t)
    <3>1. /\ pc[t] = "exec" /\ UNCHANGED <<owner, locals>>
          /\ \E v \in {"leaving", "ending"} : pc' = [pc EXCEPT ![t] = v]
      BY <2>2 DEF TaskYieldsReady, TaskReturns, TaskThrows, Leave
    <3> QED BY <1>0, <3>1 DEF owner, locals
  <2>3. CASE TaskRegisters(t)
    BY <1>0, <2>3 DEF TaskRegisters, CanYield, InFunction, owner, locals
  <2>4. CASE TaskYieldsHold(t)
    BY <1>0, <2>4 DEF TaskYieldsHold, Leave, owner, locals
  <2> QED BY <1>3, <2>1, <2>2, <2>3, <2>4 DEF Function
<1> QED BY <1>1, <1>2, <1>3 DEF Run

(* The steps of the owner, and of an event, move no thread inside run().   *)
LEMMA OtherMoves ==
  ASSUME OwnerSchedules \/ Start \/ StartReturns \/ OwnerStops \/ \E f \in Fibers : Wake(f)
  PROVE  UNCHANGED idleTerm /\ (m_autoStop => m_autoStop')
BY DEF OwnerSchedules, OwnerSchedulesCb, OwnerSchedulesFiber, Start, StartReturns, OwnerStops,
   StopBegins, StopMarks, StopCallsRoot, StopRootBack, StopJoins, Wake, locals, owner

(* What an idle thread concluded from stopping() stays true: m_autoStop is *)
(* never taken back, and only unpinned entries can still be appended.      *)
LEMMA StepLeftOpen ==
  ASSUME NoSpawnPin, TypeInv, Service, CleanStep
  PROVE  LeftOpen'
<1>1. LeftOpen /\ OwnerSteps
  BY DEF Service
<1>2. m_autoStop => m_autoStop'
  BY RunMoves, OtherMoves DEF CleanStep
<1>3. m_autoStop /\ Unpinned => Unpinned'
  <2> SUFFICES ASSUME m_autoStop, Unpinned PROVE Unpinned'
    OBVIOUS
  <2>1. ~OwnerSchedules
    BY <1>1 DEF OwnerSteps, OwnerSchedules, OwnerSchedulesCb, OwnerSchedulesFiber
  <2>2. CASE m_fibers' = m_fibers
    BY <2>2 DEF Unpinned
  <2>3. CASE \E t \in Threads : PickTask(t)
    <3>1. PICK t \in Threads : PickTask(t)
      BY <2>3
    <3>2. \A j \in 1..Len(m_fibers') : \E k \in 1..Len(m_fibers) : m_fibers'[j] = m_fibers[k]
      BY <3>1, PickTaskFacts DEF Takes
    <3> QED BY <3>2 DEF Unpinned
  <2>4. CASE \E e \in FiberAndThread :
               m_fibers' = Append(m_fibers, e) /\ e.thread = AnyThread
    <3>1. PICK e \in FiberAndThread : m_fibers' = Append(m_fibers, e) /\ e.thread = AnyThread
      BY <2>4
    <3>2. \A j \in 1..Len(m_fibers') :
            m_fibers'[j] = e \/ \E i \in 1..Len(m_fibers) : m_fibers'[j] = m_fibers[i]
      BY <3>1, AppendEntries
    <3> QED BY <3>1, <3>2 DEF Unpinned
  <2> QED BY <2>1, <2>2, <2>3, <2>4, QueueStep DEF NoSpawnPin
<1>4. CASE idleTerm' = idleTerm
  BY <1>1, <1>2, <1>3, <1>4 DEF LeftOpen
<1>5. CASE \E t \in Threads : Idle(t)
  <2>1. PICK t \in Threads : Idle(t)
    BY <1>5
  <2>2. /\ idleTerm' = [idleTerm EXCEPT ![t] = stopping]
        /\ UNCHANGED <<m_fibers, m_autoStop>>
        /\ idleTerm \in [Threads -> BOOLEAN]
    BY <2>1 DEF Idle, owner, TypeInv, Types, ThreadType
  <2>3. stopping => m_autoStop /\ Unpinned
    BY DEF stopping, Unpinned
  <2>4. Unpinned' = Unpinned
    BY <2>2 DEF Unpinned
  <2>5. \A u \in Threads : idleTerm'[u] = IF u = t THEN stopping ELSE idleTerm[u]
    BY <2>2
  <2> QED BY <1>1, <2>2, <2>3, <2>4, <2>5 DEF LeftOpen
<1> QED BY <1>4, <1>5, RunMoves, OtherMoves DEF CleanStep

(* stop() and the threads stay in step.                                    *)
LEMMA StepOwnerThreads ==
  ASSUME TypeInv, Service, CleanStep
  PROVE  OwnerSteps' /\ ThreadSteps'
<1>1. OwnerSteps /\ ThreadSteps /\ AllOff
  BY DEF Service, TypeInv
<1>2. pc \in [Threads -> Pcs] /\ Root \in Threads /\ Root \notin Workers /\ Workers \subseteq PoolThreads
      /\ (UseCaller => Root \in PoolThreads)
  BY SchedulerAssumption DEF TypeInv, Types, ThreadType, PoolThreads
<1>3. CASE OwnerSchedules \/ \E f \in Fibers : Wake(f)
  <2>1. UNCHANGED <<ctl, m_stopping, m_autoStop, pc, idleTerm>>
    BY <1>3 DEF OwnerSchedules, OwnerSchedulesCb, OwnerSchedulesFiber, Wake, owner, locals
  <2> QED BY <1>1, <2>1 DEF OwnerSteps, ThreadSteps
<1>4. CASE Start
  <2>1. /\ ctl = "created" /\ ctl' = "starting" /\ UNCHANGED <<m_autoStop, idleTerm>>
        /\ \A u \in Threads : pc'[u] = IF u \in Workers THEN "pick" ELSE pc[u]
    BY <1>4, <1>2 DEF Start, locals
  <2>2. OwnerSteps'
    BY <1>1, <1>2, <2>1 DEF OwnerSteps
  <2>3. ThreadSteps'
    BY <1>1, <1>2, <2>1 DEF ThreadSteps
  <2> QED BY <2>2, <2>3
<1>5. CASE StopBegins \/ StopMarks \/ StopRootBack \/ StopJoins
  <2>1. UNCHANGED <<pc, idleTerm>>
    BY <1>5 DEF StopBegins, StopMarks, StopRootBack, StopJoins, locals
  <2>2. CASE StopBegins
    BY <2>1, <2>2, <1>1 DEF StopBegins, OwnerSteps, ThreadSteps
  <2>3. CASE StopMarks \/ StopRootBack
    BY <2>1, <2>3, <1>1 DEF StopMarks, StopRootBack, OwnerSteps, ThreadSteps
  <2>4. CASE StopJoins
    BY <2>1, <2>4, <1>1 DEF StopJoins, OwnerSteps, ThreadSteps
  <2> QED BY <1>5, <2>2, <2>3, <2>4
<1>6. CASE StopCallsRoot
  <2>1. /\ ctl = "root" /\ UNCHANGED <<m_autoStop, idleTerm>> /\ pc[Root] = "off"
        /\ \/ ctl' = "join" /\ pc' = pc
           \/ ctl' = ctl /\ pc' = [pc EXCEPT ![Root] = "pick"]
    BY <1>6 DEF StopCallsRoot, locals
  <2>2. OwnerSteps'
    BY <1>1, <1>2, <2>1 DEF OwnerSteps
  <2>3. ThreadSteps'
    BY <1>1, <1>2, <2>1 DEF ThreadSteps, OwnerSteps
  <2> QED BY <2>2, <2>3
<1>7. ASSUME NEW t \in Threads, Run(t) PROVE OwnerSteps' /\ ThreadSteps'
  <2>1. /\ pc[t] \notin {"off", "exited"} /\ UNCHANGED <<ctl, m_autoStop>>
        /\ \A u \in Threads : u # t => pc'[u] = pc[u]
        /\ pc'[t] # "off"
        /\ pc'[t] = "exited" => ExitRun(t)
        /\ idleTerm' = idleTerm \/ Idle(t)
    BY <1>7, RunMoves
  <2>2. /\ \A u \in Threads : u # t => idleTerm'[u] = idleTerm[u]
        /\ pc'[t] = "exited" => idleTerm'[t]
    <3>1. CASE idleTerm' = idleTerm
      BY <2>1, <3>1 DEF ExitRun
    <3>2. CASE Idle(t)
      <4>1. idleTerm' = [idleTerm EXCEPT ![t] = stopping] /\ pc' = [pc EXCEPT ![t] = "idleback"]
        BY <3>2 DEF Idle
      <4>2. idleTerm \in [Threads -> BOOLEAN]
        BY DEF TypeInv, Types, ThreadType
      <4> QED BY <4>1, <4>2, <1>2
    <3> QED BY <2>1, <3>1, <3>2
  <2>3. OwnerSteps'
    BY <1>1, <1>2, <2>1 DEF OwnerSteps
  <2>4. ThreadSteps'
    BY <1>1, <2>1, <2>2 DEF ThreadSteps
  <2> QED BY <2>3, <2>4
<1>8. CASE StartReturns
  <2>1. ctl = "starting" /\ ctl' = "started" /\ UNCHANGED <<pc, idleTerm, m_autoStop>>
    BY <1>8 DEF StartReturns, locals
  <2> QED BY <1>1, <2>1 DEF OwnerSteps, ThreadSteps
<1> QED BY <1>3, <1>4, <1>5, <1>6, <1>7, <1>8 DEF CleanStep, OwnerStops

(* The owner can only schedule while nobody has been told to stop, and     *)
(* then every thread of the pool will look at the queue.                   *)
LEMMA OpenPoolServes ==
  ASSUME TypeInv, Service, ctl \in {"created", "started"}
  PROVE  \E t \in PoolThreads : Serves(t)
<1>1. LeftOpen /\ OwnerSteps /\ ThreadSteps /\ AllOff
  BY DEF Service, TypeInv
<1>2. ~m_autoStop /\ \A t \in Threads : ~idleTerm[t] /\ pc[t] # "exited"
  BY <1>1 DEF LeftOpen, OwnerSteps, ThreadSteps
<1>3. CASE Workers # {}
  <2>1. PICK w \in Workers : TRUE
    BY <1>3
  <2> QED BY <1>1, <1>2, <2>1 DEF PoolThreads, Serves, ThreadSteps
<1>4. CASE Workers = {}
  <2>1. UseCaller /\ Root \in PoolThreads
    BY <1>4, SchedulerAssumption DEF PoolThreads
  <2> QED BY <1>1, <1>2, <2>1 DEF Serves
<1> QED BY <1>3, <1>4

(* A step of a thread inside run() leaves that thread serving the queue,   *)
(* unless it finds stopping() true, or finds nothing after that: with only *)
(* runnable, unpinned entries that means that the queue is empty.          *)
LEMMA RunServes ==
  ASSUME FiberInv, Service, NEW t \in Threads, Run(t)
  PROVE  \/ m_fibers' = <<>>
         \/ Serves(t)'
         \/ ~Serves(t) /\ m_fibers' = m_fibers
<1>1. TypeInv /\ Phases
  BY DEF FiberInv
<1>2. /\ pc'[t] # "off" /\ pc[t] # "off"
      /\ pc'[t] = "exited" => ExitRun(t)
      /\ pc'[t] = "nofiber" => PickNothing(t)
      /\ pc'[t] = "idleback" => Idle(t)
  BY <1>1, RunMoves
<1>3. CASE ExitRun(t)
  BY <1>2, <1>3 DEF ExitRun, Serves
<1>4. CASE PickNothing(t)
  <2>1. /\ m_fibers' = m_fibers /\ idleTerm' = idleTerm
        /\ \A i \in 1..Len(m_fibers) : ~Eligible(t, m_fibers[i])
    BY <1>4 DEF PickNothing
  <2>2. CASE idleTerm[t]
    <3>1. Unpinned
      BY <2>2 DEF Service, LeftOpen
    <3>2. \A i \in 1..Len(m_fibers) : Eligible(t, m_fibers[i])
      BY <1>1, <3>1 DEF Eligible, Unpinned, Phases, QueueRunnable, Runnable
    <3>3. m_fibers \in Seq(FiberAndThread) /\ Len(m_fibers) \in Nat
      BY <1>1 DEF TypeInv, Types, QueueType
    <3>4. Len(m_fibers) = 0
      BY <2>1, <3>2, <3>3
    <3> QED BY <2>1, <3>3, <3>4
  <2>3. CASE ~idleTerm[t]
    BY <1>2, <2>1, <2>3 DEF Serves
  <2> QED BY <2>2, <2>3
<1>5. CASE Idle(t)
  <2>1. /\ m_fibers' = m_fibers /\ idleTerm'[t] = stopping
    BY <1>1, <1>5 DEF Idle, TypeInv, Types, ThreadType
  <2> QED BY <1>2, <2>1 DEF Serves, stopping
<1> QED BY <1>2, <1>3, <1>4, <1>5 DEF Serves

(* As long as the queue has entries, some thread will look at it.         *)
LEMMA StepServed ==
  ASSUME FiberInv, Service, CleanStep
  PROVE  Served'
<1>1. TypeInv /\ Served /\ OwnerSteps /\ ThreadSteps /\ LeftOpen
  BY DEF FiberInv, Service
<1>2. SUFFICES ASSUME m_fibers' # <<>> PROVE \E t \in PoolThreads : Serves(t)'
  BY DEF Served
<1>3. ASSUME NEW t \in Threads, Run(t) PROVE \E u \in PoolThreads : Serves(u)'
  <2>1. t \in PoolThreads /\ UNCHANGED ctl /\ \A u \in Threads : u # t => pc'[u] = pc[u]
    BY <1>1, <1>3, RunMoves DEF ThreadSteps
  <2>2. CASE Serves(t)'
    BY <2>1, <2>2
  <2>3. CASE ~Serves(t) /\ m_fibers' = m_fibers
    <3>1. PICK u \in PoolThreads : Serves(u)
      BY <1>1, <1>2, <2>3 DEF Served
    <3>2. u \in Threads /\ u # t
      BY <2>3, <3>1 DEF PoolThreads
    <3>3. idleTerm'[u] = idleTerm[u]
      <4>1. CASE idleTerm' = idleTerm
        BY <4>1
      <4>2. CASE Idle(t)
        BY <4>2, <3>2, <1>1 DEF Idle, TypeInv, Types, ThreadType
      <4> QED BY <4>1, <4>2, <1>1, <1>3, RunMoves
    <3> QED BY <2>1, <3>1, <3>2, <3>3 DEF Serves
  <2> QED BY <1>2, <1>3, <2>2, <2>3, RunServes
<1>4. CASE OwnerSchedules
  <2>1. ctl \in {"created", "started"} /\ UNCHANGED <<ctl, pc, idleTerm>>
    BY <1>4 DEF OwnerSchedules, OwnerSchedulesCb, OwnerSchedulesFiber, owner, locals
  <2>2. PICK t \in PoolThreads : Serves(t)
    BY <1>1, <2>1, OpenPoolServes
  <2> QED BY <2>1, <2>2 DEF Serves
<1>5. CASE Start \/ StartReturns \/ OwnerStops
  <2>1. UNCHANGED <<m_fibers, idleTerm>>
    BY <1>5 DEF Start, StartReturns, OwnerStops, StopBegins, StopMarks, StopCallsRoot, StopRootBack,
       StopJoins, locals
  <2>2. PICK t \in PoolThreads : Serves(t)
    BY <1>1, <1>2, <2>1 DEF Served
  <2>3. t \in Threads /\ (t \notin Workers => t = Root /\ UseCaller) /\ pc \in [Threads -> Pcs]
        /\ Root \notin Workers
    BY <1>1, SchedulerAssumption DEF PoolThreads, TypeInv, Types, ThreadType
  <2>4. CASE Start
    BY <2>1, <2>2, <2>3, <2>4 DEF Start, Serves
  <2>9. CASE StartReturns
    BY <2>1, <2>2, <2>3, <2>9 DEF StartReturns, Serves
  <2>5. CASE StopBegins
    <3>1. ~(ctl' = "stopped")
      BY <1>2, <2>1, <2>5 DEF StopBegins
    <3> QED BY <2>1, <2>2, <2>3, <2>5, <3>1, <1>1 DEF StopBegins, Serves, ThreadSteps
  <2>6. CASE StopMarks
    BY <2>1, <2>2, <2>3, <2>6, <1>1 DEF StopMarks, Serves, ThreadSteps
  <2>7. CASE StopCallsRoot
    <3>1. ~stopping
      BY <1>2, <2>1 DEF stopping
    <3>2. UNCHANGED ctl /\ pc' = [pc EXCEPT ![Root] = "pick"]
      BY <2>7, <3>1 DEF StopCallsRoot
    <3> QED BY <2>1, <2>2, <2>3, <3>2 DEF Serves
  <2>8. CASE StopRootBack \/ StopJoins
    <3>1. UNCHANGED pc /\ ctl # "created" /\ (ctl \in {"starting", "started", "stopping"} => FALSE)
          /\ (ctl = "root" => pc[Root] = "exited")
      BY <2>8 DEF StopRootBack, StopJoins
    <3> QED BY <2>1, <2>2, <3>1 DEF Serves
  <2> QED BY <1>5, <2>4, <2>5, <2>6, <2>7, <2>8, <2>9 DEF OwnerStops
<1>6. CASE \E f \in Fibers : Wake(f)
  BY <1>6 DEF Wake, FiberInv, Exclusive, NoneHolds
<1> QED BY <1>3, <1>4, <1>5, <1>6 DEF CleanStep

-----------------------------------------------------------------------------
(* No task is lost.                                                        *)

(* A step of thread t, or of nobody, that keeps what the queue and the     *)
(* other threads lead to, and does not lose what t leads to.               *)
LEMMA KeepLocated ==
  ASSUME NEW t \in Threads, NEW c, Located(c),
         \A u \in Threads : u # t =>
           /\ pc'[u] = pc[u] /\ ft'[u] = ft[u] /\ cb_fiber'[u] = cb_fiber[u]
           /\ Cur(u) # Null => m_cb'[Cur(u)] = m_cb[Cur(u)],
         \A i \in 1..Len(m_fibers) :
           /\ \E j \in 1..Len(m_fibers') : m_fibers'[j] = m_fibers[i]
           /\ m_fibers[i].fiber # Null => m_cb'[m_fibers[i].fiber] = m_cb[m_fibers[i].fiber],
         InHand(c, t) => Located(c)'
  PROVE  Located(c)'
<1>1. CASE Queued(c)
  <2>1. Queued(c)'
    BY <1>1 DEF Queued
  <2> QED BY <2>1 DEF Located
<1>2. ASSUME NEW u \in Threads, u # t, InHand(c, u) PROVE Located(c)'
  <2>1. Cur(u)' = Cur(u)
    BY <1>2 DEF Cur
  <2>2. InHand(c, u)'
    BY <1>2, <2>1 DEF InHand
  <2> QED BY <2>2 DEF Located
<1> QED BY <1>1, <1>2 DEF Located

(* A thread that stores into the fiber it owns stores into no other's.     *)
LEMMA OwnCb ==
  ASSUME TypeInv, NEW t \in Threads, NEW f \in Fibers,
         \A i \in 1..Len(m_fibers) : m_fibers[i].fiber # f,
         \A u \in Threads : u # t => ft[u].fiber # f /\ cb_fiber[u] # f,
         \A g \in Fibers : g # f => m_cb'[g] = m_cb[g]
  PROVE  /\ \A u \in Threads : u # t /\ Cur(u) # Null => m_cb'[Cur(u)] = m_cb[Cur(u)]
         /\ \A i \in 1..Len(m_fibers) :
              m_fibers[i].fiber # Null => m_cb'[m_fibers[i].fiber] = m_cb[m_fibers[i].fiber]
<1>1. /\ \A i \in 1..Len(m_fibers) : m_fibers[i].fiber \in Fibers \cup {Null}
      /\ \A u \in Threads : ft[u].fiber \in Fibers \cup {Null} /\ cb_fiber[u] \in Fibers \cup {Null}
  BY Shapes
<1> QED BY <1>1 DEF Cur

(* The fiber a thread has switched to belongs to it.                       *)
LEMMA CurIsOwn ==
  ASSUME FiberInv, NEW t \in Threads, Cur(t) # Null
  PROVE  /\ \A i \in 1..Len(m_fibers) : m_fibers[i].fiber # Cur(t)
         /\ \A u \in Threads : u # t => ft[u].fiber # Cur(t) /\ cb_fiber[u] # Cur(t)
BY Shapes DEF FiberInv, Exclusive, QueueApart, HandsApart, Cur

(* The entry that a thread takes from the queue is in its hands.           *)
LEMMA PickTaskLocated ==
  ASSUME FiberInv, NEW t \in Threads, PickTask(t), NEW c \in Tasks, Located(c)
  PROVE  Located(c)'
<1>1. TypeInv /\ Exclusive
  BY DEF FiberInv
<1> PICK i \in 1..Len(m_fibers) : Takes(t, i)
  BY <1>1, PickTaskFacts
<1>2. /\ \A k \in 1..Len(m_fibers) : k # i =>
           \E j \in 1..Len(m_fibers') : m_fibers'[j] = m_fibers[k]
      /\ \A u \in Threads : ft'[u] = IF u = t THEN m_fibers[i] ELSE ft[u]
  BY DEF Takes
<1>3. /\ UNCHANGED <<m_cb, cb_fiber>> /\ pc[t] = "pick"
      /\ \A u \in Threads : pc'[u] = IF u = t THEN "run" ELSE pc[u]
  BY <1>1, PcFacts DEF PickTask, fibers
<1>4. CASE Queued(c)
  <2>1. PICK k \in 1..Len(m_fibers) :
          \/ m_fibers[k].cb = c
          \/ m_fibers[k].fiber # Null /\ m_cb[m_fibers[k].fiber] = c
    BY <1>4 DEF Queued
  <2>2. CASE k = i
    <3>1. InHand(c, t)'
      BY <1>2, <1>3, <2>1, <2>2 DEF InHand, Cur
    <3> QED BY <3>1 DEF Located
  <2>3. CASE k # i
    <3>1. Queued(c)'
      BY <1>2, <1>3, <2>1, <2>3 DEF Queued
    <3> QED BY <3>1 DEF Located
  <2> QED BY <2>2, <2>3
<1>5. ASSUME NEW u \in Threads, InHand(c, u) PROVE Located(c)'
  <2>1. u # t
    BY <1>3, <1>5 DEF InHand
  <2>2. InHand(c, u)'
    BY <1>2, <1>3, <1>5, <2>1 DEF InHand, Cur
  <2> QED BY <2>2 DEF Located
<1> QED BY <1>4, <1>5 DEF Located

(* Steps that keep every function where it is, and every thread's hands.   *)
LEMMA StillLocated ==
  ASSUME TypeInv, NEW c, Located(c),
         UNCHANGED <<m_cb, ft, cb_fiber>>,
         \/ m_fibers' = m_fibers
         \/ \E e \in FiberAndThread : m_fibers' = Append(m_fibers, e),
         \A u \in Threads :
           \/ pc'[u] = pc[u]
           \/ pc[u] \notin ActivePcs \cup {"settle"}
           \/ pc[u] # "run" /\ pc'[u] \in ActivePcs \cup {"settle"}
  PROVE  Located(c)'
<1>1. \A i \in 1..Len(m_fibers) : \E j \in 1..Len(m_fibers') : m_fibers'[j] = m_fibers[i]
  BY AppendEntries
<1>2. CASE Queued(c)
  <2>1. Queued(c)'
    BY <1>1, <1>2 DEF Queued
  <2> QED BY <2>1 DEF Located
<1>3. ASSUME NEW u \in Threads, InHand(c, u) PROVE Located(c)'
  <2>1. InHand(c, u)'
    BY <1>3 DEF InHand, Cur
  <2> QED BY <2>1 DEF Located
<1> QED BY <1>2, <1>3 DEF Located

(* A new task is in the queue, the old ones stay where they are.           *)
LEMMA ScheduleLocated ==
  ASSUME LocatedInv, OwnerSchedules \/ \E t \in Threads, d \in Tasks, th \in SpawnPins : TaskSpawns(t, d, th)
  PROVE  AllLocated'
<1>0. FiberInv /\ TypeInv /\ AllLocated /\ Null \notin Tasks /\ Null \notin Fibers
  BY SchedulerAssumption DEF LocatedInv, FiberInv
<1>1. ASSUME NEW d \in Tasks, NEW th \in Threads \cup {AnyThread},
             m_fibers' = Append(m_fibers, Entry(Null, d, th)),
             scheduled' = scheduled \cup {d},
             UNCHANGED <<m_cb, ft, cb_fiber, pc, finished>>
      PROVE  AllLocated'
  <2>1. Entry(Null, d, th) \in FiberAndThread /\ Entry(Null, d, th).cb = d
    BY DEF Entry, FiberAndThread
  <2>2. Queued(d)'
    BY <1>0, <1>1, <2>1, AppendEntries DEF Queued
  <2>3. \A c : Located(c) => Located(c)'
    BY <1>0, <1>1, <2>1, StillLocated
  <2> QED BY <1>0, <1>1, <2>2, <2>3 DEF AllLocated, Located
<1>2. ASSUME NEW d \in Tasks, NEW f \in Fibers, NEW th \in Threads \cup {AnyThread},
             OwnerSchedulesFiber(d, f, th)
      PROVE  AllLocated'
  <2>1. /\ m_fibers' = Append(m_fibers, Entry(f, Null, th))
        /\ scheduled' = scheduled \cup {d} /\ m_state[f] = "FREE"
        /\ m_cb' = [m_cb EXCEPT ![f] = d]
        /\ UNCHANGED <<ft, cb_fiber, pc, finished>>
    BY <1>2 DEF OwnerSchedulesFiber, NewFiber, locals
  <2>2. Entry(f, Null, th) \in FiberAndThread /\ Entry(f, Null, th).fiber = f
    BY DEF Entry, FiberAndThread
  <2>3. \A g \in Fibers : m_cb'[g] = IF g = f THEN d ELSE m_cb[g]
    BY <1>0, <2>1 DEF TypeInv, Types, FiberType
  <2>4. Queued(d)'
    BY <1>0, <2>1, <2>2, <2>3, AppendEntries DEF Queued
  <2>5. /\ \A i \in 1..Len(m_fibers) : m_fibers[i].fiber # f
        /\ \A u \in Threads : ft[u].fiber # f /\ cb_fiber[u] # f
        /\ \A u \in Threads : ft[u].fiber \in Fibers \cup {Null} /\ cb_fiber[u] \in Fibers \cup {Null}
    BY <1>0, <2>1, FreeIsFresh, Shapes
  <2>6. ASSUME NEW c, Located(c) PROVE Located(c)'
    <3>1. InHand(c, Root) => Located(c)'
      <4>1. Cur(Root)' = Cur(Root) /\ (Cur(Root) # Null => m_cb'[Cur(Root)] = m_cb[Cur(Root)])
        BY <2>1, <2>3, <2>5 DEF Cur
      <4>2. InHand(c, Root) => InHand(c, Root)'
        BY <2>1, <4>1 DEF InHand
      <4> QED BY <4>2 DEF Located
    <3>2. \A i \in 1..Len(m_fibers) : \E j \in 1..Len(m_fibers') : m_fibers'[j] = m_fibers[i]
      BY <1>0, <2>1, <2>2, AppendEntries
    <3>3. /\ \A u \in Threads : u # Root /\ Cur(u) # Null => m_cb'[Cur(u)] = m_cb[Cur(u)]
          /\ \A i \in 1..Len(m_fibers) :
               m_fibers[i].fiber # Null => m_cb'[m_fibers[i].fiber] = m_cb[m_fibers[i].fiber]
      BY <1>0, <2>3, <2>5, OwnCb
    <3> QED BY <2>1, <2>6, <3>1, <3>2, <3>3, KeepLocated
  <2> QED BY <1>0, <2>1, <2>4, <2>6 DEF AllLocated, Located
<1>3. CASE OwnerSchedules
  <2>1. PICK d \in Tasks, th \in Pins :
          OwnerSchedulesCb(d, th) \/ \E f \in Fibers : OwnerSchedulesFiber(d, f, th)
    BY <1>3 DEF OwnerSchedules
  <2>2. th \in Threads \cup {AnyThread}
    BY SchedulerAssumption DEF PoolThreads
  <2>3. CASE OwnerSchedulesCb(d, th)
    <3>1. /\ m_fibers' = Append(m_fibers, Entry(Null, d, th))
          /\ scheduled' = scheduled \cup {d}
          /\ UNCHANGED <<m_cb, ft, cb_fiber, pc, finished>>
      BY <2>3 DEF OwnerSchedulesCb, fibers, locals
    <3> QED BY <2>2, <3>1, <1>1
  <2> QED BY <2>1, <2>2, <2>3, <1>2
<1>4. CASE \E t \in Threads, d \in Tasks, th \in SpawnPins : TaskSpawns(t, d, th)
  <2>1. PICK t \in Threads, d \in Tasks, th \in SpawnPins : TaskSpawns(t, d, th)
    BY <1>4
  <2>2. th \in Threads \cup {AnyThread}
    BY SchedulerAssumption DEF PoolThreads
  <2>3. /\ m_fibers' = Append(m_fibers, Entry(Null, d, th))
        /\ scheduled' = scheduled \cup {d}
        /\ UNCHANGED <<m_cb, ft, cb_fiber, pc, finished>>
    BY <2>1 DEF TaskSpawns, fibers, locals
  <2> QED BY <2>2, <2>3, <1>1
<1> QED BY <1>3, <1>4

(* swapIn() of the entry in hand: a fiber keeps its function, a function   *)
(* gets the spare fiber or a new one.                                      *)
LEMMA RunLocated ==
  ASSUME LocatedInv, NEW t \in Threads, RunFiber(t) \/ RunCb(t), NEW c \in Tasks, Located(c)
  PROVE  Located(c)'
<1>0. FiberInv /\ TypeInv /\ Single /\ Exclusive /\ Phases /\ Null \notin Tasks /\ Null \notin Fibers
  BY SchedulerAssumption DEF LocatedInv, FiberInv
<1>1. /\ m_fibers' = m_fibers /\ pc[t] = "run"
      /\ \A u \in Threads : pc'[u] = IF u = t THEN "exec" ELSE pc[u]
  BY <1>0, PcFacts DEF RunFiber, RunCb
<1>2. CASE RunFiber(t)
  <2>1. UNCHANGED <<m_cb, ft, cb_fiber>> /\ ft[t].fiber # Null
    BY <1>2 DEF RunFiber, locals
  <2>2. InHand(c, t) => InHand(c, t)'
    BY <1>0, <1>1, <2>1 DEF InHand, Cur, Single
  <2> QED BY <1>1, <2>1, <2>2, KeepLocated DEF Located
<1>3. CASE RunCb(t)
  <2>1. PICK f \in Fibers :
          /\ IF cb_fiber[t] # Null THEN f = cb_fiber[t] ELSE m_state[f] = "FREE"
          /\ cb_fiber' = [cb_fiber EXCEPT ![t] = f]
          /\ m_cb' = [m_cb EXCEPT ![f] = ft[t].cb]
    BY <1>3 DEF RunCb
  <2>2. ft[t].fiber = Null /\ ft' = [ft EXCEPT ![t] = NoEntry] /\ NoEntry.fiber = Null
    BY <1>0, <1>3, Shapes DEF RunCb
  <2>3. /\ \A u \in Threads : /\ ft'[u] = IF u = t THEN NoEntry ELSE ft[u]
                              /\ cb_fiber'[u] = IF u = t THEN f ELSE cb_fiber[u]
        /\ \A g \in Fibers : m_cb'[g] = IF g = f THEN ft[t].cb ELSE m_cb[g]
    BY <1>0, <2>1, <2>2 DEF TypeInv, Types, ThreadType, FiberType
  <2>4. /\ \A i \in 1..Len(m_fibers) : m_fibers[i].fiber # f
        /\ \A u \in Threads : u # t => ft[u].fiber # f /\ cb_fiber[u] # f
    <3>1. CASE cb_fiber[t] # Null
      BY <1>0, <2>1, <2>2, <3>1, CurIsOwn DEF Cur
    <3>2. CASE cb_fiber[t] = Null
      BY <1>0, <2>1, <3>2, FreeIsFresh
    <3> QED BY <3>1, <3>2
  <2>5. InHand(c, t) => InHand(c, t)'
    <3>1. InHand(c, t) => ft[t].cb = c
      <4>1. cb_fiber[t] # Null => m_cb[cb_fiber[t]] = Null
        BY <1>0, <1>1, <2>2 DEF Phases, SpareReady, RunsCb
      <4> QED BY <1>0, <1>1, <2>2, <4>1 DEF InHand, Cur
    <3>2. Cur(t)' = f
      BY <2>2, <2>3 DEF Cur
    <3> QED BY <1>0, <1>1, <2>3, <3>1, <3>2 DEF InHand
  <2>6. /\ \A u \in Threads : u # t /\ Cur(u) # Null => m_cb'[Cur(u)] = m_cb[Cur(u)]
        /\ \A i \in 1..Len(m_fibers) :
             m_fibers[i].fiber # Null => m_cb'[m_fibers[i].fiber] = m_cb[m_fibers[i].fiber]
    BY <1>0, <2>3, <2>4, OwnCb
  <2> QED BY <1>1, <2>3, <2>5, <2>6, KeepLocated DEF Located
<1> QED BY <1>2, <1>3

(* A task whose function returned or threw has finished; the others are    *)
(* where they were.                                                        *)
LEMMA EndLocated ==
  ASSUME LocatedInv, NEW t \in Threads, TaskReturns(t) \/ TaskThrows(t)
  PROVE  AllLocated'
<1>0. FiberInv /\ TypeInv /\ AllLocated /\ Null \notin Tasks /\ Null \notin Fibers
  BY SchedulerAssumption DEF LocatedInv, FiberInv
<1>1. /\ pc[t] = "exec" /\ UNCHANGED <<m_fibers, ft, cb_fiber, scheduled>>
      /\ pc' = [pc EXCEPT ![t] = "ending"]
      /\ \A c \in scheduled' \ finished' : c \in scheduled \ finished /\ c # m_cb[Cur(t)]
  BY <1>0 DEF TaskReturns, TaskThrows, Leave, Task, locals, TypeInv, Types, HistoryType
<1>2. /\ \A u \in Threads : pc'[u] = IF u = t THEN "ending" ELSE pc[u]
      /\ Cur(t) \in Fibers /\ Cur(t) # Null
  <2>1. Cur(t) \in Fibers /\ Cur(t) # Null
    BY <1>0, <1>1, Shapes
  <2>2. \A u \in Threads : pc'[u] = IF u = t THEN "ending" ELSE pc[u]
    <3>1. TypeInv /\ pc' = [pc EXCEPT ![t] = "ending"]
      BY <1>0, <1>1
    <3> QED BY <3>1, PcFacts
  <2> QED BY <2>1, <2>2
<1>3. \A g \in Fibers : g # Cur(t) => m_cb'[g] = m_cb[g]
  BY <1>0 DEF TaskReturns, TaskThrows, TypeInv, Types, FiberType
<1>4. /\ \A u \in Threads : u # t /\ Cur(u) # Null => m_cb'[Cur(u)] = m_cb[Cur(u)]
      /\ \A i \in 1..Len(m_fibers) :
           m_fibers[i].fiber # Null => m_cb'[m_fibers[i].fiber] = m_cb[m_fibers[i].fiber]
  <2>1. /\ \A i \in 1..Len(m_fibers) : m_fibers[i].fiber # Cur(t)
        /\ \A u \in Threads : u # t => ft[u].fiber # Cur(t) /\ cb_fiber[u] # Cur(t)
    BY <1>0, <1>2, CurIsOwn
  <2> QED BY <1>0, <1>2, <1>3, <2>1, OwnCb
<1>5. ASSUME NEW c \in scheduled' \ finished' PROVE Located(c)'
  <2>1. Located(c) /\ ~InHand(c, t)
    BY <1>0, <1>1 DEF AllLocated, InHand
  <2> QED BY <1>1, <1>2, <1>4, <2>1, KeepLocated
<1> QED BY <1>5 DEF AllLocated

(* A fiber that came back READY is queued again with its function.         *)
LEMMA SettleLocated ==
  ASSUME LocatedInv, NEW t \in Threads, Settle(t)
  PROVE  AllLocated'
<1> DEFINE f == Cur(t)
<1>0. FiberInv /\ TypeInv /\ AllLocated /\ Phases /\ Null \notin Tasks /\ Null \notin Fibers
  BY SchedulerAssumption DEF LocatedInv, FiberInv
<1>1. /\ pc[t] = "settle" /\ pc' = [pc EXCEPT ![t] = "pick"]
      /\ m_fibers' = Requeue(f, m_state[f])
      /\ ft' = [ft EXCEPT ![t] = NoEntry]
      /\ UNCHANGED <<scheduled, finished>>
      /\ cb_fiber' = cb_fiber \/ cb_fiber' = [cb_fiber EXCEPT ![t] = Null]
  BY DEF Settle, history
<1>2. /\ \A u \in Threads : pc'[u] = IF u = t THEN "pick" ELSE pc[u]
      /\ \A u \in Threads : u # t => ft'[u] = ft[u] /\ cb_fiber'[u] = cb_fiber[u]
      /\ f \in Fibers /\ f # Null
  <2>1. f \in Fibers /\ f # Null
    BY <1>0, <1>1, Shapes
  <2>2. ft \in [Threads -> FiberAndThread] /\ cb_fiber \in [Threads -> Fibers \cup {Null}]
    BY <1>0 DEF TypeInv, Types, ThreadType
  <2>3. \A u \in Threads : pc'[u] = IF u = t THEN "pick" ELSE pc[u]
    BY <1>0, <1>1, PcFacts
  <2> QED BY <1>1, <2>1, <2>2, <2>3
<1>3. /\ \A g \in Fibers : g # f => m_cb'[g] = m_cb[g]
      /\ m_state[f] = "READY" => m_cb'[f] = m_cb[f]
  <2>0. m_cb \in [Fibers -> Tasks \cup {Null}]
    BY <1>0 DEF TypeInv, Types, FiberType
  <2>1. \/ m_cb' = [m_cb EXCEPT ![f] = Null] /\ m_state[f] # "READY"
        \/ DropFiber(f, t, m_fibers', StateAfter(m_state[f]))
    BY <1>1 DEF Settle
  <2>2. m_state[f] = "READY" => Referenced(f, t, m_fibers')
    BY <1>0, <1>1 DEF Phases, BusyPhase, PhaseOf, Ended, Referenced
  <2> HIDE DEF f
  <2> QED BY <2>0, <2>1, <2>2 DEF DropFiber
<1>4. /\ \A i \in 1..Len(m_fibers) : m_fibers[i].fiber # f
      /\ \A u \in Threads : u # t => ft[u].fiber # f /\ cb_fiber[u] # f
  BY <1>0, <1>2, CurIsOwn
<1>5. /\ \A u \in Threads : u # t /\ Cur(u) # Null => m_cb'[Cur(u)] = m_cb[Cur(u)]
      /\ \A i \in 1..Len(m_fibers) :
           m_fibers[i].fiber # Null => m_cb'[m_fibers[i].fiber] = m_cb[m_fibers[i].fiber]
  BY <1>0, <1>2, <1>3, <1>4, OwnCb
<1>6. /\ \A i \in 1..Len(m_fibers) : \E j \in 1..Len(m_fibers') : m_fibers'[j] = m_fibers[i]
      /\ m_state[f] = "READY" => \E j \in 1..Len(m_fibers') : m_fibers'[j].fiber = f
  <2>1. Entry(f, Null, AnyThread) \in FiberAndThread /\ Entry(f, Null, AnyThread).fiber = f
    BY <1>2 DEF Entry, FiberAndThread
  <2>2. m_fibers' = IF m_state[f] = "READY" THEN Append(m_fibers, Entry(f, Null, AnyThread)) ELSE m_fibers
    BY <1>1 DEF Requeue
  <2> QED BY <1>0, <2>1, <2>2, AppendEntries
<1>7. ASSUME NEW c \in scheduled' \ finished' PROVE Located(c)'
  <2>1. Located(c) /\ c # Null
    BY <1>0, <1>1 DEF AllLocated, TypeInv, Types, HistoryType
  <2>2. InHand(c, t) => Located(c)'
    <3>1. InHand(c, t) => m_cb[f] = c
      BY <1>1 DEF InHand
    <3>2. m_cb[f] = c => m_state[f] = "READY"
      BY <1>0, <1>1, <1>7, <2>1 DEF Phases, BusyPhase, PhaseOf, Ended
    <3>3. m_state[f] = "READY" /\ m_cb[f] = c => Queued(c)'
      BY <1>2, <1>3, <1>6 DEF Queued
    <3> QED BY <3>1, <3>2, <3>3 DEF Located
  <2> HIDE DEF f
  <2> QED BY <1>2, <1>5, <1>6, <2>1, <2>2, KeepLocated
<1> QED BY <1>7 DEF AllLocated

(* The spare fiber that run() destroys has no function.                    *)
LEMMA ExitLocated ==
  ASSUME LocatedInv, NEW t \in Threads, ExitRun(t), NEW c, Located(c)
  PROVE  Located(c)'
<1> DEFINE f == cb_fiber[t]
<1>0. FiberInv /\ TypeInv /\ Exclusive /\ Null \notin Fibers
  BY SchedulerAssumption DEF LocatedInv, FiberInv
<1>1. /\ pc[t] = "nofiber" /\ pc' = [pc EXCEPT ![t] = "exited"]
      /\ cb_fiber' = [cb_fiber EXCEPT ![t] = Null] /\ UNCHANGED <<m_fibers, ft>>
  BY DEF ExitRun
<1>2. /\ \A u \in Threads : pc'[u] = IF u = t THEN "exited" ELSE pc[u]
      /\ \A u \in Threads : u # t => cb_fiber'[u] = cb_fiber[u]
      /\ f \in Fibers \cup {Null}
  BY <1>0, <1>1, PcFacts, Shapes DEF TypeInv, Types, ThreadType
<1>3. ~InHand(c, t)
  BY <1>1 DEF InHand
<1>4. CASE f = Null
  <2>1. UNCHANGED m_cb
    BY <1>4 DEF ExitRun, fibers
  <2> QED BY <1>1, <1>2, <1>3, <2>1, KeepLocated
<1>5. CASE f # Null
  <2>1. \A g \in Fibers : g # f => m_cb'[g] = m_cb[g]
    <3>1. DropFiber(f, t, m_fibers, m_state[f])
      BY <1>5 DEF ExitRun
    <3> HIDE DEF f
    <3> QED BY <1>0, <3>1 DEF DropFiber, TypeInv, Types, FiberType
  <2>2. f = Cur(t)
    BY <1>0, <1>1, Shapes DEF Exclusive, NoneHolds, Cur
  <2>3. /\ \A i \in 1..Len(m_fibers) : m_fibers[i].fiber # f
        /\ \A u \in Threads : u # t => ft[u].fiber # f /\ cb_fiber[u] # f
    BY <1>0, <1>5, <2>2, CurIsOwn
  <2>4. /\ \A u \in Threads : u # t /\ Cur(u) # Null => m_cb'[Cur(u)] = m_cb[Cur(u)]
        /\ \A i \in 1..Len(m_fibers) :
             m_fibers[i].fiber # Null => m_cb'[m_fibers[i].fiber] = m_cb[m_fibers[i].fiber]
    BY <1>0, <1>2, <1>5, <2>1, <2>3, OwnCb
  <2> QED BY <1>1, <1>2, <1>3, <2>4, KeepLocated
<1> QED BY <1>4, <1>5

(* start(), stop(), idling, and the switch back from a fiber.              *)
LEMMA QuietLocated ==
  ASSUME LocatedInv, NEW t \in Threads, NEW c, Located(c),
         \/ Start \/ StartReturns \/ OwnerStops \/ PickNothing(t) \/ EnterIdle(t) \/ Idle(t) \/ LeaveIdle(t)
         \/ TaskYieldsReady(t) \/ SwapOut(t) \/ CountDown(t)
  PROVE  Located(c)'
<1>0. TypeInv /\ AllOff /\ Exclusive /\ pc \in [Threads -> Pcs] /\ ft \in [Threads -> FiberAndThread]
  BY DEF LocatedInv, FiberInv, TypeInv, Types, ThreadType
<1>1. UNCHANGED <<m_cb, cb_fiber, m_fibers>>
  BY DEF Start, StartReturns, OwnerStops, StopBegins, StopMarks, StopCallsRoot, StopRootBack, StopJoins,
     PickNothing, EnterIdle, Idle, LeaveIdle, TaskYieldsReady, Leave, SwapOut, CountDown, fibers,
     locals
<1>2. ft' = ft
  <2>1. CASE PickNothing(t)
    BY <1>0, <2>1 DEF PickNothing, Exclusive, NoneHolds
  <2>2. CASE ~PickNothing(t)
    BY <2>2 DEF Start, StartReturns, OwnerStops, StopBegins, StopMarks, StopCallsRoot, StopRootBack, StopJoins,
       EnterIdle, Idle, LeaveIdle, TaskYieldsReady, Leave, SwapOut, CountDown, locals
  <2> QED BY <2>1, <2>2
<1>3. ASSUME NEW u \in Threads
      PROVE  \/ pc'[u] = pc[u]
             \/ pc[u] \notin ActivePcs \cup {"settle"}
             \/ pc[u] # "run" /\ pc'[u] \in ActivePcs \cup {"settle"}
  <2>1. CASE Start \/ StartReturns
    BY <1>0, <2>1 DEF Start, StartReturns, AllOff
  <2>2. CASE OwnerStops
    BY <1>0, <2>2 DEF OwnerStops, StopBegins, StopMarks, StopCallsRoot, StopRootBack, StopJoins
  <2>3. CASE PickNothing(t) \/ EnterIdle(t) \/ Idle(t) \/ LeaveIdle(t)
    BY <1>0, <2>3 DEF PickNothing, EnterIdle, Idle, LeaveIdle
  <2>4. CASE TaskYieldsReady(t) \/ SwapOut(t) \/ CountDown(t)
    BY <1>0, <2>4 DEF TaskYieldsReady, Leave, SwapOut, CountDown
  <2> QED BY <2>1, <2>2, <2>3, <2>4
<1> QED BY <1>0, <1>1, <1>2, <1>3, StillLocated

(* No step loses a task, as long as no callback holds.                    *)
LEMMA StepLocated ==
  ASSUME NoHold, LocatedInv, CleanStep
  PROVE  AllLocated'
<1>0. FiberInv /\ TypeInv /\ AllLocated /\ Exclusive
  BY DEF LocatedInv, FiberInv
<1>1. ASSUME UNCHANGED <<scheduled, finished>>,
             \A c \in Tasks : Located(c) => Located(c)'
      PROVE  AllLocated'
  BY <1>0, <1>1 DEF AllLocated, TypeInv, Types, HistoryType
<1>2. CASE OwnerSchedules
  BY <1>2, ScheduleLocated
<1>3. CASE Start \/ StartReturns \/ OwnerStops
  <2>1. UNCHANGED <<scheduled, finished>>
    BY <1>3 DEF Start, StartReturns, OwnerStops, StopBegins, StopMarks, StopCallsRoot, StopRootBack, StopJoins,
       history
  <2>2. Root \in Threads
    OBVIOUS
  <2>3. \A c \in Tasks : Located(c) => Located(c)'
    BY <1>3, <2>2, QuietLocated
  <2> QED BY <1>1, <2>1, <2>3
<1>4. CASE \E f \in Fibers : Wake(f)
  BY <1>0, <1>4 DEF Wake, Exclusive, NoneHolds
<1>5. ASSUME NEW t \in Threads, Run(t) PROVE AllLocated'
  <2>1. CASE \E c \in Tasks, th \in SpawnPins : TaskSpawns(t, c, th)
    BY <2>1, ScheduleLocated
  <2>2. CASE TaskReturns(t) \/ TaskThrows(t)
    BY <2>2, EndLocated
  <2>3. CASE Settle(t)
    BY <2>3, SettleLocated
  <2>4. ~TaskRegisters(t) /\ ~TaskYieldsHold(t)
    BY <1>0 DEF TaskRegisters, NoHold, TaskYieldsHold, Leave, Exclusive, NoneHolds
  <2>5. CASE PickTask(t) \/ RunFiber(t) \/ RunCb(t) \/ ExitRun(t)
    <3>1. UNCHANGED <<scheduled, finished>>
      BY <2>5 DEF PickTask, RunFiber, EnterFiber, RunCb, ExitRun, history
    <3>2. \A c \in Tasks : Located(c) => Located(c)'
      BY <2>5, <1>0, PickTaskLocated, RunLocated, ExitLocated
    <3> QED BY <1>1, <3>1, <3>2
  <2>6. CASE \/ PickNothing(t) \/ EnterIdle(t) \/ Idle(t) \/ LeaveIdle(t)
             \/ TaskYieldsReady(t) \/ SwapOut(t) \/ CountDown(t)
    <3>1. UNCHANGED <<scheduled, finished>>
      BY <2>6 DEF PickNothing, EnterIdle, Idle, LeaveIdle, TaskYieldsReady, Leave, SwapOut,
         CountDown, history
    <3>2. \A c \in Tasks : Located(c) => Located(c)'
      BY <2>6, QuietLocated
    <3> QED BY <1>1, <3>1, <3>2
  <2> QED BY <1>5, <2>1, <2>2, <2>3, <2>4, <2>5, <2>6 DEF Run, Function
<1> QED BY <1>2, <1>3, <1>4, <1>5 DEF CleanStep

-----------------------------------------------------------------------------
(* The constructor establishes DrainInv, and no step breaks it.            *)
LEMMA InitDrainInv == Init => DrainInv
<1> SUFFICES ASSUME Init PROVE DrainInv
  OBVIOUS
<1>1. FiberInv
  BY InitFiberInv
<1>2. Single /\ AllLocated
  BY DEF Init, Single, AllLocated, NoEntry, Entry
<1>3. Service
  BY DEF Init, Service, LeftOpen, OwnerSteps, ThreadSteps, Served
<1> QED BY <1>1, <1>2, <1>3 DEF DrainInv, LocatedInv

(* No step breaks LocatedInv, whatever the tasks are pinned to, as long as *)
(* the sections of m_mutex exclude each other.                             *)
LEMMA CleanLocatedInv ==
  ASSUME NoHold, LocatedInv, CleanStep \/ UNCHANGED vars
  PROVE  LocatedInv'
<1>1. FiberInv /\ TypeInv /\ Single /\ AllLocated
  BY DEF LocatedInv, FiberInv
<1>2. FiberInv'
  BY <1>1, CleanFiberInv
<1>3. CASE CleanStep
  BY <1>1, <1>2, <1>3, StepSingle, StepLocated DEF LocatedInv
<1>4. CASE UNCHANGED vars
  <2>1. UNCHANGED <<m_fibers, ft, cb_fiber, pc, m_cb, scheduled, finished>>
    BY <1>4 DEF vars, fibers, locals, history
  <2>2. Single'
    BY <1>1, <2>1 DEF Single
  <2>3. AllLocated'
    BY <1>1, <2>1 DEF AllLocated, Located, Queued, InHand, Cur
  <2> QED BY <1>2, <2>2, <2>3 DEF LocatedInv
<1> QED BY <1>3, <1>4

LEMMA StepLocatedInv ==
  ASSUME NoHold, torn \/ LocatedInv, [Next]_vars
  PROVE  (torn \/ LocatedInv)'
BY Untorn, CleanLocatedInv

(* No step breaks DrainInv when tasks are spawned for any thread.          *)
LEMMA CleanDrainInv ==
  ASSUME NoHold, NoSpawnPin, DrainInv, CleanStep \/ UNCHANGED vars
  PROVE  DrainInv'
<1>1. LocatedInv /\ FiberInv /\ TypeInv /\ Service
  BY DEF DrainInv, LocatedInv, FiberInv
<1>2. LocatedInv'
  BY <1>1, CleanLocatedInv
<1>3. CASE CleanStep
  BY <1>1, <1>2, <1>3, StepLeftOpen, StepOwnerThreads, StepServed DEF Service, DrainInv
<1>4. CASE UNCHANGED vars
  <2>1. UNCHANGED <<m_fibers, idleTerm, pc, ctl, m_autoStop>>
    BY <1>4 DEF vars, owner, locals
  <2>2. Service'
    BY <1>1, <2>1 DEF Service, LeftOpen, Unpinned, OwnerSteps, ThreadSteps, Served, Serves
  <2> QED BY <1>2, <2>2 DEF DrainInv
<1> QED BY <1>3, <1>4

LEMMA StepDrainInv ==
  ASSUME NoHold, NoSpawnPin, torn \/ DrainInv, [Next]_vars
  PROVE  (torn \/ DrainInv)'
BY Untorn, CleanDrainInv

(* No task is dropped while it is unfinished, in every pool whose          *)
(* callbacks do not hold, until two sections of m_mutex overlap: run()     *)
(* never forgets an entry it took.                                         *)
THEOREM NoTaskLost ==
  ASSUME NoHold PROVE Spec => []TaskNotLost
<1>1. torn \/ LocatedInv => TaskNotLost
  BY DEF LocatedInv, AllLocated, Located, TaskNotLost
<1>2. (torn \/ LocatedInv) /\ [Next]_vars => (torn \/ LocatedInv)'
  BY StepLocatedInv
<1>3. Init => torn \/ LocatedInv
  BY InitDrainInv DEF DrainInv
<1> QED BY <1>1, <1>2, <1>3, PTL DEF Spec

(* Once stop() has returned no thread is left that could hold a task.      *)
LEMMA StoppedDrained == DrainInv => StopDrains
<1> SUFFICES ASSUME DrainInv, ctl = "stopped", NEW c \in scheduled \ finished
             PROVE  FALSE
  BY DEF StopDrains
<1>0. TypeInv /\ OwnerSteps /\ ThreadSteps /\ Served /\ Located(c)
  BY DEF DrainInv, LocatedInv, FiberInv, Service, AllLocated
<1>1. \A t \in Threads : pc[t] \in {"off", "exited"}
  BY <1>0 DEF OwnerSteps, ThreadSteps
<1>2. ~\E t \in PoolThreads : Serves(t)
  BY <1>0, <1>1 DEF PoolThreads, ThreadSteps, Serves
<1>3. m_fibers = <<>> /\ ~Queued(c)
  BY <1>0, <1>2 DEF Served, Queued
<1>4. \A t \in Threads : ~InHand(c, t)
  BY <1>1 DEF InHand
<1> QED BY <1>0, <1>3, <1>4 DEF Located

(* When stop() returns and no two sections of m_mutex have overlapped,     *)
(* everything that was scheduled has finished, though                      *)
(* --m_activeThreadCount precedes the schedule() of a READY fiber and      *)
(* threads leave run() in that window: the thread in the window stays.     *)
THEOREM StopDrainsAlways ==
  ASSUME NoHold, NoSpawnPin PROVE Spec => []StopDrains
<1>1. torn \/ DrainInv => StopDrains
  BY StoppedDrained DEF StopDrains
<1>2. (torn \/ DrainInv) /\ [Next]_vars => (torn \/ DrainInv)'
  BY StepDrainInv
<1>3. Init => torn \/ DrainInv
  BY InitDrainInv
<1> QED BY <1>1, <1>2, <1>3, PTL DEF Spec
=============================================================================
