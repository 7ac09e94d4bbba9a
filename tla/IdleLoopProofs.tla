--------------------------- MODULE IdleLoopProofs ---------------------------
(***************************************************************************)
(* What the threads of an IOManager leave behind, for any number of        *)
(* workers and any amount of work.                                         *)
(***************************************************************************)
EXTENDS IdleLoop, FiniteSetTheorems, TLAPS

Asking == {"next", "pending", "queue"}
InPool == {"pick", "enter", "leave", "wait", "expired", "cbs", "events",
           "count", "task", "back", "ready", "again"} \cup Asking
OfRoot == {"owner", "stop next", "stop pending", "stop queue"}
Working == {"task", "back", "ready", "again"}

Numbers ==
  /\ m_fibers \in Nat /\ timers \in Nat /\ due \in Nat
  /\ m_pendingEventCount \in Nat /\ armed \in Nat /\ rdlist \in Nat
  /\ m_stopping \in BOOLEAN /\ late \in BOOLEAN
ThreadTypes ==
  /\ pc \in [Threads -> InPool \cup OfRoot \cup {"exited"}]
  /\ hand \in [Threads -> [cbs : Nat, evs : Nat]]
  /\ term \in [Threads -> BOOLEAN]

(* Only the owner is outside of run(), and a thread has done with idle()    *)
(* only after stop().                                                       *)
Place(t) ==
  /\ pc[t] \in OfRoot => t = Root
  /\ pc[t] = "exited" \/ term[t] => m_stopping
  /\ term[t] => pc[t] \in {"leave", "pick", "exited"} \cup Working
  /\ term[t] /\ pc[t] \in Working => late
  /\ hand[t].evs # 0 => pc[t] \in {"expired", "cbs", "events", "count"}
Places ==
  /\ pc[Root] = "owner" <=> ~m_stopping
  /\ \A t \in Threads : Place(t)

(* The events that thread t has been told of and has not counted down.      *)
Held(t) == hand[t].evs + (IF pc[t] = "count" THEN 1 ELSE 0)
Reported == {x \in Threads \X (Nat \ {0}) : x[2] <= Held(x[1])}
Counted ==
  /\ IsFiniteSet(Reported)
  /\ m_pendingEventCount = armed + rdlist + Cardinality(Reported)

(* A thread that will still look at the queue, at the timers, at the events *)
(* before it leaves.                                                        *)
SeesQueue == \E t \in Threads : pc[t] # "exited"
SeesTimers(t) == /\ ~term[t]
                 /\ pc[t] \in (InPool \ {"pending", "queue"}) \cup {"stop next"}
SeesEvents(t) == /\ ~term[t]
                 /\ pc[t] \in (InPool \ {"queue"})
                              \cup {"stop next", "stop pending"}
Seen ==
  /\ m_fibers # 0 => SeesQueue
  /\ timers + due # 0 /\ ~late => \E t \in Threads : SeesTimers(t)
  /\ m_pendingEventCount # 0 /\ ~late => \E t \in Threads : SeesEvents(t)

IdleInv == Numbers /\ ThreadTypes /\ Places /\ Counted /\ Seen

-----------------------------------------------------------------------------
(* The steps that do not touch what the threads hold.                      *)
LEMMA ReportedKept ==
  ASSUME \A u \in Threads : Held(u)' = Held(u)
  PROVE  Reported' = Reported
BY DEF Reported

LEMMA ReportedMore ==
  ASSUME NEW t \in Threads, Held(t) = 0, Held(t)' \in Nat,
         \A u \in Threads : u # t => Held(u)' = Held(u),
         IsFiniteSet(Reported)
  PROVE  /\ IsFiniteSet(Reported')
         /\ Cardinality(Reported') = Cardinality(Reported) + Held(t)'
<1> DEFINE n == Held(t)'
           N == {t} \X (1 .. n)
<1>1. IsFiniteSet(1 .. n) /\ Cardinality(1 .. n) = n
  BY FS_Interval
<1>2. IsFiniteSet({t}) /\ Cardinality({t}) = 1
  BY FS_Singleton
<1>3. IsFiniteSet(N) /\ Cardinality(N) = n
  <2>1. IsFiniteSet(N) /\ Cardinality(N) = Cardinality({t}) * Cardinality(1 .. n)
    BY <1>1, <1>2, FS_Product
  <2> HIDE DEF N
  <2> QED BY <1>1, <1>2, <2>1
<1>4. \A x \in N : x[1] = t /\ x[2] \in 1 .. n
  OBVIOUS
<1>5. Reported' = Reported \cup N
  <2>1. ASSUME NEW x \in Reported' PROVE x \in Reported \cup N
    <3>1. x \in Threads \X (Nat \ {0}) /\ x[2] <= Held(x[1])'
      BY <2>1 DEF Reported
    <3>2. CASE x[1] = t
      <4>1. x = <<t, x[2]>> /\ x[2] \in 1 .. n
        BY <3>1, <3>2
      <4> QED BY <4>1
    <3>3. CASE x[1] # t
      BY <3>1, <3>3 DEF Reported
    <3> QED BY <3>2, <3>3
  <2>2. ASSUME NEW x \in Reported PROVE x \in Reported'
    <3>1. x \in Threads \X (Nat \ {0}) /\ x[2] <= Held(x[1])
      BY <2>2 DEF Reported
    <3>2. x[1] # t
      BY <3>1
    <3> QED BY <3>1, <3>2 DEF Reported
  <2>3. ASSUME NEW x \in N PROVE x \in Reported'
    <3>1. x \in Threads \X (Nat \ {0}) /\ x[2] <= Held(x[1])'
      BY <2>3
    <3> QED BY <3>1 DEF Reported
  <2> QED BY <2>1, <2>2, <2>3
<1>6. Reported \cap N = {}
  BY <1>4 DEF Reported
<1> HIDE DEF N, n
<1>7. /\ IsFiniteSet(Reported \cup N)
      /\ Cardinality(Reported \cup N) =
           Cardinality(Reported) + Cardinality(N) - Cardinality({})
  BY <1>3, <1>6, FS_Union
<1>8. Cardinality({}) = 0 /\ Cardinality(Reported) \in Nat
  BY FS_EmptySet, FS_CardinalityType
<1>9. n \in Nat /\ Held(t)' = n
  BY DEF n
<1> QED BY <1>3, <1>5, <1>7, <1>8, <1>9

LEMMA ReportedLess ==
  ASSUME NEW t \in Threads, Held(t) \in Nat, Held(t) > 0,
         Held(t)' = Held(t) - 1,
         \A u \in Threads : u # t => Held(u)' = Held(u),
         IsFiniteSet(Reported)
  PROVE  /\ IsFiniteSet(Reported') /\ Cardinality(Reported) > 0
         /\ Cardinality(Reported) \in Nat
         /\ Cardinality(Reported') = Cardinality(Reported) - 1
<1> DEFINE last == <<t, Held(t)>>
<1>1. last \in Reported
  BY DEF Reported
<1>2. Reported' = Reported \ {last}
  <2>1. ASSUME NEW x \in Threads \X (Nat \ {0})
        PROVE  x[2] <= Held(x[1])' <=> x[2] <= Held(x[1]) /\ x # last
    <3>1. CASE x[1] = t
      <4>1. x = last <=> x[2] = Held(t)
        BY <3>1
      <4> QED BY <3>1, <4>1
    <3>2. CASE x[1] # t
      BY <3>2
    <3> QED BY <3>1, <3>2
  <2> HIDE DEF last
  <2> QED BY <2>1 DEF Reported
<1>3. /\ IsFiniteSet(Reported \ {last})
      /\ Cardinality(Reported \ {last}) = Cardinality(Reported) - 1
  BY <1>1, FS_RemoveElement
<1>4. Cardinality(Reported) \in Nat /\ Cardinality(Reported \ {last}) \in Nat
  BY <1>3, FS_CardinalityType
<1> QED BY <1>2, <1>3, <1>4

(* A step of thread t, which may have to take over what it sees or hides.   *)
LEMMA SeenStep ==
  ASSUME Seen, NEW t \in Threads,
         \A u \in Threads : u # t => pc'[u] = pc[u] /\ term'[u] = term[u],
         m_fibers' # 0 => pc'[t] # "exited",
         \/ late' \/ ~(timers' + due' # 0) \/ SeesTimers(t)'
         \/ timers + due # 0 /\ ~late /\ ~SeesTimers(t),
         \/ late' \/ ~(m_pendingEventCount' # 0) \/ SeesEvents(t)'
         \/ m_pendingEventCount # 0 /\ ~late /\ ~SeesEvents(t)
  PROVE  Seen'
<1>1. m_fibers' # 0 => SeesQueue'
  BY DEF SeesQueue
<1>2. ASSUME timers' + due' # 0, ~late'
      PROVE  \E u \in Threads : SeesTimers(u)'
  <2>1. CASE SeesTimers(t)'
    BY <2>1
  <2>2. CASE timers + due # 0 /\ ~late /\ ~SeesTimers(t)
    <3>1. PICK u \in Threads : SeesTimers(u)
      BY <2>2 DEF Seen
    <3> QED BY <2>2, <3>1 DEF SeesTimers
  <2> QED BY <1>2, <2>1, <2>2
<1>3. ASSUME m_pendingEventCount' # 0, ~late'
      PROVE  \E u \in Threads : SeesEvents(u)'
  <2>1. CASE SeesEvents(t)'
    BY <2>1
  <2>2. CASE m_pendingEventCount # 0 /\ ~late /\ ~SeesEvents(t)
    <3>1. PICK u \in Threads : SeesEvents(u)
      BY <2>2 DEF Seen
    <3> QED BY <2>2, <3>1 DEF SeesEvents
  <2> QED BY <1>3, <2>1, <2>2
<1> QED BY <1>1, <1>2, <1>3 DEF Seen

(* A step of thread t inside of run() or stop().                           *)
LEMMA PlacesStep ==
  ASSUME Places, NEW t \in Threads, m_stopping' = m_stopping, late => late',
         \A u \in Threads :
           u # t => pc'[u] = pc[u] /\ term'[u] = term[u] /\ hand'[u] = hand[u],
         pc[t] # "owner", pc'[t] # "owner", Place(t)'
  PROVE  Places'
<1>1. ASSUME NEW u \in Threads PROVE Place(u)'
  <2>1. CASE u = t
    BY <2>1
  <2>2. CASE u # t
    <3>1. Place(u)
      BY DEF Places
    <3> QED BY <2>2, <3>1 DEF Place
  <2> QED BY <2>1, <2>2
<1>2. Root \in Threads
  BY DEF Threads
<1>3. pc'[Root] = "owner" <=> ~m_stopping'
  BY <1>2 DEF Places
<1> QED BY <1>1, <1>3 DEF Places

LEMMA SeenSame ==
  ASSUME Seen, Numbers, NEW t \in Threads,
         \A u \in Threads : u # t => pc'[u] = pc[u] /\ term'[u] = term[u],
         UNCHANGED <<late, timers, due, m_pendingEventCount>>,
         m_fibers' # 0 => pc'[t] # "exited",
         timers + due # 0 /\ SeesTimers(t) => SeesTimers(t)',
         m_pendingEventCount # 0 /\ SeesEvents(t) => SeesEvents(t)'
  PROVE  Seen'
<1>1. m_fibers' # 0 => SeesQueue'
  BY DEF SeesQueue
<1>2. ASSUME timers' + due' # 0, ~late'
      PROVE  \E u \in Threads : SeesTimers(u)'
  <2>1. PICK u \in Threads : SeesTimers(u)
    BY <1>2 DEF Seen
  <2> QED BY <1>2, <2>1 DEF SeesTimers
<1>3. ASSUME m_pendingEventCount' # 0, ~late'
      PROVE  \E u \in Threads : SeesEvents(u)'
  <2>1. PICK u \in Threads : SeesEvents(u)
    BY <1>3 DEF Seen
  <2> QED BY <1>3, <2>1 DEF SeesEvents
<1> QED BY <1>1, <1>2, <1>3 DEF Seen

LEMMA InStopIs ==
  /\ DOMAIN InStop = Asking
  /\ InStop["next"] = "stop next" /\ InStop["pending"] = "stop pending"
  /\ InStop["queue"] = "stop queue"
BY DEF InStop, Asking

LEMMA IdleTake ==
  ASSUME IdleInv, NEW t \in Threads, Take(t)
  PROVE  IdleInv'
<1> USE DEF IdleInv, Take, Go, counts, clocks, epoll
<1>1. Numbers'
  BY DEF Numbers
<1>2. ThreadTypes'
  BY DEF ThreadTypes, InPool, OfRoot, Asking
<1>3. Places'
  <2>1. Place(t)
    BY DEF Places
  <2>2. Place(t)'
    BY <2>1 DEF Place, ThreadTypes, OfRoot, Asking, Working
  <2> QED BY <2>2, PlacesStep DEF ThreadTypes
<1>4. Counted'
  <2>1. Reported' = Reported
    BY ReportedKept DEF Held, ThreadTypes
  <2>2. Cardinality(Reported) \in Nat
    BY FS_CardinalityType DEF Counted
  <2> QED BY <2>1, <2>2 DEF Counted, Numbers
<1>5. Seen'
  <2>1. Place(t)
    BY DEF Places
  <2> QED BY <2>1, SeenStep DEF ThreadTypes, Place, SeesTimers, SeesEvents,
             InPool, OfRoot, Asking, Working
<1> QED BY <1>1, <1>2, <1>3, <1>4, <1>5

LEMMA IdleIdles ==
  ASSUME IdleInv, NEW t \in Threads, Idles(t)
  PROVE  IdleInv'
<1> USE DEF IdleInv, Idles, Go, counts, clocks, epoll
<1>1. Numbers'
  BY DEF Numbers
<1>2. ThreadTypes'
  BY DEF ThreadTypes, InPool, OfRoot, Asking
<1>3. Places'
  <2>1. Place(t)
    BY DEF Places
  <2>2. Place(t)'
    BY <2>1 DEF Place, ThreadTypes, OfRoot, Asking, Working
  <2> QED BY <2>2, PlacesStep DEF ThreadTypes
<1>4. Counted'
  <2>1. Reported' = Reported
    BY ReportedKept DEF Held, ThreadTypes
  <2>2. Cardinality(Reported) \in Nat
    BY FS_CardinalityType DEF Counted
  <2> QED BY <2>1, <2>2 DEF Counted, Numbers
<1>5. Seen'
  <2>1. Place(t)
    BY DEF Places
  <2>2. CASE term[t] /\ pc' = [pc EXCEPT ![t] = "exited"]
    BY <2>1, <2>2, SeenSame DEF ThreadTypes, Place,
       SeesTimers, SeesEvents, InPool, OfRoot, Asking, Working
  <2>3. CASE ~term[t] /\ pc' = [pc EXCEPT ![t] = "enter"]
    BY <2>1, <2>3, SeenSame DEF ThreadTypes, Place,
       SeesTimers, SeesEvents, InPool, OfRoot, Asking, Working
  <2> QED BY <2>2, <2>3
<1> QED BY <1>1, <1>2, <1>3, <1>4, <1>5

LEMMA IdleEnter ==
  ASSUME IdleInv, NEW t \in Threads, Enter(t)
  PROVE  IdleInv'
<1> USE DEF IdleInv, Enter, Go, counts, clocks, epoll
<1>1. Numbers'
  BY DEF Numbers
<1>2. ThreadTypes'
  BY DEF ThreadTypes, InPool, OfRoot, Asking
<1>3. Places'
  <2>1. Place(t)
    BY DEF Places
  <2>2. Place(t)'
    BY <2>1 DEF Place, ThreadTypes, OfRoot, Asking, Working
  <2> QED BY <2>2, PlacesStep DEF ThreadTypes
<1>4. Counted'
  <2>1. Reported' = Reported
    BY ReportedKept DEF Held, ThreadTypes
  <2>2. Cardinality(Reported) \in Nat
    BY FS_CardinalityType DEF Counted
  <2> QED BY <2>1, <2>2 DEF Counted, Numbers
<1>5. Seen'
  <2>1. Place(t)
    BY DEF Places
  <2> QED BY <2>1, SeenStep DEF ThreadTypes, Place, SeesTimers, SeesEvents,
             InPool, OfRoot, Asking, Working
<1> QED BY <1>1, <1>2, <1>3, <1>4, <1>5

LEMMA IdleLeave ==
  ASSUME IdleInv, NEW t \in Threads, Leave(t)
  PROVE  IdleInv'
<1> USE DEF IdleInv, Leave, Go, counts, clocks, epoll
<1>1. Numbers'
  BY DEF Numbers
<1>2. ThreadTypes'
  BY DEF ThreadTypes, InPool, OfRoot, Asking
<1>3. Places'
  <2>1. Place(t)
    BY DEF Places
  <2>2. Place(t)'
    BY <2>1 DEF Place, ThreadTypes, OfRoot, Asking, Working
  <2> QED BY <2>2, PlacesStep DEF ThreadTypes
<1>4. Counted'
  <2>1. Reported' = Reported
    BY ReportedKept DEF Held, ThreadTypes
  <2>2. Cardinality(Reported) \in Nat
    BY FS_CardinalityType DEF Counted
  <2> QED BY <2>1, <2>2 DEF Counted, Numbers
<1>5. Seen'
  <2>1. Place(t)
    BY DEF Places
  <2> QED BY <2>1, SeenStep DEF ThreadTypes, Place, SeesTimers, SeesEvents,
             InPool, OfRoot, Asking, Working
<1> QED BY <1>1, <1>2, <1>3, <1>4, <1>5

LEMMA IdleTaskSchedules ==
  ASSUME IdleInv, NEW t \in Threads, TaskSchedules(t)
  PROVE  IdleInv'
<1> USE DEF IdleInv, TaskSchedules, Go, counts, clocks, epoll, schedule
<1>1. Numbers'
  BY DEF Numbers
<1>2. ThreadTypes'
  BY DEF ThreadTypes, InPool, OfRoot, Asking
<1>3. Places'
  <2>1. Place(t)
    BY DEF Places
  <2>2. Place(t)'
    BY <2>1 DEF Place, ThreadTypes, OfRoot, Asking, Working
  <2> QED BY <2>2, PlacesStep DEF ThreadTypes
<1>4. Counted'
  <2>1. Reported' = Reported
    BY ReportedKept DEF Held, ThreadTypes
  <2>2. Cardinality(Reported) \in Nat
    BY FS_CardinalityType DEF Counted
  <2> QED BY <2>1, <2>2 DEF Counted, Numbers
<1>5. Seen'
  <2>1. Place(t)
    BY DEF Places
  <2> QED BY <2>1, SeenStep DEF ThreadTypes, Place, SeesTimers, SeesEvents,
             InPool, OfRoot, Asking, Working
<1> QED BY <1>1, <1>2, <1>3, <1>4, <1>5

LEMMA IdleTaskAddsTimer ==
  ASSUME IdleInv, NEW t \in Threads, TaskAddsTimer(t)
  PROVE  IdleInv'
<1> USE DEF IdleInv, TaskAddsTimer, Go, counts, clocks, epoll, schedule
<1>1. Numbers'
  BY DEF Numbers
<1>2. ThreadTypes'
  BY DEF ThreadTypes, InPool, OfRoot, Asking
<1>3. Places'
  <2>1. Place(t)
    BY DEF Places
  <2>2. Place(t)'
    BY <2>1 DEF Place, ThreadTypes, OfRoot, Asking, Working
  <2> QED BY <2>2, PlacesStep DEF ThreadTypes
<1>4. Counted'
  <2>1. Reported' = Reported
    BY ReportedKept DEF Held, ThreadTypes
  <2>2. Cardinality(Reported) \in Nat
    BY FS_CardinalityType DEF Counted
  <2> QED BY <2>1, <2>2 DEF Counted, Numbers
<1>5. Seen'
  <2>1. Place(t)
    BY DEF Places
  <2> QED BY <2>1, SeenStep DEF ThreadTypes, Place, SeesTimers, SeesEvents,
             InPool, OfRoot, Asking, Working
<1> QED BY <1>1, <1>2, <1>3, <1>4, <1>5

LEMMA IdleTaskWaits ==
  ASSUME IdleInv, NEW t \in Threads, TaskWaits(t)
  PROVE  IdleInv'
<1> USE DEF IdleInv, TaskWaits, Go, counts, clocks, epoll
<1>1. Numbers'
  BY DEF Numbers
<1>2. ThreadTypes'
  BY DEF ThreadTypes, InPool, OfRoot, Asking
<1>3. Places'
  <2>1. Place(t)
    BY DEF Places
  <2>2. Place(t)'
    BY <2>1 DEF Place, ThreadTypes, OfRoot, Asking, Working
  <2> QED BY <2>2, PlacesStep DEF ThreadTypes
<1>4. Counted'
  <2>1. Reported' = Reported
    BY ReportedKept DEF Held, ThreadTypes
  <2>2. Cardinality(Reported) \in Nat
    BY FS_CardinalityType DEF Counted
  <2> QED BY <2>1, <2>2 DEF Counted, Numbers
<1>5. Seen'
  <2>1. Place(t)
    BY DEF Places
  <2> QED BY <2>1, SeenStep DEF ThreadTypes, Place, SeesTimers, SeesEvents,
             InPool, OfRoot, Asking, Working
<1> QED BY <1>1, <1>2, <1>3, <1>4, <1>5

LEMMA IdleTaskEnds ==
  ASSUME IdleInv, NEW t \in Threads, TaskEnds(t)
  PROVE  IdleInv'
<1> USE DEF IdleInv, TaskEnds, Go, counts, clocks, epoll
<1>1. Numbers'
  BY DEF Numbers
<1>2. ThreadTypes'
  BY DEF ThreadTypes, InPool, OfRoot, Asking
<1>3. Places'
  <2>1. Place(t)
    BY DEF Places
  <2>2. Place(t)'
    BY <2>1 DEF Place, ThreadTypes, OfRoot, Asking, Working
  <2> QED BY <2>2, PlacesStep DEF ThreadTypes
<1>4. Counted'
  <2>1. Reported' = Reported
    BY ReportedKept DEF Held, ThreadTypes
  <2>2. Cardinality(Reported) \in Nat
    BY FS_CardinalityType DEF Counted
  <2> QED BY <2>1, <2>2 DEF Counted, Numbers
<1>5. Seen'
  <2>1. Place(t)
    BY DEF Places
  <2> QED BY <2>1, SeenStep DEF ThreadTypes, Place, SeesTimers, SeesEvents,
             InPool, OfRoot, Asking, Working
<1> QED BY <1>1, <1>2, <1>3, <1>4, <1>5

LEMMA IdleTaskBack ==
  ASSUME IdleInv, NEW t \in Threads, TaskBack(t)
  PROVE  IdleInv'
<1> USE DEF IdleInv, TaskBack, Go, counts, clocks, epoll
<1>1. Numbers'
  BY DEF Numbers
<1>2. ThreadTypes'
  BY DEF ThreadTypes, InPool, OfRoot, Asking
<1>3. Places'
  <2>1. Place(t)
    BY DEF Places
  <2>2. Place(t)'
    BY <2>1 DEF Place, ThreadTypes, OfRoot, Asking, Working
  <2> QED BY <2>2, PlacesStep DEF ThreadTypes
<1>4. Counted'
  <2>1. Reported' = Reported
    BY ReportedKept DEF Held, ThreadTypes
  <2>2. Cardinality(Reported) \in Nat
    BY FS_CardinalityType DEF Counted
  <2> QED BY <2>1, <2>2 DEF Counted, Numbers
<1>5. Seen'
  <2>1. Place(t)
    BY DEF Places
  <2> QED BY <2>1, SeenStep DEF ThreadTypes, Place, SeesTimers, SeesEvents,
             InPool, OfRoot, Asking, Working
<1> QED BY <1>1, <1>2, <1>3, <1>4, <1>5

LEMMA IdleTaskAgain ==
  ASSUME IdleInv, NEW t \in Threads, TaskAgain(t)
  PROVE  IdleInv'
<1> USE DEF IdleInv, TaskAgain, Go, counts, clocks, epoll, schedule
<1>1. Numbers'
  BY DEF Numbers
<1>2. ThreadTypes'
  BY DEF ThreadTypes, InPool, OfRoot, Asking
<1>3. Places'
  <2>1. Place(t)
    BY DEF Places
  <2>2. Place(t)'
    BY <2>1 DEF Place, ThreadTypes, OfRoot, Asking, Working
  <2> QED BY <2>2, PlacesStep DEF ThreadTypes
<1>4. Counted'
  <2>1. Reported' = Reported
    BY ReportedKept DEF Held, ThreadTypes
  <2>2. Cardinality(Reported) \in Nat
    BY FS_CardinalityType DEF Counted
  <2> QED BY <2>1, <2>2 DEF Counted, Numbers
<1>5. Seen'
  <2>1. Place(t)
    BY DEF Places
  <2> QED BY <2>1, SeenStep DEF ThreadTypes, Place, SeesTimers, SeesEvents,
             InPool, OfRoot, Asking, Working
<1> QED BY <1>1, <1>2, <1>3, <1>4, <1>5

LEMMA IdleNextTimer ==
  ASSUME IdleInv, NEW t \in Threads, NextTimer(t)
  PROVE  IdleInv'
<1> USE DEF IdleInv, NextTimer, Go, counts, clocks, epoll,
       Asks, Refuses, GoesOn
<1>1. Numbers'
  BY InStopIs DEF Numbers
<1>2. ThreadTypes'
  BY InStopIs DEF ThreadTypes, InPool, OfRoot, Asking
<1>3. Places'
  <2>1. Place(t)
    BY DEF Places
  <2>2. Place(t)'
    BY InStopIs, <2>1 DEF Place, ThreadTypes, OfRoot, Asking, Working
  <2> QED BY InStopIs, <2>2, PlacesStep DEF ThreadTypes
<1>4. Counted'
  <2>1. Reported' = Reported
    BY InStopIs, ReportedKept DEF Held, ThreadTypes
  <2>2. Cardinality(Reported) \in Nat
    BY FS_CardinalityType DEF Counted
  <2> QED BY <2>1, <2>2 DEF Counted, Numbers
<1>5. Seen'
  <2>1. Place(t)
    BY DEF Places
  <2>2. CASE timers + due > 0
    BY InStopIs, <2>1, <2>2, SeenSame DEF ThreadTypes, Place,
       SeesTimers, SeesEvents, InPool, OfRoot, Asking, Working
  <2>3. CASE timers + due = 0
    BY InStopIs, <2>1, <2>3, SeenSame DEF ThreadTypes, Place,
       SeesTimers, SeesEvents, InPool, OfRoot, Asking, Working
  <2>4. timers + due > 0 \/ timers + due = 0
    BY DEF Numbers
  <2> QED BY <2>4, <2>2, <2>3
<1> QED BY <1>1, <1>2, <1>3, <1>4, <1>5

LEMMA IdleReadPending ==
  ASSUME IdleInv, NEW t \in Threads, ReadPending(t)
  PROVE  IdleInv'
<1> USE DEF IdleInv, ReadPending, Go, counts, clocks, epoll,
       Asks, Refuses, GoesOn, NoEvents
<1>1. Numbers'
  BY InStopIs DEF Numbers
<1>2. ThreadTypes'
  BY InStopIs DEF ThreadTypes, InPool, OfRoot, Asking
<1>3. Places'
  <2>1. Place(t)
    BY DEF Places
  <2>2. Place(t)'
    BY InStopIs, <2>1 DEF Place, ThreadTypes, OfRoot, Asking, Working
  <2> QED BY InStopIs, <2>2, PlacesStep DEF ThreadTypes
<1>4. Counted'
  <2>1. Reported' = Reported
    BY InStopIs, ReportedKept DEF Held, ThreadTypes
  <2>2. Cardinality(Reported) \in Nat
    BY FS_CardinalityType DEF Counted
  <2> QED BY <2>1, <2>2 DEF Counted, Numbers
<1>5. Seen'
  <2>1. Place(t)
    BY DEF Places
  <2>2. CASE m_pendingEventCount = 0 /\ pc[t] = "pending"
    BY InStopIs, <2>1, <2>2, SeenSame DEF ThreadTypes, Place,
       SeesTimers, SeesEvents, InPool, OfRoot, Asking, Working
  <2>3. CASE m_pendingEventCount = 0 /\ pc[t] = "stop pending"
    BY InStopIs, <2>1, <2>3, SeenSame DEF ThreadTypes, Place,
       SeesTimers, SeesEvents, InPool, OfRoot, Asking, Working
  <2>4. CASE m_pendingEventCount # 0
    BY InStopIs, <2>1, <2>4, SeenSame DEF ThreadTypes, Place,
       SeesTimers, SeesEvents, InPool, OfRoot, Asking, Working
  <2> QED BY InStopIs, <2>2, <2>3, <2>4
<1> QED BY <1>1, <1>2, <1>3, <1>4, <1>5

LEMMA IdleReadQueue ==
  ASSUME IdleInv, NEW t \in Threads, ReadQueue(t)
  PROVE  IdleInv'
<1> USE DEF IdleInv, ReadQueue, Go, counts, clocks, epoll,
       Asks, Refuses
<1>1. Numbers'
  BY InStopIs DEF Numbers
<1>2. ThreadTypes'
  BY InStopIs DEF ThreadTypes, InPool, OfRoot, Asking
<1>3. Places'
  <2>1. Place(t)
    BY DEF Places
  <2>2. Place(t)'
    <3>1. CASE SchedulerStopping /\ pc[t] = "queue"
      BY <2>1, <3>1 DEF Place, ThreadTypes, OfRoot, Asking, Working,
         SchedulerStopping
    <3>2. CASE SchedulerStopping /\ pc[t] # "queue"
      BY InStopIs, <2>1, <3>2 DEF Place, ThreadTypes, OfRoot, Asking, Working,
         SchedulerStopping
    <3>3. CASE ~SchedulerStopping
      BY InStopIs, <2>1, <3>3 DEF Place, ThreadTypes, OfRoot, Asking, Working
    <3> QED BY <3>1, <3>2, <3>3
  <2> QED BY InStopIs, <2>2, PlacesStep DEF ThreadTypes
<1>4. Counted'
  <2>1. Reported' = Reported
    BY InStopIs, ReportedKept DEF Held, ThreadTypes
  <2>2. Cardinality(Reported) \in Nat
    BY FS_CardinalityType DEF Counted
  <2> QED BY <2>1, <2>2 DEF Counted, Numbers
<1>5. Seen'
  <2>1. Place(t)
    BY DEF Places
  <2>2. CASE SchedulerStopping /\ pc[t] = "queue"
    BY InStopIs, <2>1, <2>2, SeenSame DEF ThreadTypes, Place,
       SeesTimers, SeesEvents, InPool, OfRoot, Asking, Working, SchedulerStopping
  <2>3. CASE SchedulerStopping /\ pc[t] = "stop queue"
    BY InStopIs, <2>1, <2>3, SeenSame DEF ThreadTypes, Place,
       SeesTimers, SeesEvents, InPool, OfRoot, Asking, Working, SchedulerStopping
  <2>4. CASE ~SchedulerStopping
    BY InStopIs, <2>1, <2>4, SeenSame DEF ThreadTypes, Place,
       SeesTimers, SeesEvents, InPool, OfRoot, Asking, Working, SchedulerStopping
  <2> QED BY InStopIs, <2>2, <2>3, <2>4
<1> QED BY <1>1, <1>2, <1>3, <1>4, <1>5

LEMMA IdleWait ==
  ASSUME IdleInv, NEW t \in Threads, Wait(t)
  PROVE  IdleInv'
<1> USE DEF IdleInv, Wait, Go, counts, clocks, epoll
<1>1. Numbers'
  BY DEF Numbers
<1>2. ThreadTypes'
  <2>1. hand' \in [Threads -> [cbs : Nat, evs : Nat]]
    BY DEF ThreadTypes, Numbers
  <2> QED BY <2>1 DEF ThreadTypes, InPool, OfRoot, Asking
<1>3. Places'
  <2>1. Place(t)
    BY DEF Places
  <2>2. Place(t)'
    BY <2>1 DEF Place, ThreadTypes, OfRoot, Asking, Working
  <2> QED BY <2>2, PlacesStep DEF ThreadTypes
<1>4. Counted'
  <2>1. Place(t) /\ hand[t].evs \in Nat
    BY DEF Places, ThreadTypes
  <2>2. Held(t) = 0 /\ Held(t)' = rdlist
    BY <2>1 DEF Held, Place, ThreadTypes, Numbers
  <2>3. \A u \in Threads : u # t => Held(u)' = Held(u)
    BY DEF Held, ThreadTypes
  <2>4. /\ IsFiniteSet(Reported')
        /\ Cardinality(Reported') = Cardinality(Reported) + rdlist
    BY <2>2, <2>3, ReportedMore DEF Counted, Numbers
  <2>5. Cardinality(Reported) \in Nat
    BY FS_CardinalityType DEF Counted
  <2> QED BY <2>4, <2>5 DEF Counted, Numbers
<1>5. Seen'
  <2>1. Place(t)
    BY DEF Places
  <2> QED BY <2>1, SeenStep DEF ThreadTypes, Place, SeesTimers, SeesEvents,
             InPool, OfRoot, Asking, Working
<1> QED BY <1>1, <1>2, <1>3, <1>4, <1>5

LEMMA IdleExpired ==
  ASSUME IdleInv, NEW t \in Threads, Expired(t)
  PROVE  IdleInv'
<1> USE DEF IdleInv, Expired, Go, counts, clocks, epoll
<1>1. Numbers'
  BY DEF Numbers
<1>2. ThreadTypes'
  <2>1. hand' \in [Threads -> [cbs : Nat, evs : Nat]]
    BY DEF ThreadTypes, Numbers
  <2> QED BY <2>1 DEF ThreadTypes, InPool, OfRoot, Asking
<1>3. Places'
  <2>1. Place(t)
    BY DEF Places
  <2>2. Place(t)'
    BY <2>1 DEF Place, ThreadTypes, OfRoot, Asking, Working
  <2> QED BY <2>2, PlacesStep DEF ThreadTypes
<1>4. Counted'
  <2>1. Reported' = Reported
    BY ReportedKept DEF Held, ThreadTypes
  <2>2. Cardinality(Reported) \in Nat
    BY FS_CardinalityType DEF Counted
  <2> QED BY <2>1, <2>2 DEF Counted, Numbers
<1>5. Seen'
  <2>1. Place(t)
    BY DEF Places
  <2> QED BY <2>1, SeenStep DEF ThreadTypes, Place, SeesTimers, SeesEvents,
             InPool, OfRoot, Asking, Working
<1> QED BY <1>1, <1>2, <1>3, <1>4, <1>5

LEMMA IdleScheduleCbs ==
  ASSUME IdleInv, NEW t \in Threads, ScheduleCbs(t)
  PROVE  IdleInv'
<1> USE DEF IdleInv, ScheduleCbs, Go, counts, clocks, epoll, schedule
<1>1. Numbers'
  BY DEF Numbers, ThreadTypes
<1>2. ThreadTypes'
  BY DEF ThreadTypes, InPool, OfRoot, Asking
<1>3. Places'
  <2>1. Place(t)
    BY DEF Places
  <2>2. Place(t)'
    BY <2>1 DEF Place, ThreadTypes, OfRoot, Asking, Working
  <2> QED BY <2>2, PlacesStep DEF ThreadTypes
<1>4. Counted'
  <2>1. Reported' = Reported
    BY ReportedKept DEF Held, ThreadTypes
  <2>2. Cardinality(Reported) \in Nat
    BY FS_CardinalityType DEF Counted
  <2> QED BY <2>1, <2>2 DEF Counted, Numbers
<1>5. Seen'
  <2>1. Place(t)
    BY DEF Places
  <2> QED BY <2>1, SeenStep DEF ThreadTypes, Place, SeesTimers, SeesEvents,
             InPool, OfRoot, Asking, Working
<1> QED BY <1>1, <1>2, <1>3, <1>4, <1>5

LEMMA IdleTrigger ==
  ASSUME IdleInv, NEW t \in Threads, Trigger(t)
  PROVE  IdleInv'
<1> USE DEF IdleInv, Trigger, Go, counts, clocks, epoll, schedule
<1>1. Numbers'
  BY DEF Numbers
<1>2. ThreadTypes'
  <2>1. hand[t].evs - 1 \in Nat
    BY DEF ThreadTypes
  <2>2. hand' \in [Threads -> [cbs : Nat, evs : Nat]]
    BY <2>1 DEF ThreadTypes
  <2> QED BY <2>2 DEF ThreadTypes, InPool, OfRoot, Asking
<1>3. Places'
  <2>1. Place(t)
    BY DEF Places
  <2>2. Place(t)'
    BY <2>1 DEF Place, ThreadTypes, OfRoot, Asking, Working
  <2> QED BY <2>2, PlacesStep DEF ThreadTypes
<1>4. Counted'
  <2>1. Reported' = Reported
    BY ReportedKept DEF Held, ThreadTypes
  <2>2. Cardinality(Reported) \in Nat
    BY FS_CardinalityType DEF Counted
  <2> QED BY <2>1, <2>2 DEF Counted, Numbers
<1>5. Seen'
  <2>1. Place(t)
    BY DEF Places
  <2> QED BY <2>1, SeenStep DEF ThreadTypes, Place, SeesTimers, SeesEvents,
             InPool, OfRoot, Asking, Working
<1> QED BY <1>1, <1>2, <1>3, <1>4, <1>5

LEMMA IdleCountDown ==
  ASSUME IdleInv, NEW t \in Threads, CountDown(t)
  PROVE  IdleInv'
<1> USE DEF IdleInv, CountDown, Go, counts, clocks, epoll
<1>a. /\ IsFiniteSet(Reported') /\ Cardinality(Reported) > 0
      /\ Cardinality(Reported) \in Nat
      /\ Cardinality(Reported') = Cardinality(Reported) - 1
  <2>1. Held(t) \in Nat /\ Held(t) > 0 /\ Held(t)' = Held(t) - 1
    BY DEF Held, ThreadTypes
  <2>2. \A u \in Threads : u # t => Held(u)' = Held(u)
    BY DEF Held, ThreadTypes
  <2> QED BY <2>1, <2>2, ReportedLess DEF Counted
<1>1. Numbers'
  BY <1>a DEF Numbers, Counted
<1>2. ThreadTypes'
  BY DEF ThreadTypes, InPool, OfRoot, Asking
<1>3. Places'
  <2>1. Place(t)
    BY DEF Places
  <2>2. Place(t)'
    BY <2>1 DEF Place, ThreadTypes, OfRoot, Asking, Working
  <2> QED BY <2>2, PlacesStep DEF ThreadTypes
<1>4. Counted'
  BY <1>a DEF Counted, Numbers
<1>5. Seen'
  <2>1. Place(t)
    BY DEF Places
  <2> QED BY <2>1, SeenStep DEF ThreadTypes, Place, SeesTimers, SeesEvents,
             InPool, OfRoot, Asking, Working
<1> QED BY <1>1, <1>2, <1>3, <1>4, <1>5

LEMMA IdleSwapOut ==
  ASSUME IdleInv, NEW t \in Threads, SwapOut(t)
  PROVE  IdleInv'
<1> USE DEF IdleInv, SwapOut, Go, counts, clocks, epoll
<1>1. Numbers'
  BY DEF Numbers
<1>2. ThreadTypes'
  BY DEF ThreadTypes, InPool, OfRoot, Asking
<1>3. Places'
  <2>1. Place(t)
    BY DEF Places
  <2>2. Place(t)'
    <3>1. hand'[t].evs = 0 /\ pc'[t] = "leave" /\ term'[t] = term[t]
      BY DEF ThreadTypes
    <3>2. ~term[t]
      BY <2>1 DEF Place, Working
    <3> QED BY <3>1, <3>2 DEF Place, OfRoot
  <2> QED BY <2>2, PlacesStep DEF ThreadTypes
<1>4. Counted'
  <2>1. Reported' = Reported
    BY ReportedKept DEF Held, ThreadTypes
  <2>2. Cardinality(Reported) \in Nat
    BY FS_CardinalityType DEF Counted
  <2> QED BY <2>1, <2>2 DEF Counted, Numbers
<1>5. Seen'
  <2>1. Place(t)
    BY DEF Places
  <2> QED BY <2>1, SeenStep DEF ThreadTypes, Place, SeesTimers, SeesEvents,
             InPool, OfRoot, Asking, Working
<1> QED BY <1>1, <1>2, <1>3, <1>4, <1>5

-----------------------------------------------------------------------------
LEMMA IdleOwnerSchedules ==
  ASSUME IdleInv, OwnerSchedules
  PROVE  IdleInv'
<1> USE DEF IdleInv, OwnerSchedules, schedule, counts, clocks, epoll
<1>1. Numbers' /\ ThreadTypes'
  BY DEF Numbers, ThreadTypes
<1>2. Places'
  BY DEF Places, Place
<1>3. Counted'
  <2>1. Reported' = Reported
    BY ReportedKept DEF Held
  <2> QED BY <2>1 DEF Counted
<1>4. Seen'
  <2>1. Root \in Threads
    BY DEF Threads
  <2> QED BY <2>1, SeenSame DEF SeesTimers, SeesEvents
<1> QED BY <1>1, <1>2, <1>3, <1>4

(* stop() by an owner that is not of the pool leaves the queue to a worker:  *)
(* none of them has left before.                                            *)
LEMMA IdleStop ==
  ASSUME IdleInv, Stop
  PROVE  IdleInv'
<1> USE DEF IdleInv, Stop, Go, counts, clocks, epoll
<1>1. Root \in Threads /\ ~m_stopping
  BY DEF Threads, Places
<1>2. Numbers'
  BY DEF Numbers
<1>3. ThreadTypes'
  BY DEF ThreadTypes, OfRoot
<1>4. pc'[Root] \in {"stop next", "exited"} /\ ~term[Root]
      /\ \A u \in Threads : u # Root => pc'[u] = pc[u]
  BY <1>1 DEF ThreadTypes, Places, Place
<1>5. Places'
  <2>1. ASSUME NEW u \in Threads PROVE Place(u)'
    <3>1. Place(u)
      BY DEF Places
    <3>2. CASE u = Root
      BY <1>4, <3>1, <3>2 DEF Place, OfRoot
    <3>3. CASE u # Root
      BY <1>4, <3>1, <3>3 DEF Place
    <3> QED BY <3>2, <3>3
  <2> QED BY <1>4, <2>1 DEF Places
<1>6. Counted'
  <2>1. \A u \in Threads : Held(u)' = Held(u)
    BY <1>1, <1>4 DEF Held
  <2>2. Reported' = Reported
    BY <2>1, ReportedKept
  <2> QED BY <2>2 DEF Counted
<1>7. Seen'
  <2>1. SeesQueue'
    <3>1. CASE UseCaller
      BY <1>1, <3>1 DEF SeesQueue, ThreadTypes
    <3>2. CASE ~UseCaller
      <4>1. PICK w \in Workers : TRUE
        BY <3>2, IdleLoopAssumption
      <4>2. w \in Threads /\ w # Root
        BY IdleLoopAssumption DEF Threads
      <4>3. pc[w] # "exited"
        BY <1>1, <4>2 DEF Places, Place
      <4> QED BY <1>4, <4>2, <4>3 DEF SeesQueue
    <3> QED BY <3>1, <3>2
  <2>2. \A u \in Threads : SeesTimers(u) => SeesTimers(u)'
    BY <1>4 DEF SeesTimers, InPool, Asking
  <2>3. \A u \in Threads : SeesEvents(u) => SeesEvents(u)'
    BY <1>4 DEF SeesEvents, InPool, Asking
  <2> QED BY <2>1, <2>2, <2>3 DEF Seen
<1> QED BY <1>2, <1>3, <1>5, <1>6, <1>7

LEMMA IdleTimerDue ==
  ASSUME IdleInv, TimerDue
  PROVE  IdleInv'
<1> USE DEF IdleInv, TimerDue, counts, epoll
<1>1. Numbers' /\ ThreadTypes' /\ timers' + due' = timers + due
  BY DEF Numbers, ThreadTypes
<1>2. Places'
  BY DEF Places, Place
<1>3. Counted'
  <2>1. Reported' = Reported
    BY ReportedKept DEF Held
  <2> QED BY <2>1 DEF Counted
<1>4. Seen'
  BY <1>1 DEF Seen, SeesQueue, SeesTimers, SeesEvents
<1> QED BY <1>1, <1>2, <1>3, <1>4

LEMMA IdleEventReady ==
  ASSUME IdleInv, EventReady
  PROVE  IdleInv'
<1> USE DEF IdleInv, EventReady, counts, clocks
<1>1. Numbers' /\ ThreadTypes' /\ armed' + rdlist' = armed + rdlist
  BY DEF Numbers, ThreadTypes
<1>2. Places'
  BY DEF Places, Place
<1>3. Counted'
  <2>1. Reported' = Reported
    BY ReportedKept DEF Held
  <2> QED BY <1>1, <2>1 DEF Counted
<1>4. Seen'
  BY DEF Seen, SeesQueue, SeesTimers, SeesEvents
<1> QED BY <1>1, <1>2, <1>3, <1>4

LEMMA IdleInit ==
  ASSUME Init
  PROVE  IdleInv
<1> USE DEF Init
<1>1. Numbers
  BY DEF Numbers
<1>2. ThreadTypes
  BY DEF ThreadTypes, InPool, OfRoot
<1>3. Places
  BY DEF Places, Place, Threads, OfRoot
<1>4. Counted
  <2>1. \A t \in Threads : Held(t) = 0
    BY DEF Held
  <2>2. Reported = {}
    BY <2>1 DEF Reported
  <2> QED BY <2>2, FS_EmptySet DEF Counted
<1>5. Seen
  BY DEF Seen
<1> QED BY <1>1, <1>2, <1>3, <1>4, <1>5 DEF IdleInv

LEMMA IdleNext ==
  ASSUME IdleInv, [Next]_vars
  PROVE  IdleInv'
<1>1. CASE UNCHANGED vars
  <2> USE <1>1 DEF IdleInv, vars, counts, clocks, epoll
  <2>1. Numbers' /\ ThreadTypes'
    BY DEF Numbers, ThreadTypes
  <2>2. Places'
    BY DEF Places, Place
  <2>3. Reported' = Reported
    BY ReportedKept DEF Held
  <2>4. Counted'
    BY <2>3 DEF Counted
  <2>5. Seen'
    BY DEF Seen, SeesQueue, SeesTimers, SeesEvents
  <2> QED BY <2>1, <2>2, <2>4, <2>5
<1>2. ASSUME NEW t \in Threads, Step(t) PROVE IdleInv'
  BY <1>2, IdleTake, IdleIdles, IdleEnter, IdleLeave, IdleTaskSchedules,
     IdleTaskAddsTimer, IdleTaskWaits, IdleTaskEnds, IdleTaskBack,
     IdleTaskAgain, IdleNextTimer, IdleReadPending, IdleReadQueue, IdleWait,
     IdleExpired, IdleScheduleCbs, IdleTrigger, IdleCountDown, IdleSwapOut
     DEF Step
<1> QED BY <1>1, <1>2, IdleOwnerSchedules, IdleStop, IdleTimerDue,
           IdleEventReady DEF Next

LEMMA IdleAlways == Spec => []IdleInv
<1> QED BY IdleInit, IdleNext, PTL DEF Spec

(* When all threads have left, on what stopping() read piece by piece, no   *)
(* task is in the queue, and no timer or event is left unless a thread took *)
(* a task after its idle fiber had ended (iomanager.cc:319,                 *)
(* scheduler.cc:154).                                                       *)
THEOREM NothingIsLeft == Spec => []NothingLeft
<1>1. ASSUME IdleInv, Joined
      PROVE  m_fibers = 0 /\ (~late => Work = 0 /\ armed + rdlist = 0)
  <2> USE <1>1 DEF IdleInv
  <2>1. \A t \in Threads : pc[t] = "exited"
    BY DEF Joined
  <2>2. m_fibers = 0
    BY <2>1 DEF Seen, SeesQueue
  <2>3. ASSUME ~late PROVE Work = 0 /\ armed + rdlist = 0
    <3>1. timers + due = 0 /\ m_pendingEventCount = 0
      BY <2>1, <2>3 DEF Seen, SeesTimers, SeesEvents, InPool, Asking
    <3>2. Cardinality(Reported) \in Nat
      BY FS_CardinalityType DEF Counted
    <3>3. armed + rdlist = 0
      BY <3>1, <3>2 DEF Counted, Numbers
    <3> QED BY <2>2, <3>1, <3>3 DEF Work, Numbers
  <2> QED BY <2>2, <2>3
<1>2. IdleInv => NothingLeft
  BY <1>1 DEF NothingLeft
<1> QED BY <1>2, IdleAlways, PTL

(* The counter of the events is exact: never below zero, and never zero     *)
(* while an event is registered or reported (iomanager.cc:319).             *)
THEOREM CounterHolds ==
  Spec => [](/\ m_pendingEventCount \in Nat
             /\ m_pendingEventCount = armed + rdlist + Cardinality(Reported))
<1>1. IdleInv => /\ m_pendingEventCount \in Nat
                 /\ m_pendingEventCount = armed + rdlist + Cardinality(Reported)
  BY DEF IdleInv, Numbers, Counted
<1> QED BY <1>1, IdleAlways, PTL
=============================================================================
