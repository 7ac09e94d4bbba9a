---------------------------- MODULE TimerProofs ----------------------------
(***************************************************************************)
(* The order of the timer set, one end for every timer, when cancel()      *)
(* finds what it erases, and that some thread wakes for the earliest, for  *)
(* any number of users, pool threads and timers.                           *)
(***************************************************************************)
EXTENDS Timer, WellFoundedInduction, TLAPS

(* What the proofs need of the types.                                      *)
TimerTypes ==
  /\ m_timers \subseteq Timers
  /\ key \in [Timers -> Nat] /\ m_next \in [Timers -> Nat]
  /\ m_ms \in [Timers -> Int]
  /\ m_cb \in [Timers -> BOOLEAN] /\ m_recurring \in [Timers -> BOOLEAN]
  /\ fired \in [Timers -> Nat] /\ cancelled \in [Timers -> Nat]
CallTypes ==
  /\ clock \in Nat /\ now \in [Pollers -> Nat]
  /\ known \subseteq Timers
  /\ pc \in [Users -> Places] /\ tm \in [Users -> Timers \cup {Null}]
  /\ arg \in [Users -> [ms : Nat, from_now : BOOLEAN]]
  /\ \A u \in Users : (tm[u] = Null) <=> (pc[u] = "idle")
Types == TimerTypes /\ CallTypes

(* The timers that addTimer has constructed.                               *)
Owned(t) == t \in known \/ \E u \in Users : tm[u] = t
Fresh ==
  \A t \in Timers : ~Owned(t) =>
    t \notin m_timers /\ ~m_cb[t] /\ fired[t] = 0 /\ cancelled[t] = 0

(* A timer that has its function has not come to an end.                   *)
History ==
  \A t \in Timers :
    /\ fired[t] + cancelled[t] <= 1
    /\ m_cb[t] => fired[t] = 0 /\ cancelled[t] = 0

(* A timer on its way into the set is in the hands of one user.            *)
Moving(u) == pc[u] \in {"insert", "reset"}
Carried ==
  /\ \A u \in Users : Moving(u) => tm[u] \notin m_timers /\ m_cb[tm[u]]
  /\ \A u, v \in Users : Moving(u) /\ Moving(v) /\ tm[u] = tm[v] => u = v
Ordered == \A t \in m_timers : key[t] = m_next[t] /\ m_cb[t]

TimerInv ==
  /\ Types /\ Fresh /\ History
  /\ abort = "none" => Carried /\ Ordered

(* When calls on one timer do not overlap, a timer that has its function   *)
(* is in the set or in the hands of a user.                                *)
Placed ==
  \A t \in Timers : m_cb[t] =>
    t \in m_timers \/ \E u \in Users : Moving(u) /\ tm[u] = t
PlacedInv == abort = "none" /\ Placed

(* The times of the code's types: a period fits into an int, and the clock *)
(* plus a period into a uint64_t.                                          *)
Modest ==
  \A d \in Delays \cup {0} : d < IntHalf /\ MaxClock + d < NoTimer

SleepTypes ==
  /\ at \in [Pollers -> {"away", "next", "sleep", "peek", "collect"}]
  /\ asked \in [Pollers -> Int] /\ left \in [Pollers -> Int]
  /\ late \in [Pollers -> BOOLEAN]
  /\ m_tickled \in BOOLEAN /\ pipe \in BOOLEAN /\ wentBack \in BOOLEAN

(* While the clock is not set back, a timer was started in the past and    *)
(* is due a period after that.                                             *)
Periods == Delays \cup {0}
StartedBy(t) == m_ms[t] \in Periods /\ m_next[t] - m_ms[t] \in 0 .. clock
Timed ==
  /\ clock \in 0 .. MaxClock
  /\ \A u \in Users : arg[u].ms \in Periods
  /\ wentBack = FALSE =>
       /\ \A t \in Timers : StartedBy(t)
       /\ \A p \in Pollers : now[p] <= clock

(* Who set m_tickled has tickled or is about to, until the flag is cleared *)
(* by a thread that goes to sleep.                                         *)
Telling == \E u \in Users : pc[u] = "tickle"
Tickled ==
  m_tickled => pipe \/ Telling \/ \E p \in Pollers : at[p] # "sleep"

(* A call of addTimer has yet to look at t, or at one before t.            *)
Looking(u) == pc[u] = "front" /\ tm[u] \in m_timers
Looks(t) == \E u \in Users : Looking(u) /\ (tm[u] = t \/ Before(tm[u], t))
Covers(p) == \A t \in m_timers : Watches(p, t) \/ Looks(t)
Covered ==
  \/ wentBack \/ pipe \/ \E u \in Users : pc[u] \in {"store", "tickle"}
  \/ \E p \in Pollers : Covers(p)

SleepInv == SleepTypes /\ Timed /\ Tickled /\ Covered

USE DEF Places

-----------------------------------------------------------------------------
(* Arithmetic of uint64_t.                                                 *)
LEMMA Modulo == ASSUME NEW x \in Int PROVE x % Wrap \in Nat
BY TimerAssumption

(* No timer yet.                                                           *)
LEMMA TimerInit == Init => TimerInv
BY TimerAssumption DEF Init, TimerInv, Types, TimerTypes, CallTypes,
   Fresh, History, Carried, Ordered, Moving, NoArg

(* A step that leaves the timers and the calls alone.                      *)
LEMMA InvSame ==
  ASSUME TimerInv, UNCHANGED <<set, timer, caller, fired, cancelled, abort>>,
         clock' \in Nat, now' \in [Pollers -> Nat]
  PROVE  TimerInv'
<1> USE DEF set, timer, caller
<1>1. TimerTypes' /\ CallTypes'
  BY DEF TimerInv, Types, TimerTypes, CallTypes
<1>2. Fresh' /\ History'
  BY DEF TimerInv, Fresh, Owned, History
<1>3. abort' = "none" => Carried' /\ Ordered'
  BY DEF TimerInv, Carried, Moving, Ordered
<1> QED BY <1>1, <1>2, <1>3 DEF TimerInv, Types

(* addTimer makes a timer that nobody else knows.                          *)
LEMMA InvNew ==
  ASSUME TimerInv, abort = "none", NEW u \in Users, NEW t \in Timers,
         NEW ms \in Delays, NEW r \in BOOLEAN, New(u, t, ms, r)
  PROVE  TimerInv'
<1> USE DEF New, NoArg, Goto, time, set, timer, caller, poller
<1>0. /\ TimerTypes /\ CallTypes /\ Fresh /\ History /\ Carried
      /\ Ordered
  BY DEF TimerInv, Types
<1>1. TimerTypes'
  BY <1>0, TimerAssumption, Modulo DEF TimerTypes, CallTypes
<1>2. CallTypes'
  BY <1>0, TimerAssumption DEF TimerTypes, CallTypes
<1>3. Fresh'
  BY <1>0, TimerAssumption DEF TimerTypes, CallTypes, Fresh, Owned
<1>4. History'
  BY <1>0, TimerAssumption DEF TimerTypes, CallTypes, Fresh, History, Owned
<1>5. Carried'
  BY <1>0, TimerAssumption DEF TimerTypes, CallTypes, Fresh, Carried, Moving,
     Owned
<1>6. Ordered'
  BY <1>0, TimerAssumption DEF TimerTypes, CallTypes, Fresh, Carried, Ordered,
     Moving, Owned
<1> QED BY <1>1, <1>2, <1>3, <1>4, <1>5, <1>6 DEF TimerInv, Types

(* It goes into the set with its key.                                      *)
LEMMA InvInsert ==
  ASSUME TimerInv, abort = "none", NEW u \in Users, Insert(u)
  PROVE  TimerInv'
<1> USE DEF Insert, time, set, timer, caller, poller
<1>0. /\ TimerTypes /\ CallTypes /\ Fresh /\ History /\ Carried
      /\ Ordered
  BY DEF TimerInv, Types
<1>1. TimerTypes'
  BY <1>0, TimerAssumption, Modulo DEF TimerTypes, CallTypes
<1>2. CallTypes'
  BY <1>0, TimerAssumption DEF TimerTypes, CallTypes
<1>3. Fresh'
  BY <1>0, TimerAssumption DEF TimerTypes, CallTypes, Fresh, Owned
<1>4. History'
  BY <1>0, TimerAssumption DEF TimerTypes, CallTypes, Fresh, History, Owned
<1>5. Carried'
  BY <1>0, TimerAssumption DEF TimerTypes, CallTypes, Fresh, Carried, Moving,
     Owned
<1>6. Ordered'
  BY <1>0, TimerAssumption DEF TimerTypes, CallTypes, Fresh, Carried, Ordered,
     Moving, Owned
<1> QED BY <1>1, <1>2, <1>3, <1>4, <1>5, <1>6 DEF TimerInv, Types

(* The rest of addTimer touches no timer: it goes on ...                   *)
LEMMA InvGoesOn ==
  ASSUME TimerInv, abort = "none", NEW u \in Users,
         pc[u] \in {"front", "store"},
         NEW next \in {"store", "tickle"}, pc' = [pc EXCEPT ![u] = next],
         UNCHANGED <<tm, arg, known>>,
         UNCHANGED <<time, set, timer, now, fired, cancelled, abort>>
  PROVE  TimerInv'
<1> USE DEF time, set, timer, caller, poller
<1>0. /\ TimerTypes /\ CallTypes /\ Fresh /\ History /\ Carried
      /\ Ordered
  BY DEF TimerInv, Types
<1>1. TimerTypes'
  BY <1>0, TimerAssumption, Modulo DEF TimerTypes, CallTypes
<1>2. CallTypes'
  BY <1>0, TimerAssumption DEF TimerTypes, CallTypes
<1>3. Fresh'
  BY <1>0, TimerAssumption DEF TimerTypes, CallTypes, Fresh, Owned
<1>4. History'
  BY <1>0, TimerAssumption DEF TimerTypes, CallTypes, Fresh, History, Owned
<1>5. Carried'
  BY <1>0, TimerAssumption DEF TimerTypes, CallTypes, Fresh, Carried, Moving,
     Owned
<1>6. Ordered'
  BY <1>0, TimerAssumption DEF TimerTypes, CallTypes, Fresh, Carried, Ordered,
     Moving, Owned
<1> QED BY <1>1, <1>2, <1>3, <1>4, <1>5, <1>6 DEF TimerInv, Types

(* ... or returns.                                                         *)
LEMMA InvReturns ==
  ASSUME TimerInv, abort = "none", NEW u \in Users,
         pc[u] \in {"front", "tickle"}, Return(u),
         UNCHANGED <<time, set, timer, now, fired, cancelled, abort>>
  PROVE  TimerInv'
<1> USE DEF Return, NoArg, Goto, time, set, timer, caller, poller
<1>0. /\ TimerTypes /\ CallTypes /\ Fresh /\ History /\ Carried
      /\ Ordered
  BY DEF TimerInv, Types
<1>1. TimerTypes'
  BY <1>0, TimerAssumption, Modulo DEF TimerTypes, CallTypes
<1>2. CallTypes'
  BY <1>0, TimerAssumption DEF TimerTypes, CallTypes
<1>3. Fresh'
  BY <1>0, TimerAssumption DEF TimerTypes, CallTypes, Fresh, Owned
<1>4. History'
  BY <1>0, TimerAssumption DEF TimerTypes, CallTypes, Fresh, History, Owned
<1>5. Carried'
  BY <1>0, TimerAssumption DEF TimerTypes, CallTypes, Fresh, Carried, Moving,
     Owned
<1>6. Ordered'
  BY <1>0, TimerAssumption DEF TimerTypes, CallTypes, Fresh, Carried, Ordered,
     Moving, Owned
<1> QED BY <1>1, <1>2, <1>3, <1>4, <1>5, <1>6 DEF TimerInv, Types

(* The two reads of addTimer, the store and the tickle.                    *)
LEMMA InvAfterInsert ==
  ASSUME TimerInv, abort = "none", NEW u \in Users,
         ReadsFront(u) \/ StoresTickled(u) \/ onTimerInsertedAtFront(u)
  PROVE  TimerInv'
<1> USE DEF time, set, timer, poller
<1>1. CASE ReadsFront(u) /\ Begin(tm[u]) /\ ~m_tickled
  BY <1>1, InvGoesOn DEF ReadsFront
<1>2. CASE ReadsFront(u) /\ ~(Begin(tm[u]) /\ ~m_tickled)
  BY <1>2, InvReturns DEF ReadsFront
<1>3. CASE StoresTickled(u)
  BY <1>3, InvGoesOn DEF StoresTickled
<1>4. CASE onTimerInsertedAtFront(u)
  BY <1>4, InvReturns DEF onTimerInsertedAtFront
<1> QED BY <1>1, <1>2, <1>3, <1>4

(* cancel() takes the function away, and the timer out of the set.         *)
LEMMA InvCancel ==
  ASSUME TimerInv, abort = "none", NEW u \in Users, NEW t \in Timers,
         cancel(u, t)
  PROVE  TimerInv'
<1> USE DEF cancel, MayCall, Found, time, set, timer, caller, poller
<1>0. /\ TimerTypes /\ CallTypes /\ Fresh /\ History /\ Carried
      /\ Ordered
  BY DEF TimerInv, Types
<1>1. TimerTypes'
  BY <1>0, TimerAssumption, Modulo DEF TimerTypes, CallTypes
<1>2. CallTypes'
  BY <1>0, TimerAssumption DEF TimerTypes, CallTypes
<1>3. Fresh'
  BY <1>0, TimerAssumption DEF TimerTypes, CallTypes, Fresh, Owned
<1>4. History'
  BY <1>0, TimerAssumption DEF TimerTypes, CallTypes, Fresh, History, Owned
<1>5. abort' = "none" => Carried'
  BY <1>0, TimerAssumption DEF TimerTypes, CallTypes, Fresh, Carried, Moving,
     Owned
<1>6. Ordered'
  BY <1>0, TimerAssumption DEF TimerTypes, CallTypes, Fresh, Carried, Ordered,
     Moving, Owned
<1> QED BY <1>1, <1>2, <1>3, <1>4, <1>5, <1>6 DEF TimerInv, Types

(* refresh() changes time and key together.                                *)
LEMMA InvRefresh ==
  ASSUME TimerInv, abort = "none", NEW u \in Users, NEW t \in Timers,
         refresh(u, t)
  PROVE  TimerInv'
<1> USE DEF refresh, MayCall, Found, time, set, timer, caller, poller
<1>0. /\ TimerTypes /\ CallTypes /\ Fresh /\ History /\ Carried
      /\ Ordered
  BY DEF TimerInv, Types
<1>1. TimerTypes'
  BY <1>0, TimerAssumption, Modulo DEF TimerTypes, CallTypes
<1>2. CallTypes'
  BY <1>0, TimerAssumption DEF TimerTypes, CallTypes
<1>3. Fresh'
  BY <1>0, TimerAssumption DEF TimerTypes, CallTypes, Fresh, Owned
<1>4. History'
  BY <1>0, TimerAssumption DEF TimerTypes, CallTypes, Fresh, History, Owned
<1>5. Carried'
  BY <1>0, TimerAssumption DEF TimerTypes, CallTypes, Fresh, Carried, Moving,
     Owned
<1>6. Ordered'
  BY <1>0, TimerAssumption DEF TimerTypes, CallTypes, Fresh, Carried, Ordered,
     Moving, Owned
<1> QED BY <1>1, <1>2, <1>3, <1>4, <1>5, <1>6 DEF TimerInv, Types

(* reset() takes the timer out ...                                         *)
LEMMA InvResetTakes ==
  ASSUME TimerInv, abort = "none", NEW u \in Users, NEW t \in Timers,
         NEW a \in [ms : Delays, from_now : BOOLEAN], resetTakes(u, t, a)
  PROVE  TimerInv'
<1> USE DEF resetTakes, MayCall, Found, Goto, time, set, timer, caller, poller
<1>0. /\ TimerTypes /\ CallTypes /\ Fresh /\ History /\ Carried
      /\ Ordered
  BY DEF TimerInv, Types
<1>1. TimerTypes'
  BY <1>0, TimerAssumption, Modulo DEF TimerTypes, CallTypes
<1>2. CallTypes'
  BY <1>0, TimerAssumption DEF TimerTypes, CallTypes
<1>3. Fresh'
  BY <1>0, TimerAssumption DEF TimerTypes, CallTypes, Fresh, Owned
<1>4. History'
  BY <1>0, TimerAssumption DEF TimerTypes, CallTypes, Fresh, History, Owned
<1>5. Carried'
  BY <1>0, TimerAssumption DEF TimerTypes, CallTypes, Fresh, Carried, Moving,
     Owned
<1>6. Ordered'
  BY <1>0, TimerAssumption DEF TimerTypes, CallTypes, Fresh, Carried, Ordered,
     Moving, Owned
<1> QED BY <1>1, <1>2, <1>3, <1>4, <1>5, <1>6 DEF TimerInv, Types

(* ... and changes its time while it is out.                               *)
LEMMA InvResetStores ==
  ASSUME TimerInv, abort = "none", NEW u \in Users, resetStores(u)
  PROVE  TimerInv'
<1> USE DEF resetStores, NoArg, Goto, time, set, timer, caller, poller
<1>0. /\ TimerTypes /\ CallTypes /\ Fresh /\ History /\ Carried
      /\ Ordered
  BY DEF TimerInv, Types
<1>1. TimerTypes'
  <2>1. tm[u] \in Timers /\ arg[u] \in [ms : Nat, from_now : BOOLEAN]
    BY <1>0 DEF CallTypes
  <2> DEFINE start == IF arg[u].from_now THEN clock
                      ELSE m_next[tm[u]] - m_ms[tm[u]]
  <2>2. start \in Int /\ arg[u].ms \in Int
    BY <1>0, <2>1 DEF TimerTypes, CallTypes
  <2>3. (start + arg[u].ms) % Wrap \in Nat
    BY <2>2, Modulo
  <2>4. m_next' \in [Timers -> Nat] /\ m_ms' \in [Timers -> Int]
    BY <1>0, <2>1, <2>2, <2>3 DEF TimerTypes
  <2> QED BY <1>0, <2>4 DEF TimerTypes
<1>2. CallTypes'
  BY <1>0, TimerAssumption DEF TimerTypes, CallTypes
<1>3. Fresh'
  BY <1>0, TimerAssumption DEF TimerTypes, CallTypes, Fresh, Owned
<1>4. History'
  BY <1>0, TimerAssumption DEF TimerTypes, CallTypes, Fresh, History, Owned
<1>5. Carried'
  BY <1>0, TimerAssumption DEF TimerTypes, CallTypes, Fresh, Carried, Moving,
     Owned
<1>6. Ordered'
  BY <1>0, TimerAssumption DEF TimerTypes, CallTypes, Fresh, Carried, Ordered,
     Moving, Owned
<1> QED BY <1>1, <1>2, <1>3, <1>4, <1>5, <1>6 DEF TimerInv, Types

(* listExpiredCb ends what does not recur.                                 *)
LEMMA InvCollect ==
  ASSUME TimerInv, abort = "none", NEW p \in Pollers, listExpiredCb(p)
  PROVE  TimerInv'
<1> USE DEF listExpiredCb, SwitchesBack, Kept, CbAfter,
         time, set, timer, caller, poller
<1>0. /\ TimerTypes /\ CallTypes /\ Fresh /\ History /\ Carried
      /\ Ordered
  BY DEF TimerInv, Types
<1>1. TimerTypes'
  <2>1. Expired(now[p]) \subseteq m_timers
    BY DEF Expired
  <2>2. \A t \in Timers : (now[p] + m_ms[t]) % Wrap \in Nat
    BY <1>0, Modulo DEF TimerTypes, CallTypes
  <2>3. m_timers' \subseteq Timers
    BY <1>0, <2>1 DEF TimerTypes
  <2>4. m_next' \in [Timers -> Nat]
    BY <1>0, <2>2 DEF TimerTypes
  <2>5. key' \in [Timers -> Nat]
    BY <1>0, <2>2 DEF TimerTypes
  <2>6. m_cb' \in [Timers -> BOOLEAN]
    BY <1>0 DEF TimerTypes
  <2>7. fired' \in [Timers -> Nat]
    BY <1>0 DEF TimerTypes
  <2> QED BY <1>0, <2>3, <2>4, <2>5, <2>6, <2>7 DEF TimerTypes
<1>2. CallTypes'
  BY <1>0, TimerAssumption DEF TimerTypes, CallTypes
<1>3. Fresh'
  <2>1. Expired(now[p]) \subseteq m_timers
    BY DEF Expired
  <2> QED BY <1>0, <2>1 DEF TimerTypes, CallTypes, Fresh, Owned
<1>4. History'
  BY <1>0 DEF TimerTypes, History
<1>5. Carried'
  <2>1. Expired(now[p]) \subseteq m_timers
    BY DEF Expired
  <2> QED BY <1>0, <2>1, TimerAssumption DEF TimerTypes, CallTypes, Carried,
         Moving
<1>6. Ordered'
  <2>1. Expired(now[p]) \subseteq m_timers
    BY DEF Expired
  <2> QED BY <1>0, <2>1 DEF TimerTypes, Ordered
<1> QED BY <1>1, <1>2, <1>3, <1>4, <1>5, <1>6 DEF TimerInv, Types

(* The clock touches no timer.                                             *)
LEMMA InvTime ==
  ASSUME TimerInv, Tick \/ SetBack
  PROVE  TimerInv'
<1>1. clock \in Nat /\ now \in [Pollers -> Nat]
  BY DEF TimerInv, Types, CallTypes
<1>2. clock' \in Nat /\ now' = now
  BY <1>1 DEF Tick, SetBack, poller
<1> QED BY <1>1, <1>2, InvSame DEF Tick, SetBack

(* The poller goes idle, sleeps, wakes, or finds the set empty.            *)
LEMMA InvPoll ==
  ASSUME TimerInv, NEW p \in Pollers,
         \/ GoesIdle(p) \/ getNextTimer(p) \/ Interrupted(p) \/ Wakes(p)
         \/ Peeks(p)
  PROVE  TimerInv'
<1>1. clock \in Nat /\ now \in [Pollers -> Nat]
  BY DEF TimerInv, Types, CallTypes
<1>2. clock' = clock
  BY DEF GoesIdle, getNextTimer, Interrupted, Wakes, Peeks, time
<1>3. now' \in [Pollers -> Nat]
  BY <1>1 DEF GoesIdle, getNextTimer, Interrupted, Wakes, Peeks, SwitchesBack
<1> QED
  BY <1>1, <1>2, <1>3, InvSame
  DEF GoesIdle, getNextTimer, Interrupted, Wakes, Peeks

(* Every step keeps the invariant.                                         *)
LEMMA InvNext == TimerInv /\ [Next]_vars => TimerInv'
<1> SUFFICES ASSUME TimerInv, [Next]_vars PROVE TimerInv'
  OBVIOUS
<1>1. CASE UNCHANGED vars
  <2>1. clock' \in Nat /\ now' \in [Pollers -> Nat]
    BY <1>1 DEF TimerInv, Types, CallTypes, vars, time, poller
  <2> QED BY <1>1, <2>1, InvSame DEF vars
<1>2. CASE abort = "none" /\ Step
  <2>1. CASE Tick \/ SetBack
    BY <2>1, InvTime
  <2>2. CASE \E u \in Users : Adds(u)
    BY <1>2, <2>2, InvInsert, InvAfterInsert, InvResetStores DEF Adds
  <2>3. CASE \E u \in Users : Calls(u)
    BY <1>2, <2>3, InvNew, InvCancel, InvRefresh, InvResetTakes DEF Calls
  <2>4. CASE \E p \in Pollers : Polls(p) \/ Interrupted(p)
    BY <1>2, <2>4, InvPoll, InvCollect DEF Polls
  <2> QED BY <1>2, <2>1, <2>2, <2>3, <2>4 DEF Step
<1> QED BY <1>1, <1>2 DEF Next

(* The invariant that the safety theorems share.                           *)
THEOREM TimerInvariant == Spec => []TimerInv
BY TimerInit, InvNext, PTL DEF Spec

(* The timer set stays in the order of its keys: addTimer, cancel,         *)
(* refresh, reset and listExpiredCb never change m_next or m_cb of a timer *)
(* that is inside, for any number of users, threads and timers.            *)
THEOREM TimersInOrder == Spec => []SetInOrder
<1>1. TimerInv => SetInOrder
  BY DEF TimerInv, Ordered, SetInOrder
<1> QED BY <1>1, TimerInvariant, PTL

(* A timer that does not recur comes to one end: listExpiredCb hands out   *)
(* its function, or cancel() returns true, and never both or one twice.    *)
THEOREM OneEnd == Spec => []FiresOrCancels
<1>1. TimerInv => FiresOrCancels
  BY DEF TimerInv, History, FiresOrCancels
<1> QED BY <1>1, TimerInvariant, PTL

-----------------------------------------------------------------------------
(* When calls on one timer do not overlap.                                 *)

(* No timer has a function yet.                                            *)
LEMMA PlacedInit == Init => PlacedInv
BY DEF Init, PlacedInv, Placed

(* A step that leaves the set and the hands alone.                         *)
LEMMA PlacedSame ==
  ASSUME PlacedInv, UNCHANGED <<m_timers, m_cb, pc, tm, abort>>
  PROVE  PlacedInv'
BY DEF PlacedInv, Placed, Moving

(* addTimer(val) puts down what it carries only into the set.              *)
LEMMA PlacedAdds ==
  ASSUME PlacedInv, TimerInv, NEW u \in Users, Adds(u)
  PROVE  PlacedInv'
<1>0. CallTypes /\ TimerTypes /\ abort' = "none"
  BY DEF PlacedInv, TimerInv, Types, Adds, Insert, ReadsFront, StoresTickled,
     onTimerInsertedAtFront, resetStores
<1> SUFFICES ASSUME NEW t \in Timers, m_cb'[t], t \notin m_timers'
             PROVE  \E v \in Users : Moving(v)' /\ tm'[v] = t
  BY <1>0 DEF PlacedInv, Placed
<1>1. m_cb' = m_cb /\ m_timers \subseteq m_timers'
  BY DEF Adds, Insert, ReadsFront, StoresTickled, onTimerInsertedAtFront,
     resetStores, timer, set
<1>2. PICK v \in Users : Moving(v) /\ tm[v] = t
  BY <1>1 DEF PlacedInv, Placed
<1>3. CASE v # u
  <2>1. pc'[v] = pc[v] /\ tm'[v] = tm[v]
    BY <1>0, <1>3 DEF Adds, Insert, ReadsFront, StoresTickled, Return, Goto,
       onTimerInsertedAtFront, resetStores, CallTypes
  <2> QED BY <1>2, <2>1 DEF Moving
<1>4. CASE v = u
  <2>1. ~Insert(u)
    BY <1>2, <1>4 DEF Insert
  <2>2. resetStores(u)
    BY <1>2, <1>4, <2>1 DEF Adds, Moving, ReadsFront, StoresTickled,
       onTimerInsertedAtFront
  <2>3. pc'[u] = "insert" /\ tm'[u] = t
    BY <1>0, <1>2, <1>4, <2>2 DEF resetStores, Goto, CallTypes
  <2> QED BY <2>3 DEF Moving
<1> QED BY <1>3, <1>4

(* A call begins on a timer that no other call has in hand.                *)
LEMMA PlacedCalls ==
  ASSUME Alone, PlacedInv, TimerInv, NEW u \in Users, Calls(u)
  PROVE  PlacedInv'
<1>0. CallTypes /\ TimerTypes /\ Ordered
  BY DEF PlacedInv, TimerInv, Types
<1> PICK c \in Timers :
      \/ \E ms \in Delays, r \in BOOLEAN : New(u, c, ms, r)
      \/ cancel(u, c) \/ refresh(u, c)
      \/ \E a \in [ms : Delays, from_now : BOOLEAN] : resetTakes(u, c, a)
  BY DEF Calls
<1>1. abort' = "none"
  <2>1. CASE cancel(u, c)
    <3>1. \A v \in Users : tm[v] # c
      BY <2>1 DEF cancel, MayCall
    <3>2. c \in m_timers /\ key[c] = m_next[c]
      BY <1>0, <2>1, <3>1 DEF PlacedInv, Placed, cancel, Ordered
    <3> QED BY <2>1, <3>2 DEF cancel, Found, PlacedInv
  <2> QED BY <2>1 DEF New, refresh, resetTakes, PlacedInv
<1> SUFFICES ASSUME NEW t \in Timers, m_cb'[t], t \notin m_timers'
             PROVE  \E v \in Users : Moving(v)' /\ tm'[v] = t
  BY <1>1 DEF PlacedInv, Placed
<1>2. CASE t # c
  <2>1. m_cb[t] /\ t \notin m_timers /\ pc[u] = "idle"
    BY <1>0, <1>2 DEF New, cancel, refresh, resetTakes, MayCall, timer, set,
       TimerTypes
  <2>2. PICK v \in Users : Moving(v) /\ tm[v] = t
    BY <2>1 DEF PlacedInv, Placed
  <2>3. pc'[v] = pc[v] /\ tm'[v] = tm[v]
    BY <1>0, <2>1, <2>2 DEF Moving, New, cancel, refresh, resetTakes, Goto,
       caller, CallTypes
  <2> QED BY <2>2, <2>3 DEF Moving
<1>3. CASE t = c
  <2>1. ~cancel(u, c)
    BY <1>0, <1>3 DEF cancel, TimerTypes
  <2>2. ~refresh(u, c)
    BY <1>3 DEF refresh, Found
  <2>3. pc'[u] \in {"insert", "reset"} /\ tm'[u] = c
    BY <1>0, <2>1, <2>2 DEF New, resetTakes, Goto, CallTypes
  <2> QED BY <1>3, <2>3 DEF Moving
<1> QED BY <1>2, <1>3

(* What listExpiredCb takes out for good has no function any more.         *)
LEMMA PlacedPolls ==
  ASSUME PlacedInv, TimerInv, NEW p \in Pollers, Polls(p) \/ Interrupted(p)
  PROVE  PlacedInv'
<1>1. CASE listExpiredCb(p)
  <2>1. TimerTypes
    BY DEF TimerInv, Types
  <2>2. UNCHANGED <<pc, tm, abort>>
    BY <1>1 DEF listExpiredCb, caller
  <2>3. \A t \in Timers :
          m_cb'[t] => m_cb[t] /\ (t \in m_timers => t \in m_timers')
    BY <1>1, <2>1 DEF listExpiredCb, CbAfter, Kept, TimerTypes
  <2> QED BY <2>2, <2>3 DEF PlacedInv, Placed, Moving
<1>2. CASE ~listExpiredCb(p)
  BY <1>2, PlacedSame
  DEF Polls, GoesIdle, getNextTimer, Interrupted, Wakes, Peeks, set, timer,
      caller
<1> QED BY <1>1, <1>2

(* Every step keeps timers placed, if calls on a timer do not overlap.     *)
LEMMA PlacedNext ==
  ASSUME Alone
  PROVE  PlacedInv /\ TimerInv /\ [Next]_vars => PlacedInv'
<1> SUFFICES ASSUME PlacedInv, TimerInv, [Next]_vars PROVE PlacedInv'
  OBVIOUS
<1>1. CASE UNCHANGED vars
  BY <1>1, PlacedSame DEF vars, set, timer, caller
<1>2. CASE abort = "none" /\ Step
  <2>1. CASE Tick \/ SetBack
    BY <2>1, PlacedSame DEF Tick, SetBack, set, timer, caller
  <2>2. CASE \E u \in Users : Adds(u) \/ Calls(u)
    BY <2>2, PlacedAdds, PlacedCalls
  <2>3. CASE \E p \in Pollers : Polls(p) \/ Interrupted(p)
    BY <2>3, PlacedPolls
  <2> QED BY <1>2, <2>1, <2>2, <2>3 DEF Step
<1> QED BY <1>1, <1>2 DEF Next

(* cancel() erases an element, never end(), as long as no other thread is  *)
(* inside a call on the same timer: its find() fails only in the window    *)
(* that reset() leaves open between its two sections.                      *)
THEOREM CancelFinds ==
  ASSUME Alone
  PROVE  Spec => []ErasesWhatItFound
<1>1. PlacedInv => ErasesWhatItFound
  BY DEF PlacedInv, ErasesWhatItFound
<1>2. PlacedInv /\ TimerInv /\ [Next]_vars => PlacedInv'
  BY PlacedNext
<1> QED BY <1>1, <1>2, PlacedInit, TimerInvariant, PTL DEF Spec

-----------------------------------------------------------------------------
(* Who wakes in time for the earliest timer.                               *)

(* A set of numbers has a least one.                                       *)
LEMMA Smallest ==
  ASSUME NEW T, T \subseteq Nat, T # {}
  PROVE  \E x \in T : \A y \in T : x <= y
<1>1. IsWellFoundedOn(OpToRel(<, Nat), Nat)
  BY NatLessThanWellFounded
<1>2. PICK x \in T : \A y \in T : ~(<<y, x>> \in OpToRel(<, Nat))
  BY <1>1, WFMin
<1>3. \A y \in T : ~(y < x)
  BY <1>2 DEF OpToRel
<1> QED BY <1>3

(* Numbers that the types of the code hold.                                *)
LEMMA NoWrap == ASSUME NEW x \in Nat, x < Wrap PROVE x % Wrap = x
BY TimerAssumption
LEMMA NoCut == ASSUME NEW x \in Nat, x < IntHalf PROVE AsInt(x) = x
BY TimerAssumption DEF AsInt

LEMMA PeriodsAreNat == Periods \subseteq Nat
BY TimerAssumption DEF Periods

(* A timer that is started now is due after its period.                    *)
LEMMA DueAfter ==
  ASSUME Modest, NEW start \in 0 .. MaxClock, NEW ms \in Periods
  PROVE  (start + ms) % Wrap = start + ms
<1>1. start \in Nat /\ ms \in Nat /\ start + ms < Wrap
  BY TimerAssumption DEF Modest, Periods, NoTimer
<1> QED BY <1>1, NoWrap

(* While the keys are numbers, a set of timers that is not empty has a     *)
(* first.                                                                  *)
LEMMA First ==
  ASSUME m_timers \subseteq Timers, m_timers # {},
         \A t \in m_timers : key[t] \in Nat
  PROVE  \E t \in m_timers : Begin(t)
<1>1. PICK k \in {key[t] : t \in m_timers} :
        \A j \in {key[t] : t \in m_timers} : k <= j
  BY Smallest
<1>2. PICK t \in {s \in m_timers : key[s] = k} :
        \A s \in {r \in m_timers : key[r] = k} : t <= s
  <2> DEFINE T == {s \in m_timers : key[s] = k}
  <2>1. T \subseteq Nat /\ T # {}
    BY <1>1, TimerAssumption
  <2> HIDE DEF T
  <2>2. \E t \in T : \A s \in T : t <= s
    BY <2>1, Smallest
  <2> QED BY <2>2 DEF T
<1>3. \A s \in m_timers \ {t} : Before(t, s)
  <2> SUFFICES ASSUME NEW s \in m_timers, s # t PROVE Before(t, s)
    OBVIOUS
  <2>1. key[t] = k /\ k <= key[s] /\ (key[s] = k => t <= s)
    BY <1>1, <1>2
  <2>2. s \in Nat /\ t \in Nat /\ key[s] \in Nat /\ k \in Nat
    BY <1>1, <1>2, TimerAssumption
  <2> QED BY <2>1, <2>2 DEF Before
<1> QED BY <1>2, <1>3 DEF Begin

(* Begin() is before all others.                                           *)
LEMMA Order ==
  ASSUME NEW s \in Timers, NEW t \in Timers, key[s] \in Nat, key[t] \in Nat
  PROVE  /\ s # t => Before(s, t) \/ Before(t, s)
         /\ Before(s, t) => key[s] <= key[t] /\ s # t
BY TimerAssumption DEF Before
LEMMA OrderTrans ==
  ASSUME NEW r \in Timers, NEW s \in Timers, NEW t \in Timers,
         key[r] \in Nat, key[s] \in Nat, key[t] \in Nat,
         Before(r, s), Before(s, t)
  PROVE  Before(r, t)
<1>1. r \in Nat /\ s \in Nat /\ t \in Nat
  BY TimerAssumption
<1> QED BY <1>1 DEF Before

(* While the clock is not set back the keys are numbers, not far ahead.    *)
LEMMA Ahead ==
  ASSUME TimerInv, abort = "none", Timed, wentBack = FALSE, NEW t \in m_timers
  PROVE  /\ t \in Timers /\ key[t] = m_next[t] /\ key[t] \in Nat
         /\ \E ms \in Periods : m_next[t] - clock <= ms
<1>1. t \in Timers /\ key[t] = m_next[t] /\ m_next[t] \in Nat
  BY DEF TimerInv, Types, TimerTypes, Ordered
<1>2. m_ms[t] \in Periods /\ m_next[t] - m_ms[t] \in 0 .. clock
  BY <1>1 DEF Timed, StartedBy
<1>3. m_ms[t] \in Nat
  BY <1>2, PeriodsAreNat
<1>4. clock \in Nat
  BY DEF TimerInv, Types, CallTypes
<1>5. m_next[t] - clock <= m_ms[t]
  BY <1>1, <1>2, <1>3, <1>4
<1> QED BY <1>1, <1>2, <1>5

(* The time-out that a thread asks for ends before every timer.            *)
LEMMA WaitsForFirst ==
  ASSUME TimerInv, abort = "none", Timed, wentBack = FALSE, Modest,
         NEW t \in m_timers
  PROVE  /\ WaitFor(NextTimer) \in Nat
         /\ WaitFor(NextTimer) = 0 \/ clock + WaitFor(NextTimer) <= m_next[t]
<1>1. m_timers \subseteq Timers /\ \A s \in m_timers : key[s] \in Nat
  BY Ahead
<1>2. \E s \in m_timers : Begin(s)
  BY <1>1, First
<1> DEFINE b == CHOOSE s \in m_timers : Begin(s)
<1>3. b \in m_timers /\ Begin(b)
  BY <1>2
<1> HIDE DEF b
<1>4. m_next[b] \in Nat /\ m_next[t] \in Nat /\ m_next[b] <= m_next[t]
  <2>1. t \in Timers /\ b \in Timers /\ key[t] \in Nat /\ key[b] \in Nat
        /\ key[t] = m_next[t] /\ key[b] = m_next[b]
    BY <1>3, Ahead
  <2>2. t # b => Before(b, t)
    BY <1>3 DEF Begin
  <2> QED BY <2>1, <2>2, Order
<1> DEFINE n == IF clock >= m_next[b] THEN 0 ELSE m_next[b] - clock
<1>5. NextTimer = n
  BY DEF NextTimer, b
<1>6. clock \in Nat
  BY DEF TimerInv, Types, CallTypes
<1>7. n \in Nat /\ n < IntHalf /\ n # NoTimer
  <2>1. PICK ms \in Periods : m_next[b] - clock <= ms
    BY <1>3, Ahead
  <2>2. ms < IntHalf /\ ms < NoTimer /\ ms \in Nat
    BY TimerAssumption DEF Modest, Periods, NoTimer
  <2> QED BY <1>4, <1>6, <2>1, <2>2, TimerAssumption DEF NoTimer
<1> HIDE DEF n
<1>8. AsInt(n) = n /\ AsInt(MaxTimeout) = MaxTimeout
  BY <1>7, NoCut, TimerAssumption
<1>9. WaitFor(n) = IF n > MaxTimeout THEN MaxTimeout ELSE n
  BY <1>7, <1>8, TimerAssumption DEF WaitFor
<1>10. WaitFor(n) \in Nat /\ WaitFor(n) <= n
  BY <1>7, <1>9, TimerAssumption
<1>11. n = 0 \/ clock + n <= m_next[t]
  BY <1>4, <1>6 DEF n
<1> QED BY <1>4, <1>5, <1>6, <1>7, <1>10, <1>11

-----------------------------------------------------------------------------
LEMMA SleepInit == ASSUME Pollers # {} PROVE Init => SleepInv
<1> SUFFICES ASSUME Init PROVE SleepInv
  OBVIOUS
<1>1. SleepTypes
  <2>1. asked \in [Pollers -> Int] /\ left \in [Pollers -> Int]
    BY DEF Init
  <2>2. at \in [Pollers -> {"away", "next", "sleep", "peek", "collect"}]
    BY DEF Init
  <2>3. late \in [Pollers -> BOOLEAN]
    BY DEF Init
  <2>4. m_tickled \in BOOLEAN /\ pipe \in BOOLEAN /\ wentBack \in BOOLEAN
    BY DEF Init
  <2> QED BY <2>1, <2>2, <2>3, <2>4 DEF SleepTypes
<1>4. Tickled
  BY DEF Init, Tickled
<1>2. Timed
  BY TimerAssumption DEF Init, Timed, StartedBy, Periods, NoArg
<1>3. Covered
  BY DEF Init, Covered, Covers
<1> QED BY <1>1, <1>2, <1>3, <1>4 DEF SleepInv

(* A thread that covers the timers goes on to, while those that are looked *)
(* at and their order stay.                                                *)
LEMMA CoversOn ==
  ASSUME NEW p \in Pollers, Covers(p), m_timers' \subseteq m_timers,
         at'[p] = at[p], left'[p] = left[p], late'[p] = late[p],
         clock' = clock,
         \A t \in m_timers' : key'[t] = key[t] /\ m_next'[t] = m_next[t],
         \A u \in Users : Looking(u) => Looking(u)' /\ tm'[u] = tm[u]
  PROVE  Covers(p)'
<1> SUFFICES ASSUME NEW t \in m_timers' PROVE Watches(p, t)' \/ Looks(t)'
  BY DEF Covers
<1>1. CASE Watches(p, t)
  BY <1>1 DEF Watches
<1>2. CASE Looks(t)
  <2>1. PICK u \in Users : Looking(u) /\ (tm[u] = t \/ Before(tm[u], t))
    BY <1>2 DEF Looks
  <2>2. Looking(u)' /\ tm'[u] = tm[u] /\ tm[u] \in m_timers'
    BY <2>1 DEF Looking
  <2>3. tm[u] = t \/ Before(tm[u], t)'
    BY <2>1, <2>2 DEF Before
  <2>4. (tm[u] = t \/ Before(tm[u], t))'
    BY <2>2, <2>3 DEF Before
  <2> QED BY <2>2, <2>4 DEF Looks
<1> QED BY <1>1, <1>2 DEF Covers

(* Whatever the clock did, epoll_wait is given an int.                     *)
LEMMA WaitIsInt == ASSUME TimerInv PROVE WaitFor(NextTimer) \in Int
<1>1. NoTimer \in Int /\ \A n \in Int : AsInt(n) \in Int
  BY TimerAssumption DEF NoTimer, AsInt
<1>2. NextTimer \in Int
  <2>1. CASE m_timers = {}
    BY <1>1, <2>1 DEF NextTimer
  <2>2. CASE m_timers # {}
    <3> DEFINE b == CHOOSE s \in m_timers : Begin(s)
    <3>1. m_timers \subseteq Timers /\ key \in [Timers -> Nat]
      BY DEF TimerInv, Types, TimerTypes
    <3>2. b \in m_timers
      BY <2>2, <3>1, First
    <3>3. m_next[b] \in Nat /\ clock \in Nat
      BY <3>1, <3>2 DEF TimerInv, Types, TimerTypes, CallTypes
    <3>4. NextTimer = IF clock >= m_next[b] THEN 0 ELSE m_next[b] - clock
      BY <2>2 DEF NextTimer
    <3> HIDE DEF b
    <3> QED BY <3>3, <3>4
  <2> QED BY <2>1, <2>2
<1> QED BY <1>1, <1>2, TimerAssumption DEF WaitFor, Forever

(* A step changes the flags and the threads within their types.            *)
LEMMA SleepTypesKept ==
  ASSUME SleepTypes, TimerInv, Step
  PROVE  SleepTypes'
<1> USE DEF SleepTypes, time, set, timer, caller, poller
<1>1. CASE Tick \/ SetBack
  <2>1. left' \in [Pollers -> Int]
    BY <1>1 DEF Tick, SetBack
  <2> QED BY <1>1, <2>1 DEF Tick, SetBack
<1>2. ASSUME NEW u \in Users, Adds(u)
      PROVE  SleepTypes'
  <2>1. pipe' \in BOOLEAN /\ m_tickled' \in BOOLEAN
    BY <1>2 DEF Adds, Insert, ReadsFront, StoresTickled, resetStores,
       onTimerInsertedAtFront, tickle
  <2> QED BY <1>2, <2>1 DEF Adds, Insert, ReadsFront, StoresTickled,
          resetStores, onTimerInsertedAtFront
<1>3. ASSUME NEW u \in Users, Calls(u)
      PROVE  SleepTypes'
  BY <1>3 DEF Calls, New, cancel, refresh, resetTakes
<1>4. ASSUME NEW p \in Pollers, Polls(p) \/ Interrupted(p)
      PROVE  SleepTypes'
  <2>1. CASE Interrupted(p)
    <3>1. late' \in [Pollers -> BOOLEAN]
      BY <2>1 DEF Interrupted
    <3>2. left' \in [Pollers -> Int]
      BY <2>1 DEF Interrupted
    <3> QED BY <2>1, <3>1, <3>2 DEF Interrupted
  <2>2. CASE GoesIdle(p)
    BY <2>2 DEF GoesIdle
  <2>3. CASE getNextTimer(p)
    <3>1. asked' \in [Pollers -> Int] /\ left' \in [Pollers -> Int]
      BY <2>3, WaitIsInt DEF getNextTimer
    <3> QED BY <2>3, <3>1 DEF getNextTimer
  <2>4. CASE Wakes(p)
    <3>1. asked' \in [Pollers -> Int] /\ left' \in [Pollers -> Int]
      BY <2>4 DEF Wakes
    <3> QED BY <2>4, <3>1 DEF Wakes
  <2>5. CASE Peeks(p) \/ listExpiredCb(p)
    <3>1. pipe' \in BOOLEAN
      BY <2>5 DEF Peeks, listExpiredCb, SwitchesBack
    <3>2. at' \in [Pollers -> {"away", "next", "sleep", "peek", "collect"}]
      BY <2>5 DEF Peeks, listExpiredCb, SwitchesBack
    <3> QED BY <2>5, <3>1, <3>2 DEF Peeks, listExpiredCb
  <2> QED BY <1>4, <2>1, <2>2, <2>3, <2>4, <2>5 DEF Polls
<1> QED BY <1>1, <1>2, <1>3, <1>4 DEF Step

(* A timer that a step starts anew, at a time that is past.                *)
LEMMA StartedAnew ==
  ASSUME Modest, TimerInv, clock \in 0 .. MaxClock,
         NEW t \in Timers, NEW start \in 0 .. clock, NEW ms \in Periods,
         m_ms'[t] = ms, m_next'[t] = (start + ms) % Wrap, clock' = clock
  PROVE  StartedBy(t)'
<1>1. clock \in Nat /\ start \in 0 .. MaxClock
  BY TimerAssumption DEF TimerInv, Types, CallTypes
<1>2. m_next'[t] = start + ms
  BY <1>1, DueAfter
<1>3. ms \in Nat
  BY TimerAssumption DEF Periods
<1> QED BY <1>1, <1>2, <1>3 DEF StartedBy

(* Users start timers at the clock's time or leave their start as it was.  *)
LEMMA TimedUsers ==
  ASSUME Timed, TimerInv, Modest, NEW u \in Users, Adds(u) \/ Calls(u)
  PROVE  Timed'
<1> USE DEF time, set, timer, caller, poller
<1>0. TimerTypes /\ CallTypes
  BY DEF TimerInv, Types
<1>1. clock' = clock /\ wentBack' = wentBack /\ now' = now
  BY DEF Adds, Insert, ReadsFront, StoresTickled, resetStores,
     onTimerInsertedAtFront, Calls, New, cancel, refresh, resetTakes
<1>2. \A v \in Users : arg'[v].ms \in Periods
  BY <1>0 DEF Timed, CallTypes, Adds, Insert, ReadsFront, StoresTickled,
     resetStores, onTimerInsertedAtFront, Calls, New, cancel, refresh,
     resetTakes, Return, Goto, NoArg, Periods
<1>3. ASSUME NEW t \in Timers, wentBack = FALSE
      PROVE  StartedBy(t)'
  <2>0. StartedBy(t) /\ clock \in 0 .. MaxClock /\ clock \in Nat
    BY <1>0, <1>3 DEF Timed, CallTypes
  <2>1. CASE m_ms'[t] = m_ms[t] /\ m_next'[t] = m_next[t]
    BY <1>1, <2>0, <2>1 DEF StartedBy
  <2>2. ASSUME NEW c \in Timers, NEW ms \in Delays, NEW r \in BOOLEAN,
               New(u, c, ms, r)
        PROVE  StartedBy(t)'
    <3>1. CASE t # c
      BY <1>0, <2>1, <2>2, <3>1 DEF New, TimerTypes
    <3>2. CASE t = c
      <4>1. m_ms'[t] = ms /\ m_next'[t] = (clock + ms) % Wrap
        BY <1>0, <2>2, <3>2 DEF New, TimerTypes
      <4> QED BY <1>1, <2>0, <4>1, StartedAnew DEF Periods
    <3> QED BY <3>1, <3>2
  <2>3. ASSUME NEW c \in Timers, refresh(u, c)
        PROVE  StartedBy(t)'
    <3>1. CASE t # c
      BY <1>0, <2>1, <2>3, <3>1 DEF refresh, TimerTypes
    <3>2. CASE t = c
      <4>1. m_ms'[t] = m_ms[t] /\ m_next'[t] = (clock + m_ms[t]) % Wrap
        BY <1>0, <2>3, <3>2 DEF refresh, TimerTypes
      <4> QED BY <1>1, <2>0, <4>1, StartedAnew DEF StartedBy
    <3> QED BY <3>1, <3>2
  <2>4. CASE resetStores(u)
    <3>1. CASE t # tm[u]
      BY <1>0, <2>1, <2>4, <3>1 DEF resetStores, TimerTypes
    <3>2. CASE t = tm[u]
      <4> DEFINE start == IF arg[u].from_now THEN clock
                          ELSE m_next[t] - m_ms[t]
      <4>1. /\ m_ms'[t] = arg[u].ms
            /\ m_next'[t] = (start + arg[u].ms) % Wrap
        BY <1>0, <2>4, <3>2 DEF resetStores, TimerTypes
      <4>2. start \in 0 .. clock /\ arg[u].ms \in Periods
        BY <2>0 DEF StartedBy, Timed
      <4> HIDE DEF start
      <4> QED BY <1>1, <2>0, <4>1, <4>2, StartedAnew
    <3> QED BY <3>1, <3>2
  <2>5. CASE ~resetStores(u) /\ Adds(u)
    BY <2>1, <2>5 DEF Adds, Insert, ReadsFront, StoresTickled,
       onTimerInsertedAtFront
  <2>6. ASSUME NEW c \in Timers,
               cancel(u, c) \/ \E a \in [ms : Delays, from_now : BOOLEAN] :
                                 resetTakes(u, c, a)
        PROVE  StartedBy(t)'
    BY <2>1, <2>6 DEF cancel, resetTakes
  <2> QED BY <2>2, <2>3, <2>4, <2>5, <2>6 DEF Calls
<1> QED BY <1>1, <1>2, <1>3 DEF Timed

(* Threads start recurring timers at the time they read.                   *)
LEMMA TimedThreads ==
  ASSUME Timed, TimerInv, Modest, NEW p \in Pollers, Polls(p) \/ Interrupted(p)
  PROVE  Timed'
<1> USE DEF time, set, timer, caller, poller
<1>0. TimerTypes /\ CallTypes
  BY DEF TimerInv, Types
<1>1. clock' = clock /\ wentBack' = wentBack /\ arg' = arg /\ m_ms' = m_ms
  BY DEF Polls, GoesIdle, getNextTimer, Wakes, Peeks, listExpiredCb, Interrupted
<1>2. ASSUME wentBack = FALSE PROVE \A q \in Pollers : now'[q] <= clock
  BY <1>0, <1>2 DEF Timed, CallTypes, Polls, GoesIdle, getNextTimer, Wakes,
     Peeks, listExpiredCb, Interrupted, SwitchesBack
<1>3. ASSUME NEW t \in Timers, wentBack = FALSE
      PROVE  StartedBy(t)'
  <2>0. StartedBy(t) /\ clock \in 0 .. MaxClock /\ clock \in Nat
    BY <1>0, <1>3 DEF Timed, CallTypes
  <2>1. CASE m_next'[t] = m_next[t]
    BY <1>1, <2>0, <2>1 DEF StartedBy
  <2>2. CASE m_next'[t] # m_next[t]
    <3>1. listExpiredCb(p)
      BY <2>2 DEF Polls, GoesIdle, getNextTimer, Wakes, Peeks, Interrupted
    <3>2. m_next'[t] = (now[p] + m_ms[t]) % Wrap
      BY <2>2, <3>1 DEF listExpiredCb
    <3>3. now[p] \in 0 .. clock /\ m_ms[t] \in Periods
      BY <1>0, <1>3, <2>0 DEF Timed, CallTypes, StartedBy
    <3> QED BY <1>1, <2>0, <3>2, <3>3, StartedAnew
  <2> QED BY <2>1, <2>2
<1> QED BY <1>1, <1>2, <1>3 DEF Timed

(* Time passes.                                                            *)
LEMMA TimedTime ==
  ASSUME Timed, TimerInv, Tick \/ SetBack
  PROVE  Timed'
<1> USE DEF time, set, timer, caller, poller
<1>0. TimerTypes /\ CallTypes
  BY DEF TimerInv, Types
<1>1. CASE Tick
  <2>1. clock' \in 0 .. MaxClock /\ clock <= clock' /\ clock' \in Nat
        /\ clock \in Nat
    BY <1>0, <1>1, TimerAssumption DEF Tick, Timed, CallTypes
  <2>2. UNCHANGED <<wentBack, arg, m_ms, m_next, now>>
    BY <1>1 DEF Tick
  <2>3. ASSUME wentBack = FALSE, NEW t \in Timers PROVE StartedBy(t)'
    <3>1. StartedBy(t) /\ m_next[t] \in Int /\ m_ms[t] \in Int
      BY <1>0, <2>3 DEF Timed, TimerTypes
    <3> QED BY <2>1, <2>2, <3>1 DEF StartedBy
  <2>4. ASSUME wentBack = FALSE, NEW p \in Pollers PROVE now'[p] <= clock'
    BY <1>0, <2>1, <2>2, <2>4 DEF Timed, CallTypes
  <2> QED BY <2>1, <2>2, <2>3, <2>4 DEF Timed
<1>2. CASE SetBack
  BY <1>2, TimerAssumption DEF SetBack, Timed
<1> QED BY <1>1, <1>2

-----------------------------------------------------------------------------
(* Nobody goes to sleep on a flag that is set.                             *)
LEMMA TickledKept ==
  ASSUME SleepTypes, Tickled, TimerInv, Pollers # {}, Step
  PROVE  Tickled'
<1> USE DEF time, set, timer, caller, poller
<1>0. CallTypes
  BY DEF TimerInv, Types
<1>1. CASE \/ UNCHANGED <<m_tickled, pipe, pc, at>>
           \/ m_tickled' = FALSE
           \/ \E p \in Pollers : at'[p] # "sleep"
           \/ \E u \in Users : pc'[u] = "tickle"
  BY <1>1 DEF Tickled, Telling
<1>2. ASSUME NEW u \in Users, pc[u] # "tickle",
             UNCHANGED <<m_tickled, pipe, at>>,
             \A v \in Users : v # u => pc'[v] = pc[v]
      PROVE  Tickled'
  BY <1>2 DEF Tickled, Telling
<1>3. CASE Tick \/ SetBack
  BY <1>1, <1>3 DEF Tick, SetBack
<1>4. ASSUME NEW u \in Users, Adds(u)
      PROVE  Tickled'
  <2>1. CASE Insert(u) \/ ReadsFront(u) \/ resetStores(u)
    BY <1>0, <1>2, <2>1 DEF CallTypes, Insert, ReadsFront, resetStores, Return,
       Goto
  <2>2. CASE StoresTickled(u)
    <3>1. pc'[u] = "tickle"
      BY <1>0, <2>2 DEF CallTypes, StoresTickled
    <3> QED BY <1>1, <3>1
  <2>3. CASE onTimerInsertedAtFront(u)
    <3>1. pipe' \/ \A p \in Pollers : at'[p] = "away"
      BY <2>3 DEF onTimerInsertedAtFront, tickle
    <3> QED BY <3>1 DEF Tickled
  <2> QED BY <1>4, <2>1, <2>2, <2>3 DEF Adds
<1>5. ASSUME NEW u \in Users, Calls(u)
      PROVE  Tickled'
  <2>1. /\ UNCHANGED <<m_tickled, pipe, at>>
        /\ \/ pc' = pc
           \/ pc[u] = "idle" /\ \A v \in Users : v # u => pc'[v] = pc[v]
    BY <1>0, <1>5 DEF CallTypes, Calls, New, cancel, refresh, resetTakes,
       MayCall, Goto
  <2> QED BY <1>1, <1>2, <2>1
<1>6. ASSUME NEW p \in Pollers, Polls(p) \/ Interrupted(p)
      PROVE  Tickled'
  <2>1. CASE getNextTimer(p)
    BY <1>1, <2>1 DEF getNextTimer
  <2>2. CASE Interrupted(p)
    BY <1>1, <2>2 DEF Interrupted
  <2>3. CASE GoesIdle(p) \/ Wakes(p) \/ Peeks(p) \/ listExpiredCb(p)
    <3>1. at'[p] # "sleep"
      BY <2>3 DEF SleepTypes, GoesIdle, Wakes, Peeks, listExpiredCb,
         SwitchesBack
    <3> QED BY <1>1, <3>1
  <2> QED BY <1>6, <2>1, <2>2, <2>3 DEF Polls
<1> QED BY <1>3, <1>4, <1>5, <1>6 DEF Step

-----------------------------------------------------------------------------
(* A step that leaves the pipe and those who will write to it alone.       *)
Writing(u) == pc[u] \in {"store", "tickle"}
LEMMA CoveredKept ==
  ASSUME Covered, wentBack => wentBack', pipe => pipe',
         \A u \in Users : Writing(u) => Writing(u)',
         wentBack = FALSE \/ wentBack,
         \A p \in Pollers :
           wentBack = FALSE /\ Covers(p) => \E q \in Pollers : Covers(q)'
  PROVE  Covered'
BY DEF Covered, Writing

(* addTimer(val) inserts, and has yet to look.                             *)
LEMMA CoveredInsert ==
  ASSUME SleepInv, TimerInv, PlacedInv, NEW u \in Users, Insert(u)
  PROVE  Covered'
<1> USE DEF Insert, time, set, timer, caller, poller
<1>0. TimerTypes /\ CallTypes /\ tm[u] \in Timers /\ tm[u] \notin m_timers
  BY DEF TimerInv, Types, PlacedInv, Carried, Moving, CallTypes
<1>1. /\ pc'[u] = "front" /\ tm[u] \in m_timers'
      /\ \A v \in Users : v # u => pc'[v] = pc[v]
  BY <1>0 DEF CallTypes
<1>2. \A t \in m_timers : key'[t] = key[t] /\ t \in m_timers'
  BY <1>0 DEF TimerTypes
<1>3. ASSUME NEW p \in Pollers, Covers(p)
      PROVE  Covers(p)'
  <2> SUFFICES ASSUME NEW t \in m_timers' PROVE Watches(p, t)' \/ Looks(t)'
    BY DEF Covers
  <2>1. CASE t = tm[u]
    <3>1. Looking(u)' /\ (tm[u] = t)'
      BY <1>1, <2>1 DEF Looking
    <3> QED BY <3>1 DEF Looks
  <2>2. CASE t \in m_timers /\ Watches(p, t)
    BY <2>2 DEF Watches
  <2>3. CASE t \in m_timers /\ Looks(t)
    <3>1. PICK v \in Users : Looking(v) /\ (tm[v] = t \/ Before(tm[v], t))
      BY <2>3 DEF Looks
    <3>2. Looking(v)'
      BY <1>1, <1>2, <3>1 DEF Looking
    <3>3. (tm[v] = t \/ Before(tm[v], t))'
      BY <1>2, <2>3, <3>1 DEF Looking, Before
    <3> QED BY <3>2, <3>3 DEF Looks
  <2> QED BY <1>3, <2>1, <2>2, <2>3 DEF Covers
<1>4. \A v \in Users : Writing(v) => Writing(v)'
  BY <1>1 DEF Writing
<1> QED BY <1>3, <1>4, CoveredKept DEF SleepInv, SleepTypes

(* It looks, and need not tickle: somebody has, or a timer before its own  *)
(* is looked after.                                                        *)
LEMMA CoveredLooks ==
  ASSUME SleepInv, TimerInv, PlacedInv, NEW u \in Users, ReadsFront(u)
  PROVE  Covered'
<1> USE DEF ReadsFront, time, set, timer, caller, poller
<1>0. TimerTypes /\ CallTypes /\ Ordered /\ tm[u] \in Timers
  BY DEF TimerInv, Types, PlacedInv, CallTypes
<1>1. CASE Begin(tm[u]) /\ ~m_tickled
  <2>1. pc'[u] = "store"
    BY <1>0, <1>1 DEF CallTypes
  <2> QED BY <2>1 DEF Covered
<1>2. CASE ~(Begin(tm[u]) /\ ~m_tickled)
  <2>1. \A v \in Users : v # u => pc'[v] = pc[v] /\ tm'[v] = tm[v]
    BY <1>0, <1>2 DEF Return, Goto, CallTypes
  <2>2. \A v \in Users : Writing(v) => Writing(v)'
    BY <2>1 DEF Writing
  <2>3. CASE m_tickled
    <3>1. pipe \/ Telling \/ \E p \in Pollers : at[p] # "sleep"
      BY <2>3 DEF SleepInv, Tickled
    <3>2. Telling => \E v \in Users : pc'[v] = "tickle"
      BY <2>1 DEF Telling
    <3>3. ASSUME NEW p \in Pollers, at[p] # "sleep" PROVE Covers(p)'
      BY <3>3 DEF Covers, Watches
    <3> QED BY <3>1, <3>2, <3>3 DEF Covered
  <2>4. CASE ~Begin(tm[u])
    <3>1. ASSUME NEW p \in Pollers, wentBack = FALSE, Covers(p)
          PROVE  Covers(p)'
      <4> SUFFICES ASSUME NEW t \in m_timers PROVE Watches(p, t)' \/ Looks(t)'
        BY DEF Covers
      <4>0. \A s \in m_timers :
              s \in Timers /\ key[s] \in Nat /\ key[s] = m_next[s]
        BY <1>0 DEF TimerTypes, Ordered
      <4>1. ASSUME NEW v \in Users, v # u, Looking(v),
                   tm[v] = t \/ Before(tm[v], t)
            PROVE  Looks(t)'
        <5>1. Looking(v)' /\ (tm[v] = t \/ Before(tm[v], t))'
          BY <2>1, <4>1 DEF Looking, Before
        <5> QED BY <5>1 DEF Looks
      <4>2. CASE Watches(p, t)
        BY <4>2 DEF Watches
      <4>3. CASE Looking(u) /\ (tm[u] = t \/ Before(tm[u], t))
        <5>1. tm[u] \in m_timers
          BY <4>3 DEF Looking
        <5>2. PICK s \in m_timers : s # tm[u] /\ ~Before(tm[u], s)
          BY <2>4, <5>1 DEF Begin
        <5>3. Before(s, tm[u])
          BY <4>0, <5>1, <5>2, Order
        <5>4. Before(s, t)
          BY <4>0, <4>3, <5>1, <5>3, OrderTrans
        <5>5. CASE Watches(p, s)
          <6>1. m_next[s] <= m_next[t]
            BY <4>0, <5>4, Order
          <6>2. clock \in Nat /\ left[p] \in Int
            BY <1>0 DEF CallTypes, SleepInv, SleepTypes
          <6> QED BY <4>0, <5>5, <6>1, <6>2 DEF Watches
        <5>6. CASE Looks(s)
          <6>1. PICK v \in Users : Looking(v) /\ (tm[v] = s \/ Before(tm[v], s))
            BY <5>6 DEF Looks
          <6>2. v # u
            BY <5>2, <6>1
          <6>3. Before(tm[v], t)
            BY <4>0, <5>4, <6>1, OrderTrans DEF Looking
          <6> QED BY <4>1, <6>1, <6>2, <6>3
        <5> QED BY <3>1, <5>5, <5>6 DEF Covers
      <4>4. CASE Looks(t)
        BY <4>1, <4>3, <4>4 DEF Looks
      <4> QED BY <3>1, <4>2, <4>4 DEF Covers
    <3> QED BY <2>2, <3>1, CoveredKept DEF SleepInv, SleepTypes
  <2> QED BY <1>2, <2>3, <2>4
<1> QED BY <1>1, <1>2

(* The rest of addTimer(val) and of reset().                               *)
LEMMA CoveredTells ==
  ASSUME SleepInv, TimerInv, PlacedInv, Pollers # {}, NEW u \in Users,
         StoresTickled(u) \/ onTimerInsertedAtFront(u) \/ resetStores(u)
  PROVE  Covered'
<1> USE DEF time, set, timer, caller, poller
<1>0. TimerTypes /\ CallTypes
  BY DEF TimerInv, Types
<1>1. CASE StoresTickled(u)
  <2>1. pc'[u] = "tickle"
    BY <1>0, <1>1 DEF StoresTickled, CallTypes
  <2> QED BY <2>1 DEF Covered
<1>2. CASE onTimerInsertedAtFront(u)
  <2>1. CASE pipe'
    BY <2>1 DEF Covered
  <2>2. CASE ~pipe'
    <3>1. \A p \in Pollers : at'[p] = "away"
      BY <1>2, <2>2 DEF onTimerInsertedAtFront, tickle
    <3>2. \A p \in Pollers : Covers(p)'
      BY <3>1 DEF Covers, Watches
    <3> QED BY <3>2 DEF Covered
  <2> QED BY <2>1, <2>2
<1>3. CASE resetStores(u)
  <2>1. tm[u] \in Timers /\ tm[u] \notin m_timers
    BY <1>0, <1>3 DEF resetStores, TimerInv, PlacedInv, Carried, Moving,
       CallTypes
  <2>2. \A v \in Users : v # u => pc'[v] = pc[v] /\ tm'[v] = tm[v]
    BY <1>0, <1>3 DEF resetStores, Goto, CallTypes
  <2>3. \A v \in Users : Writing(v) => Writing(v)'
    BY <1>3, <2>2 DEF Writing, resetStores
  <2>4. \A v \in Users : Looking(v) => Looking(v)' /\ tm'[v] = tm[v]
    BY <1>3, <2>2 DEF Looking, resetStores
  <2>5. \A t \in m_timers : m_next'[t] = m_next[t]
    BY <1>0, <1>3, <2>1 DEF resetStores, TimerTypes
  <2>6. UNCHANGED <<m_timers, key, clock, wentBack, pipe, at, left, late>>
    BY <1>3 DEF resetStores
  <2>7. ASSUME NEW p \in Pollers, Covers(p) PROVE Covers(p)'
    BY <2>4, <2>5, <2>6, <2>7, CoversOn
  <2> QED BY <2>3, <2>6, <2>7, CoveredKept DEF SleepInv, SleepTypes
<1> QED BY <1>1, <1>2, <1>3

(* A timer that is put off stays where somebody wakes for it.              *)
LEMMA CoveredRefresh ==
  ASSUME SleepInv, TimerInv, PlacedInv, Alone, Modest, NEW u \in Users,
         NEW c \in Timers, refresh(u, c)
  PROVE  Covered'
<1> USE DEF refresh, time, set, timer, caller, poller
<1>0. TimerTypes /\ CallTypes /\ Ordered /\ Timed
  BY DEF TimerInv, Types, PlacedInv, SleepInv
<1>1. c \in m_timers /\ \A v \in Users : tm[v] # c
  BY DEF MayCall, Found
<1>2. \A t \in Timers : t # c => key'[t] = key[t] /\ m_next'[t] = m_next[t]
  BY <1>0 DEF TimerTypes
<1>3. ASSUME wentBack = FALSE
      PROVE  /\ m_next'[c] \in Nat /\ key'[c] = m_next'[c]
             /\ m_next[c] <= m_next'[c]
  <2>1. key'[c] = m_next'[c] /\ m_next'[c] = (clock + m_ms[c]) % Wrap
    BY <1>0 DEF TimerTypes
  <2>2. StartedBy(c) /\ clock \in 0 .. MaxClock /\ clock \in Nat
    BY <1>0, <1>3 DEF Timed, CallTypes
  <2>3. m_ms[c] \in Periods /\ m_ms[c] \in Nat
    BY <2>2, PeriodsAreNat DEF StartedBy
  <2>4. m_next'[c] = clock + m_ms[c]
    BY <2>1, <2>2, <2>3, DueAfter
  <2>5. m_next[c] \in Nat /\ m_next[c] - m_ms[c] <= clock
    BY <1>0, <2>2 DEF StartedBy, TimerTypes
  <2> QED BY <2>1, <2>2, <2>3, <2>4, <2>5
<1>4. ASSUME NEW p \in Pollers, wentBack = FALSE, Covers(p)
      PROVE  Covers(p)'
  <2> SUFFICES ASSUME NEW t \in m_timers PROVE Watches(p, t)' \/ Looks(t)'
    BY DEF Covers
  <2>0. /\ t \in Timers /\ m_next[t] \in Nat /\ m_next'[t] \in Nat
        /\ key[t] \in Nat /\ key[t] = m_next[t] /\ m_next[t] <= m_next'[t]
    <3>1. /\ t \in Timers /\ m_next[t] \in Nat
          /\ key[t] \in Nat /\ key[t] = m_next[t]
      BY <1>0 DEF TimerTypes, Ordered
    <3>2. m_next'[c] \in Nat /\ m_next[c] <= m_next'[c]
      BY <1>3, <1>4
    <3>3. t # c => m_next'[t] = m_next[t]
      BY <1>2, <3>1
    <3> HIDE DEF refresh
    <3> QED BY <3>1, <3>2, <3>3
  <2>1. CASE Watches(p, t)
    <3>1. clock \in Nat /\ left[p] \in Int
      BY <1>0 DEF CallTypes, SleepInv, SleepTypes
    <3> QED BY <2>0, <2>1, <3>1 DEF Watches
  <2>2. CASE Looks(t)
    <3>1. PICK v \in Users : Looking(v) /\ (tm[v] = t \/ Before(tm[v], t))
      BY <2>2 DEF Looks
    <3>2. Looking(v)' /\ tm[v] \in Timers /\ tm[v] # c /\ key[tm[v]] \in Nat
      BY <1>0, <1>1, <3>1 DEF Looking, TimerTypes
    <3>3. key'[tm[v]] = key[tm[v]]
      BY <1>2, <3>2
    <3>4. (tm[v] = t \/ Before(tm[v], t))'
      <4>1. CASE t # c
        BY <1>2, <2>0, <3>1, <3>3, <4>1 DEF Before
      <4>2. CASE t = c
        <5>1. Before(tm[v], t) /\ tm[v] \in Nat /\ t \in Nat
          BY <3>1, <3>2, <4>2, <2>0, TimerAssumption
        <5>2. key[t] <= key'[t] /\ key'[t] \in Nat
          BY <1>3, <1>4, <2>0, <4>2
        <5> QED BY <2>0, <3>2, <3>3, <5>1, <5>2 DEF Before
      <4> QED BY <4>1, <4>2
    <3> QED BY <3>2, <3>4 DEF Looks
  <2> QED BY <1>4, <2>1, <2>2 DEF Covers
<1>5. \A v \in Users : Writing(v) => Writing(v)'
  BY DEF Writing
<1> QED BY <1>4, <1>5, CoveredKept DEF SleepInv, SleepTypes

(* The other calls begin on a timer that no addTimer has yet to look at.   *)
LEMMA CoveredCalls ==
  ASSUME SleepInv, TimerInv, PlacedInv, Alone, Modest, NEW u \in Users, Calls(u)
  PROVE  Covered'
<1> USE DEF time, set, timer, caller, poller
<1>0. TimerTypes /\ CallTypes /\ Fresh
  BY DEF TimerInv, Types
<1> PICK c \in Timers :
      \/ \E ms \in Delays, r \in BOOLEAN : New(u, c, ms, r)
      \/ cancel(u, c) \/ refresh(u, c)
      \/ \E a \in [ms : Delays, from_now : BOOLEAN] : resetTakes(u, c, a)
  BY DEF Calls
<1>1. CASE refresh(u, c)
  BY <1>1, CoveredRefresh
<1>2. CASE ~refresh(u, c)
  <2>1. /\ pc[u] = "idle"
        /\ \A v \in Users : tm[v] # c
        /\ \A v \in Users : v # u => pc'[v] = pc[v] /\ tm'[v] = tm[v]
    BY <1>0, <1>2 DEF New, cancel, resetTakes, MayCall, Goto, CallTypes
  <2>2. UNCHANGED <<clock, wentBack, pipe, at, left, late>>
    BY <1>2 DEF New, cancel, resetTakes
  <2>3. /\ m_timers' \subseteq m_timers
        /\ \A t \in m_timers : t # c => t \in m_timers'
    BY <1>2 DEF New, cancel, resetTakes
  <2>4. \A t \in m_timers' : key'[t] = key[t] /\ m_next'[t] = m_next[t]
    <3> SUFFICES ASSUME NEW t \in m_timers'
                 PROVE  key'[t] = key[t] /\ m_next'[t] = m_next[t]
      OBVIOUS
    <3>1. t # c
      BY <1>0, <1>2 DEF New, cancel, resetTakes, Fresh, Owned
    <3> QED BY <1>0, <1>2, <2>3, <3>1 DEF New, cancel, resetTakes, TimerTypes
  <2>5. \A v \in Users : Looking(v) => Looking(v)' /\ tm'[v] = tm[v]
    BY <2>1, <2>3 DEF Looking
  <2>6. \A v \in Users : Writing(v) => Writing(v)'
    BY <2>1 DEF Writing
  <2>7. ASSUME NEW p \in Pollers, Covers(p) PROVE Covers(p)'
    BY <2>2, <2>3, <2>4, <2>5, <2>7, CoversOn
  <2> QED BY <2>2, <2>6, <2>7, CoveredKept DEF SleepInv, SleepTypes
<1> QED BY <1>1, <1>2

(* A thread that goes to sleep wakes in time for all.                      *)
LEMMA CoveredThreads ==
  ASSUME SleepInv, TimerInv, PlacedInv, Modest, NEW p \in Pollers,
         Polls(p) \/ Interrupted(p)
  PROVE  Covered'
<1> USE DEF time, set, timer, caller, poller
<1>0. SleepTypes
  BY DEF SleepInv
<1>1. CASE GoesIdle(p) \/ Wakes(p) \/ Peeks(p) \/ listExpiredCb(p)
  <2>1. at'[p] # "sleep"
    BY <1>0, <1>1 DEF SleepTypes, GoesIdle, Wakes, Peeks, listExpiredCb,
       SwitchesBack
  <2>2. Covers(p)'
    BY <2>1 DEF Covers, Watches
  <2> QED BY <2>2 DEF Covered
<1>2. CASE Interrupted(p)
  <2>1. late'[p] = TRUE
    BY <1>0, <1>2 DEF SleepTypes, Interrupted
  <2>2. Covers(p)'
    BY <2>1 DEF Covers, Watches
  <2> QED BY <2>2 DEF Covered
<1>3. CASE getNextTimer(p)
  <2>1. CASE wentBack
    BY <1>3, <2>1 DEF getNextTimer, Covered
  <2>2. CASE wentBack = FALSE
    <3>1. ASSUME NEW t \in m_timers PROVE Watches(p, t)'
      <4>1. /\ WaitFor(NextTimer) \in Nat
            /\ WaitFor(NextTimer) = 0 \/ clock + WaitFor(NextTimer) <= m_next[t]
        BY <2>2, WaitsForFirst DEF SleepInv, PlacedInv
      <4>2. left'[p] = WaitFor(NextTimer)
        BY <1>0, <1>3 DEF getNextTimer, SleepTypes
      <4>3. clock' = clock /\ m_next' = m_next
        BY <1>3 DEF getNextTimer
      <4> QED BY <4>1, <4>2, <4>3 DEF Watches
    <3>2. Covers(p)'
      BY <1>3, <3>1 DEF Covers, getNextTimer
    <3> QED BY <3>2 DEF Covered
  <2> QED BY <1>0, <2>1, <2>2 DEF SleepTypes
<1> QED BY <1>1, <1>2, <1>3 DEF Polls

(* Time that passes for the clock passes for those who sleep.              *)
LEMMA CoveredTime ==
  ASSUME SleepInv, TimerInv, Tick \/ SetBack
  PROVE  Covered'
<1> USE DEF time, set, timer, caller, poller
<1>1. CASE SetBack
  BY <1>1 DEF SetBack, Covered
<1>2. CASE Tick
  <2>0. UNCHANGED <<m_timers, key, m_next, pc, tm, pipe, wentBack, at, late>>
    BY <1>2 DEF Tick
  <2>1. ASSUME NEW p \in Pollers, Covers(p) PROVE Covers(p)'
    <3> SUFFICES ASSUME NEW t \in m_timers PROVE Watches(p, t)' \/ Looks(t)'
      BY <2>0 DEF Covers
    <3>1. CASE Watches(p, t)
      <4>1. clock \in Nat /\ left[p] \in Int /\ m_next[t] \in Nat
        BY DEF TimerInv, Types, TimerTypes, CallTypes, SleepInv, SleepTypes
      <4>2. /\ left'[p] = IF left[p] > 0 THEN left[p] - 1 ELSE left[p]
            /\ clock' \in {clock, clock + 1}
        BY <1>2 DEF Tick
      <4> QED BY <2>0, <3>1, <4>1, <4>2 DEF Watches
    <3>2. CASE Looks(t)
      BY <2>0, <3>2 DEF Looks, Looking, Before
    <3> QED BY <2>1, <3>1, <3>2 DEF Covers
  <2> QED BY <2>0, <2>1, CoveredKept DEF SleepInv, SleepTypes, Writing
<1> QED BY <1>1, <1>2

(* Every step keeps the invariant.                                         *)
LEMMA SleepNext ==
  ASSUME Alone, Modest, Pollers # {}
  PROVE  SleepInv /\ TimerInv /\ PlacedInv /\ [Next]_vars => SleepInv'
<1> SUFFICES ASSUME SleepInv, TimerInv, PlacedInv, [Next]_vars PROVE SleepInv'
  OBVIOUS
<1>1. CASE UNCHANGED vars
  BY <1>1 DEF vars, time, set, timer, caller, poller, SleepInv, SleepTypes,
     Timed, StartedBy, Tickled, Telling, Covered, Covers, Watches, Looks,
     Looking, Before
<1>2. CASE Step
  <2>1. SleepTypes' /\ Tickled'
    BY <1>2, SleepTypesKept, TickledKept DEF SleepInv
  <2>2. Timed'
    BY <1>2, TimedUsers, TimedThreads, TimedTime DEF SleepInv, Step
  <2>3. Covered'
    BY <1>2, CoveredTime, CoveredInsert, CoveredLooks, CoveredTells,
       CoveredCalls, CoveredThreads DEF Step, Adds
  <2> QED BY <2>1, <2>2, <2>3 DEF SleepInv
<1> QED BY <1>1, <1>2 DEF Next

(* Nobody oversleeps: unless a tickle is on its way or a call of addTimer  *)
(* has yet to look at the front, some thread in idle() wakes in time for   *)
(* every timer (timer.cc:206, iomanager.cc:353).  For calls that do not    *)
(* overlap on one timer, and times that the types of the code hold.        *)
THEOREM SleepersWake ==
  ASSUME Alone, Modest, Pollers # {}
  PROVE  Spec => []NoOversleep
<1>1. SleepInv => NoOversleep
  <2> SUFFICES ASSUME SleepInv, ~pipe, ~wentBack,
                      \A u \in Users : pc[u] \notin {"front", "store", "tickle"}
               PROVE  \A t \in m_timers : \E p \in Pollers : Watches(p, t)
    BY DEF NoOversleep
  <2>1. PICK p \in Pollers : Covers(p)
    BY DEF SleepInv, Covered
  <2> QED BY <2>1 DEF Covers, Looks, Looking
<1>2. SleepInv /\ TimerInv /\ PlacedInv /\ [Next]_vars => SleepInv'
  BY SleepNext
<1>3. PlacedInv /\ TimerInv /\ [Next]_vars => PlacedInv'
  BY PlacedNext
<1>4. Init => SleepInv
  BY SleepInit
<1> QED BY <1>1, <1>2, <1>3, <1>4, PlacedInit, TimerInvariant, PTL DEF Spec
=============================================================================
