------------------------------- MODULE Timer -------------------------------
(***************************************************************************)
(* sylar/timer.{h,cc}, and the part of IOManager::idle() that sleeps until *)
(* the next timer: users add, cancel, refresh and reset timers while the   *)
(* pool's threads ask for the next one, sleep in epoll_wait, and collect   *)
(* what has expired.                                                       *)
(*                                                                         *)
(* A section under m_mutex is one action.  What the code does outside of   *)
(* it, the second half of reset() and of addTimer(), is taken step by step. *)
(*                                                                         *)
(* Time is counted in ticks.  The clock of GetCurrentMS() can be set back; *)
(* the time-outs of epoll_wait do not follow it.                           *)
(***************************************************************************)
EXTENDS Integers, FiniteSets

CONSTANTS
  Users,       \* threads that call the timers' operations
  Pollers,     \* threads of the pool, in idle() when they have no task
  Timers,      \* Timer objects, named by their addresses
  Delays,      \* the periods that users ask for
  Scenarios,   \* which timers there are, what users call besides addTimer,
               \* and what happens to time
  Alone,       \* whether calls on one timer never overlap
  MaxTimeout,  \* MAX_TIMEOUT of idle()
  IntHalf,     \* 2^31: an int is below it
  Hour,        \* 60 * 60 * 1000
  Wrap,        \* 2^64
  StartClock, MaxClock,   \* the times that GetCurrentMS() returns: bound
  Null

Kinds == {"cancel", "refresh", "reset", "recurring", "signal", "back"}

ASSUME TimerAssumption ==
  /\ IsFiniteSet(Users) /\ IsFiniteSet(Pollers)
  /\ IsFiniteSet(Timers) /\ Timers \subseteq Nat /\ Null \notin Timers
  /\ Delays \subseteq Nat
  /\ Scenarios \subseteq [timers : SUBSET Timers, uses : SUBSET Kinds]
  /\ Alone \in BOOLEAN
  /\ MaxTimeout \in Nat /\ Hour \in Nat
  /\ IntHalf \in Nat /\ IntHalf > MaxTimeout
  /\ Wrap \in Nat /\ Wrap > 0
  /\ StartClock \in Nat /\ MaxClock \in Nat /\ StartClock <= MaxClock

VARIABLES
  scenario,         \* which of the scenarios this is
  clock, wentBack,  \* GetCurrentMS(), and whether it was ever set back
  m_timers,         \* the set
  key,              \* key[t]: the m_next under which the tree has t, or 0
  m_next, m_ms, m_cb, m_recurring,   \* fields of the timers
  m_tickled, m_previouseTime,
  pipe,             \* the tickle pipe was written to since it was reported
  pc, tm, arg,      \* pc[u]: the call user u is in, its timer and argument
  known,            \* timers whose pointer addTimer has returned
  at,               \* at[p]: where poller p is in idle()
  asked, left,      \* the time-out of p's epoll_wait, and what is left of it
  now,              \* now[p]: now_ms of listExpiredCb
  reads,            \* reads[p]: p's epoll_wait reported the pipe
  late,             \* late[p]: a signal has made p's sleep longer
  fired, cancelled, \* history of the timers that do not recur
  abort             \* what ended the process, or "none"

time   == <<clock, wentBack>>
timer  == <<m_next, m_ms, m_cb, m_recurring>>
set    == <<m_timers, key>>
caller == <<pc, tm, arg, known>>
poller == <<at, asked, left, now, reads, late>>
vars == <<scenario, time, set, timer, m_tickled, m_previouseTime, pipe, caller,
          poller, fired, cancelled, abort>>

Forever == -1
NoTimer == Wrap - 1          \* ~0ull
NoArg == [ms |-> 0, from_now |-> FALSE]

(* Timer::Comparator, on the keys that the tree was built with.            *)
Before(s, t) == key[s] < key[t] \/ (key[s] = key[t] /\ s < t)
Begin(t) == t \in m_timers /\ \A s \in m_timers \ {t} : Before(t, s)

(* m_timers.find(t): the search follows the timer's own m_next.            *)
Found(t) == t \in m_timers /\ key[t] = m_next[t]

-----------------------------------------------------------------------------
Init ==
  /\ scenario \in Scenarios
  /\ clock = StartClock /\ wentBack = FALSE
  /\ m_timers = {}
  /\ key = [t \in Timers |-> 0]
  /\ m_next = [t \in Timers |-> 0]
  /\ m_ms = [t \in Timers |-> 0]
  /\ m_cb = [t \in Timers |-> FALSE]
  /\ m_recurring = [t \in Timers |-> FALSE]
  /\ m_tickled = FALSE
  /\ m_previouseTime = StartClock
  /\ pipe = FALSE
  /\ pc = [u \in Users |-> "idle"]
  /\ tm = [u \in Users |-> Null]
  /\ arg = [u \in Users |-> NoArg]
  /\ known = {}
  /\ at = [p \in Pollers |-> "away"]
  /\ asked = [p \in Pollers |-> 0]
  /\ left = [p \in Pollers |-> 0]
  /\ now = [p \in Pollers |-> 0]
  /\ reads = [p \in Pollers |-> FALSE] /\ late = [p \in Pollers |-> FALSE]
  /\ fired = [t \in Timers |-> 0]
  /\ cancelled = [t \in Timers |-> 0]
  /\ abort = "none"

(* A tick passes, for the clock and for those who sleep.                   *)
Tick ==
  /\ clock < MaxClock \/ \E p \in Pollers : left[p] > 0
  /\ clock' = IF clock < MaxClock THEN clock + 1 ELSE clock
  /\ left' = [p \in Pollers |-> IF left[p] > 0 THEN left[p] - 1 ELSE left[p]]
  /\ UNCHANGED <<scenario, wentBack, set, timer, m_tickled, m_previouseTime,
                 pipe, caller, at, asked, now, reads, late, fired, cancelled,
                 abort>>

(* The clock is set back, by more than Hour or less; once, and to 0, which *)
(* are bounds.                                                             *)
SetBack ==
  /\ "back" \in scenario.uses /\ ~wentBack /\ clock > 0
  /\ clock' = 0 /\ wentBack' = TRUE
  /\ UNCHANGED <<scenario, set, timer, m_tickled, m_previouseTime, pipe,
                 caller, poller, fired, cancelled, abort>>

-----------------------------------------------------------------------------
(* The users.                                                              *)

(* User u may call an operation of t.                                      *)
MayCall(u, t) ==
  /\ pc[u] = "idle" /\ t \in known
  /\ Alone => \A v \in Users : tm[v] # t

Goto(u, place, t, a) ==
  /\ pc' = [pc EXCEPT ![u] = place]
  /\ tm' = [tm EXCEPT ![u] = t]
  /\ arg' = [arg EXCEPT ![u] = a]

(* TimerManager::addTimer(ms, cb, recurring): new Timer, and its pointer   *)
(* is known to others only when the call returns.                          *)
New(u, t, ms, recurring) ==
  /\ pc[u] = "idle"
  /\ t \in scenario.timers \ known /\ \A v \in Users : tm[v] # t
  /\ recurring => "recurring" \in scenario.uses
  /\ m_ms' = [m_ms EXCEPT ![t] = ms]
  /\ m_next' = [m_next EXCEPT ![t] = (clock + ms) % Wrap]
  /\ m_cb' = [m_cb EXCEPT ![t] = TRUE]
  /\ m_recurring' = [m_recurring EXCEPT ![t] = recurring]
  /\ Goto(u, "insert", t, NoArg)
  /\ UNCHANGED <<scenario, time, set, m_tickled, m_previouseTime, pipe, known,
                 poller, fired, cancelled, abort>>

(* addTimer(val): the section under the lock.                              *)
Insert(u) ==
  /\ pc[u] = "insert"
  /\ m_timers' = m_timers \cup {tm[u]}
  /\ key' = [key EXCEPT ![tm[u]] = m_next[tm[u]]]
  /\ pc' = [pc EXCEPT ![u] = "front"]
  /\ UNCHANGED <<scenario, time, timer, m_tickled, m_previouseTime, pipe, tm,
                 arg, known, poller, fired, cancelled, abort>>

(* The call returns. *)
Return(u) ==
  /\ Goto(u, "idle", Null, NoArg)
  /\ known' = known \cup {tm[u]}

(* at_front = it == m_timers.begin() && !m_tickled, without the lock; the  *)
(* iterator of a timer that is gone by now equals no other.                *)
ReadsFront(u) ==
  /\ pc[u] = "front"
  /\ IF Begin(tm[u]) /\ ~m_tickled
     THEN pc' = [pc EXCEPT ![u] = "store"] /\ UNCHANGED <<tm, arg, known>>
     ELSE Return(u)
  /\ UNCHANGED <<scenario, time, set, timer, m_tickled, m_previouseTime, pipe,
                 poller, fired, cancelled, abort>>

StoresTickled(u) ==
  /\ pc[u] = "store"
  /\ m_tickled' = TRUE
  /\ pc' = [pc EXCEPT ![u] = "tickle"]
  /\ UNCHANGED <<scenario, time, set, timer, m_previouseTime, pipe, tm, arg,
                 known, poller, fired, cancelled, abort>>

(* IOManager::tickle: one byte, if a thread is idle.                       *)
tickle == pipe' = (pipe \/ \E p \in Pollers : at[p] # "away")

onTimerInsertedAtFront(u) ==
  /\ pc[u] = "tickle"
  /\ tickle
  /\ Return(u)
  /\ UNCHANGED <<scenario, time, set, timer, m_tickled, m_previouseTime,
                 poller, fired, cancelled, abort>>

(* Timer::cancel, when the timer has its function.  It does not compare    *)
(* the result of find() with end().                                        *)
cancel(u, t) ==
  /\ "cancel" \in scenario.uses /\ MayCall(u, t) /\ m_cb[t]
  /\ m_cb' = [m_cb EXCEPT ![t] = FALSE]
  /\ m_timers' = m_timers \ {t} /\ key' = [key EXCEPT ![t] = 0]
  /\ abort' = IF Found(t) THEN abort ELSE "erase"
  /\ cancelled' = IF m_recurring[t] THEN cancelled
                  ELSE [cancelled EXCEPT ![t] = @ + 1]
  /\ UNCHANGED <<scenario, time, m_next, m_ms, m_recurring, m_tickled,
                 m_previouseTime, pipe, caller, poller, fired>>

(* Mutation: the key changes inside the set.                               *)
refreshInPlace(u, t) ==
  /\ "refresh" \in scenario.uses /\ MayCall(u, t) /\ m_cb[t] /\ Found(t)
  /\ m_next' = [m_next EXCEPT ![t] = (clock + m_ms[t]) % Wrap]
  /\ UNCHANGED <<scenario, time, set, m_ms, m_cb, m_recurring, m_tickled,
                 m_previouseTime, pipe, caller, poller, fired, cancelled,
                 abort>>

(* Timer::refresh, when it returns true.                                   *)
refresh(u, t) ==
  /\ "refresh" \in scenario.uses /\ MayCall(u, t) /\ m_cb[t] /\ Found(t)
  /\ m_next' = [m_next EXCEPT ![t] = (clock + m_ms[t]) % Wrap]
  /\ key' = [key EXCEPT ![t] = m_next'[t]]
  /\ UNCHANGED <<scenario, time, m_timers, m_ms, m_cb, m_recurring, m_tickled,
                 m_previouseTime, pipe, caller, poller, fired, cancelled,
                 abort>>

(* Timer::reset up to the end of the section under the lock.               *)
resetTakes(u, t, a) ==
  /\ "reset" \in scenario.uses /\ MayCall(u, t)
  /\ ~(a.ms = m_ms[t] /\ ~a.from_now)
  /\ m_cb[t] /\ Found(t)
  /\ m_timers' = m_timers \ {t} /\ key' = [key EXCEPT ![t] = 0]
  /\ Goto(u, "reset", t, a)
  /\ UNCHANGED <<scenario, time, timer, m_tickled, m_previouseTime, pipe,
                 known, poller, fired, cancelled, abort>>

(* ... and the rest of it, up to addTimer.                                 *)
resetStores(u) ==
  LET t == tm[u]
      start == IF arg[u].from_now THEN clock ELSE m_next[t] - m_ms[t]
  IN
  /\ pc[u] = "reset"
  /\ m_ms' = [m_ms EXCEPT ![t] = arg[u].ms]
  /\ m_next' = [m_next EXCEPT ![t] = (start + arg[u].ms) % Wrap]
  /\ Goto(u, "insert", t, NoArg)
  /\ UNCHANGED <<scenario, time, set, m_cb, m_recurring, m_tickled,
                 m_previouseTime, pipe, known, poller, fired, cancelled,
                 abort>>

-----------------------------------------------------------------------------
(* The threads of the pool, in IOManager::idle().                          *)

(* run() found no task.                                                    *)
GoesIdle(p) ==
  /\ at[p] = "away"
  /\ at' = [at EXCEPT ![p] = "next"]
  /\ UNCHANGED <<scenario, time, set, timer, m_tickled, m_previouseTime, pipe,
                 caller, asked, left, now, reads, late, fired, cancelled,
                 abort>>

(* A uint64_t as an int.                                                   *)
AsInt(n) == ((n + IntHalf) % (2 * IntHalf)) - IntHalf

(* Mutation: only a tickle ends the wait.                                  *)
WaitForTickle(n) == Forever

(* What idle() makes of the next time-out, and epoll_wait of that.         *)
WaitFor(n) ==
  LET capped == IF n = NoTimer \/ AsInt(n) > MaxTimeout THEN MaxTimeout ELSE n
  IN IF AsInt(capped) < 0 THEN Forever ELSE AsInt(capped)

(* What getNextTimer returns.                                              *)
NextTimer ==
  IF m_timers = {} THEN NoTimer
  ELSE LET t == CHOOSE t \in m_timers : Begin(t) IN
       IF clock >= m_next[t] THEN 0 ELSE m_next[t] - clock

(* Mutation: m_tickled is not cleared.                                     *)
getNextTimerKeeps(p) ==
  /\ at[p] = "next"
  /\ asked' = [asked EXCEPT ![p] = WaitFor(NextTimer)]
  /\ left' = [left EXCEPT ![p] = WaitFor(NextTimer)]
  /\ at' = [at EXCEPT ![p] = "sleep"]
  /\ UNCHANGED <<scenario, time, set, timer, m_tickled, m_previouseTime, pipe,
                 caller, now, reads, late, fired, cancelled, abort>>

(* getNextTimer, in stopping(), and then epoll_wait begins.                *)
getNextTimer(p) ==
  /\ at[p] = "next"
  /\ m_tickled' = FALSE
  /\ asked' = [asked EXCEPT ![p] = WaitFor(NextTimer)]
  /\ left' = [left EXCEPT ![p] = WaitFor(NextTimer)]
  /\ at' = [at EXCEPT ![p] = "sleep"]
  /\ UNCHANGED <<scenario, time, set, timer, m_previouseTime, pipe, caller,
                 now, reads, late, fired, cancelled, abort>>

(* A signal: epoll_wait starts again with the same time-out.               *)
Interrupted(p) ==
  /\ "signal" \in scenario.uses /\ at[p] = "sleep" /\ left[p] < asked[p]
  /\ left' = [left EXCEPT ![p] = asked[p]]
  /\ late' = [late EXCEPT ![p] = TRUE]
  /\ UNCHANGED <<scenario, time, set, timer, m_tickled, m_previouseTime, pipe,
                 caller, at, asked, now, reads, fired, cancelled, abort>>

(* epoll_wait returns: the time is up, or the pipe was written to; then    *)
(* listExpiredCb reads the clock.                                          *)
Wakes(p) ==
  /\ at[p] = "sleep"
  /\ left[p] = 0 \/ pipe
  /\ pipe' = FALSE /\ reads' = [reads EXCEPT ![p] = pipe]
  /\ now' = [now EXCEPT ![p] = clock]
  /\ at' = [at EXCEPT ![p] = "peek"]
  /\ left' = [left EXCEPT ![p] = 0]
  /\ asked' = [asked EXCEPT ![p] = 0]
  /\ late' = [late EXCEPT ![p] = FALSE]
  /\ UNCHANGED <<scenario, time, set, timer, m_tickled, m_previouseTime,
                 caller, fired, cancelled, abort>>

(* The end of an iteration of idle(): what is in the pipe is read if it    *)
(* was reported, and the thread switches back to run().                    *)
SwitchesBack(p) ==
  /\ at' = [at EXCEPT ![p] = "away"]
  /\ now' = [now EXCEPT ![p] = 0]
  /\ pipe' = (pipe /\ ~reads[p])
  /\ reads' = [reads EXCEPT ![p] = FALSE]

(* listExpiredCb: the look under the read lock.                            *)
Peeks(p) ==
  /\ at[p] = "peek"
  /\ IF m_timers = {} THEN SwitchesBack(p)
     ELSE /\ at' = [at EXCEPT ![p] = "collect"]
          /\ UNCHANGED <<now, pipe, reads>>
  /\ UNCHANGED <<scenario, time, set, timer, m_tickled, m_previouseTime,
                 caller, asked, left, late, fired, cancelled, abort>>

detectClockRollover(n) ==
  n < m_previouseTime /\ n < (m_previouseTime - Hour) % Wrap

Expired(n) ==
  IF detectClockRollover(n) THEN m_timers ELSE {t \in m_timers : key[t] <= n}

(* What of the expired timers goes back to the set.                        *)
Kept(due) == {t \in due : m_recurring[t]}

(* Mutation: a timer that is done keeps its function.                      *)
CbAfterKeeps(due) == m_cb

CbAfter(due) == [t \in Timers |-> m_cb[t] /\ (t \in due => m_recurring[t])]

(* listExpiredCb under the write lock; idle() schedules the functions.     *)
listExpiredCb(p) ==
  LET due == Expired(now[p])
      next == [t \in Timers |-> IF t \in Kept(due)
                                THEN (now[p] + m_ms[t]) % Wrap ELSE m_next[t]]
  IN
  /\ at[p] = "collect"
  /\ m_previouseTime' = IF m_timers = {} THEN m_previouseTime ELSE now[p]
  /\ m_timers' = (m_timers \ due) \cup Kept(due)
  /\ m_next' = next
  /\ key' = [t \in Timers |-> IF t \notin due THEN key[t]
                              ELSE IF t \in Kept(due) THEN next[t] ELSE 0]
  /\ m_cb' = CbAfter(due)
  /\ fired' = [t \in Timers |->
                 IF t \in due /\ m_cb[t] /\ ~m_recurring[t] THEN fired[t] + 1
                 ELSE fired[t]]
  /\ SwitchesBack(p)
  /\ UNCHANGED <<scenario, time, m_ms, m_recurring, m_tickled, caller, asked,
                 left, late, cancelled, abort>>

-----------------------------------------------------------------------------
Adds(u) ==
  \/ Insert(u) \/ ReadsFront(u) \/ StoresTickled(u)
  \/ onTimerInsertedAtFront(u) \/ resetStores(u)

Calls(u) ==
  \E t \in Timers :
    \/ \E ms \in Delays, r \in BOOLEAN : New(u, t, ms, r)
    \/ cancel(u, t) \/ refresh(u, t)
    \/ \E a \in [ms : Delays, from_now : BOOLEAN] : resetTakes(u, t, a)

Polls(p) ==
  \/ GoesIdle(p) \/ getNextTimer(p) \/ Wakes(p) \/ Peeks(p) \/ listExpiredCb(p)

Step ==
  \/ Tick
  \/ SetBack
  \/ \E u \in Users : Adds(u) \/ Calls(u)
  \/ \E p \in Pollers : Polls(p) \/ Interrupted(p)

Next == abort = "none" /\ Step

Spec == Init /\ [][Next]_vars

(* Time passes, and the threads of the pool go on; a task they run ends.   *)
Fairness ==
  /\ WF_vars(abort = "none" /\ Tick)
  /\ \A p \in Pollers : WF_vars(abort = "none" /\ Polls(p))

FairSpec == Spec /\ Fairness

-----------------------------------------------------------------------------
(* Properties.                                                             *)

Places == {"idle", "insert", "front", "store", "tickle", "reset"}

(* The tree is searched with the keys it was built with, and everything in *)
(* it has a function to run: no operation changes m_next or m_cb of a      *)
(* timer that is inside.                                                   *)
SetInOrder ==
  abort = "none" => \A t \in m_timers : key[t] = m_next[t] /\ m_cb[t]

(* cancel() never erases end().                                            *)
ErasesWhatItFound == abort = "none"

(* A timer that does not recur is collected once or cancelled once, never  *)
(* both: cancel() returned true means that the function will not run.      *)
FiresOrCancels == \A t \in Timers : fired[t] + cancelled[t] <= 1

(* Poller p will be back before t is due, or is up already.                *)
Watches(p, t) ==
  \/ at[p] # "sleep" \/ left[p] = 0 \/ late[p]
  \/ left[p] > 0 /\ clock + left[p] <= m_next[t]

(* Nobody oversleeps a timer while the clock is not set back: unless a     *)
(* tickle is on its way, or a call of addTimer has yet to look, some       *)
(* thread wakes in time for the earliest.                                  *)
NoOversleep ==
  \/ abort # "none" \/ pipe \/ wentBack
  \/ \E u \in Users : pc[u] \in {"front", "store", "tickle"}
  \/ \A t \in m_timers : \E p \in Pollers : Watches(p, t)

(* A timer that is due is collected, unless it is cancelled, put off, the  *)
(* clock is set back, or signals keep a thread in epoll_wait.              *)
Due(t) ==
  /\ abort = "none" /\ t \in m_timers /\ clock >= m_next[t]
  /\ \A p \in Pollers : ~late[p]
DueCollected == \A t \in Timers : Due(t) ~> ~Due(t)
=============================================================================
