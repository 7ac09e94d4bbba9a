----------------------------- MODULE HookProofs -----------------------------
(***************************************************************************)
(* One wake-up for every hooked call that waits, whatever time-outs,       *)
(* events and close() do at the same time, and what a call may be told,    *)
(* for any number of fibers, calls and sockets.                            *)
(***************************************************************************)
EXTENDS Hook, FiniteSetTheorems, TLAPS

Io == {"read", "connect"}

IoTypes ==
  /\ sock \in [open : BOOLEAN, gen : Nat, data : BOOLEAN,
               conn : {"none", "trying", "up", "refused"}]
  /\ waiter \in [Events -> Fibers \cup {Null}]
  /\ interest \subseteq Events
  /\ queued \in [Fibers -> Nat]
CallTypes ==
  /\ started \in [Fibers -> Nat]
  /\ cancelled \in [Fibers -> BOOLEAN] /\ missed \in [Fibers -> BOOLEAN]
  /\ late \subseteq Fibers /\ abort \in BOOLEAN
  /\ pc \in [Fibers -> {"idle", "fun", "arm", "add", "held", "sockopt", "del",
                        "close_f"}]
  /\ op \in [Fibers -> [kind : Io \cup {"none", "sleep"}, timeout : BOOLEAN,
                        call : Nat, gen : Nat,
                        by : {"none", "event", "cancel", "close"}]]
TimerTypes ==
  tm \in [Ids -> [st : {"none", "armed", "queued", "cancel", "over"},
                  kind : Io \cup {"none", "sleep"}, call : Nat]]
Types == IoTypes /\ CallTypes /\ TimerTypes

(* Which call a fiber is in at each place.                                 *)
Places ==
  \A f \in Fibers :
    /\ op[f].kind = "none" <=> pc[f] \in {"idle", "del", "close_f"}
    /\ op[f].kind = "sleep" => pc[f] = "held"
    /\ pc[f] = "sockopt" => op[f].kind = "connect"
    /\ op[f].kind \notin Io => ~op[f].timeout
    /\ op[f].timeout /\ pc[f] \in {"add", "held"} => started[f] \in Numbers(f)

(* A timer of fiber f that will still wake it, or still time a call out.   *)
Asleep(f, n) == tm[<<f, n>>].kind = "sleep"
Timing(f, n) == tm[<<f, n>>].kind \in Io
TimerOk(f, n) ==
  /\ n > started[f] => tm[<<f, n>>] = NoTimer
  /\ tm[<<f, n>>].call <= op[f].call
  /\ Asleep(f, n) => /\ tm[<<f, n>>].st \in {"armed", "queued"}
                     /\ op[f].kind = "sleep" /\ n = started[f]
                     /\ queued[f] = 0
  /\ tm[<<f, n>>].st \in {"armed", "queued", "cancel"}
       => tm[<<f, n>>].kind # "none"
  /\ Timing(f, n) /\ tm[<<f, n>>].call = op[f].call /\ op[f].kind # "none"
       => op[f].timeout = TRUE
Timers == \A f \in Fibers : \A n \in Numbers(f) : TimerOk(f, n)

(* A fiber that waits is in the run queue, registered, or asleep, and in    *)
(* one of them only.                                                        *)
Waiting ==
  /\ \A e \in Events, f \in Fibers : waiter[e] = f =>
       /\ pc[f] = "held" /\ op[f].kind \in Io /\ EventOf(op[f].kind) = e
       /\ queued[f] = 0
  /\ \A f \in Fibers :
       /\ queued[f] # 0 => queued[f] = 1 /\ pc[f] = "held"
       /\ pc[f] = "held" =>
            \/ queued[f] = 1
            \/ op[f].kind \in Io /\ waiter[EventOf(op[f].kind)] = f
            \/ /\ op[f].kind = "sleep" /\ started[f] \in Numbers(f)
               /\ Asleep(f, started[f])

(* ETIMEDOUT is for calls with a time-out.                                  *)
Marks == \A f \in Fibers : cancelled[f] => op[f].timeout

(* A registration that the kernel may not know is one of a late fiber: no   *)
(* registration that was made in time outlives the socket.                  *)
Lost ==
  /\ \A e \in Events : waiter[e] # Null /\ waiter[e] \notin late =>
       /\ e \in interest /\ sock.open /\ ~Closing
       /\ op[waiter[e]].gen = sock.gen
  /\ \A f, g \in Fibers :
       f # g /\ op[f].kind = op[g].kind /\ op[f].kind \in Io
         => op[f].gen # op[g].gen
  /\ abort => late # {}

(* A connect that its event woke.                                           *)
Connected ==
  \A f \in Fibers :
    /\ op[f].gen <= sock.gen
    /\ op[f].kind = "connect" /\ op[f].by = "event" /\ op[f].gen = sock.gen
         /\ sock.open => sock.conn \in {"up", "refused"}

HookInv == Types /\ Places /\ Timers /\ Waiting /\ Marks /\ Lost /\ Connected

-----------------------------------------------------------------------------
(* The numbers of timers.                                                  *)
LEMMA IdsAre ==
  /\ \A f \in Fibers : \A n \in Numbers(f) : <<f, n>> \in Ids
  /\ \A i \in Ids : \E f \in Fibers : \E n \in Numbers(f) : i = <<f, n>>
BY DEF Ids

(* What a step may do to fiber f's call and timers without starting a timer.  *)
Same(f) == /\ op'[f].kind = op[f].kind /\ op'[f].call = op[f].call
           /\ op'[f].timeout = op[f].timeout
Quiet(f) == \A n \in Numbers(f) : ~Asleep(f, n)
Ended(f, n) == tm'[<<f, n>>] = OverTimer /\ tm[<<f, n>>].st # "none"

LEMMA TimersKept ==
  ASSUME CallTypes, CallTypes', TimerTypes, Timers, started' = started,
         \A f \in Fibers : \A n \in Numbers(f) :
           tm'[<<f, n>>] = tm[<<f, n>>] \/ Ended(f, n),
         \A f \in Fibers :
           \/ Same(f) /\ (queued'[f] = queued[f] \/ Quiet(f)')
           \/ op'[f].kind = "none" /\ op'[f].call = op[f].call /\ Quiet(f)'
           \/ op[f].kind = "none" /\ op'[f].call = op[f].call + 1
  PROVE  Timers'
<1> SUFFICES ASSUME NEW f \in Fibers, NEW n \in Numbers(f)
             PROVE  TimerOk(f, n)'
  BY DEF Timers
<1>1. TimerOk(f, n)
  BY DEF Timers
<1>2. op[f].call \in Nat /\ op'[f].call \in Nat /\ tm[<<f, n>>].call \in Nat
  BY IdsAre DEF CallTypes, TimerTypes
<1>3. CASE Ended(f, n)
  BY <1>1, <1>2, <1>3 DEF TimerOk, Ended, OverTimer, NoTimer, Asleep, Timing, Io
<1>4. CASE tm'[<<f, n>>] = tm[<<f, n>>]
  <2>1. CASE Same(f) /\ queued'[f] = queued[f]
    BY <1>1, <1>4, <2>1 DEF TimerOk, Same, Asleep, Timing
  <2>2. CASE Same(f) /\ Quiet(f)'
    BY <1>1, <1>4, <2>2 DEF TimerOk, Same, Quiet, Asleep, Timing
  <2>3. CASE op'[f].kind = "none" /\ op'[f].call = op[f].call /\ Quiet(f)'
    BY <1>1, <1>4, <2>3 DEF TimerOk, Quiet, Asleep, Timing
  <2>4. CASE op[f].kind = "none" /\ op'[f].call = op[f].call + 1
    <3>1. tm[<<f, n>>].call <= op[f].call /\ ~Asleep(f, n)
      BY <1>1, <2>4 DEF TimerOk
    <3>2. tm[<<f, n>>].call # op'[f].call /\ tm[<<f, n>>].call <= op'[f].call
      BY <1>2, <2>4, <3>1
    <3> QED BY <1>1, <1>4, <3>1, <3>2 DEF TimerOk, Asleep, Timing
  <2> QED BY <2>1, <2>2, <2>3, <2>4
<1> QED BY <1>3, <1>4

(* The timer of the fiber's wait, cancelled.                               *)
LEMMA StopTimerDoes ==
  ASSUME HookInv, NEW f \in Fibers, pc[f] \in {"add", "held"}, StopTimer(f)
  PROVE  /\ TimerTypes'
         /\ \A g \in Fibers : \A n \in Numbers(g) :
              \/ tm'[<<g, n>>] = tm[<<g, n>>]
              \/ Ended(g, n) /\ ~Asleep(g, n)
<1> USE DEF HookInv, Types
<1>1. CASE tm' = tm
  BY <1>1 DEF TimerTypes
<1>2. CASE op[f].timeout /\ tm[Mine(f)].st = "armed"
  <2>1. started[f] \in Numbers(f) /\ op[f].kind \in Io
    BY <1>2 DEF Places
  <2>2. tm' = [tm EXCEPT ![<<f, started[f]>>] = OverTimer]
    BY <1>2 DEF StopTimer, Mine
  <2>3. ~Asleep(f, started[f])
    BY <2>1 DEF Timers, TimerOk, Io
  <2>4. <<f, started[f]>> \in Ids
    BY <2>1, IdsAre
  <2>5. TimerTypes'
    BY <2>2, <2>4 DEF TimerTypes, OverTimer, Io
  <2>6. ASSUME NEW g \in Fibers, NEW n \in Numbers(g)
        PROVE  \/ tm'[<<g, n>>] = tm[<<g, n>>]
               \/ Ended(g, n) /\ ~Asleep(g, n)
    <3>1. <<g, n>> \in Ids
      BY IdsAre
    <3>2. CASE g = f /\ n = started[f]
      BY <1>2, <2>2, <2>3, <2>4, <3>2 DEF Ended, TimerTypes, Mine
    <3>3. CASE ~(g = f /\ n = started[f])
      <4>1. <<g, n>> # <<f, started[f]>>
        BY <3>3
      <4> QED BY <2>2, <2>4, <3>1, <4>1 DEF TimerTypes
    <3> QED BY <3>2, <3>3
  <2> QED BY <2>5, <2>6
<1> QED BY <1>1, <1>2 DEF StopTimer

(* A timer started for the fiber's call.                                   *)
LEMMA StartsDoes ==
  ASSUME CallTypes, TimerTypes, NEW f \in Fibers, NEW k \in Io \cup {"sleep"},
         op'[f].call \in Nat, Starts(f, k)
  PROVE  /\ TimerTypes' /\ started' \in [Fibers -> Nat]
         /\ started'[f] \in Numbers(f) /\ started'[f] = started[f] + 1
         /\ \A g \in Fibers : g # f => started'[g] = started[g]
         /\ tm'[<<f, started'[f]>>] =
              [st |-> "armed", kind |-> k, call |-> op'[f].call]
         /\ \A g \in Fibers : \A n \in Numbers(g) :
              g # f \/ n # started'[f] => tm'[<<g, n>>] = tm[<<g, n>>]
<1>1. /\ started' \in [Fibers -> Nat] /\ started'[f] = started[f] + 1
      /\ \A g \in Fibers : g # f => started'[g] = started[g]
  BY DEF Starts, CallTypes
<1>2. started'[f] \in Numbers(f)
  BY <1>1, HookAssumption DEF Starts, CallTypes, Numbers
<1>3. <<f, started'[f]>> \in Ids
  BY <1>2, IdsAre
<1>4. tm' = [tm EXCEPT ![<<f, started'[f]>>] =
               [st |-> "armed", kind |-> k, call |-> op'[f].call]]
  BY <1>1 DEF Starts
<1>5. TimerTypes'
  BY <1>3, <1>4 DEF TimerTypes
<1>6. tm'[<<f, started'[f]>>] =
        [st |-> "armed", kind |-> k, call |-> op'[f].call]
  BY <1>3, <1>4 DEF TimerTypes
<1>7. ASSUME NEW g \in Fibers, NEW n \in Numbers(g), g # f \/ n # started'[f]
      PROVE  tm'[<<g, n>>] = tm[<<g, n>>]
  <2>1. <<g, n>> \in Ids /\ <<g, n>> # <<f, started'[f]>>
    BY <1>7, IdsAre
  <2> QED BY <1>4, <2>1 DEF TimerTypes
<1> QED BY <1>1, <1>2, <1>5, <1>6, <1>7

(* triggerEvent for some of the registered events.                         *)
LEMMA TriggerDoes ==
  ASSUME IoTypes, CallTypes, NEW evs \in SUBSET Registered,
         NEW o \in {"event", "cancel", "close"}, Trigger(evs, o)
  PROVE  /\ waiter' \in [Events -> Fibers \cup {Null}]
         /\ interest' \subseteq Events /\ queued' \in [Fibers -> Nat]
         /\ op' \in [Fibers -> [kind : Io \cup {"none", "sleep"},
                        timeout : BOOLEAN, call : Nat, gen : Nat,
                        by : {"none", "event", "cancel", "close"}]]
         /\ \A e \in Events :
              waiter'[e] = (IF e \in evs THEN Null ELSE waiter[e])
         /\ \A f \in Fibers : Same(f) /\ op'[f].gen = op[f].gen
         /\ \A f \in Fibers : \A e \in evs : waiter[e] = f
              => queued'[f] = queued[f] + 1 /\ op'[f].by = o
         /\ \A f \in Fibers : (\A e \in evs : waiter[e] # f)
              => queued'[f] = queued[f] /\ op'[f] = op[f]
<1>1. evs \subseteq Events
  BY DEF Registered
<1>2. /\ waiter' \in [Events -> Fibers \cup {Null}] /\ interest' \subseteq Events
      /\ \A e \in Events : waiter'[e] = (IF e \in evs THEN Null ELSE waiter[e])
  BY DEF Trigger, IoTypes
<1> DEFINE woken == {waiter[e] : e \in evs}
<1>3. queued' = [f \in Fibers |-> queued[f] + (IF f \in woken THEN 1 ELSE 0)]
  BY DEF Trigger
<1>4. op' = [f \in Fibers |-> IF f \in woken THEN [op[f] EXCEPT !.by = o]
                                             ELSE op[f]]
  BY DEF Trigger
<1>5. \A f \in Fibers : f \in woken <=> \E e \in evs : waiter[e] = f
  OBVIOUS
<1> HIDE DEF woken
<1>6. queued' \in [Fibers -> Nat]
  BY <1>3 DEF IoTypes
<1>7. ASSUME NEW f \in Fibers
      PROVE  /\ op'[f] \in [kind : Io \cup {"none", "sleep"},
                        timeout : BOOLEAN, call : Nat, gen : Nat,
                        by : {"none", "event", "cancel", "close"}]
             /\ Same(f) /\ op'[f].gen = op[f].gen
             /\ f \in woken => queued'[f] = queued[f] + 1 /\ op'[f].by = o
             /\ f \notin woken => queued'[f] = queued[f] /\ op'[f] = op[f]
  <2>1. op[f] \in [kind : Io \cup {"none", "sleep"},
                   timeout : BOOLEAN, call : Nat, gen : Nat,
                   by : {"none", "event", "cancel", "close"}]
    BY DEF CallTypes
  <2>2. CASE f \in woken
    <3>1. op'[f] = [op[f] EXCEPT !.by = o]
      BY <1>4, <2>2
    <3> QED BY <1>3, <2>1, <2>2, <3>1 DEF Same, IoTypes
  <2>3. CASE f \notin woken
    BY <1>3, <1>4, <2>1, <2>3 DEF Same, IoTypes
  <2> QED BY <2>2, <2>3
<1>8. op' \in [Fibers -> [kind : Io \cup {"none", "sleep"},
                        timeout : BOOLEAN, call : Nat, gen : Nat,
                        by : {"none", "event", "cancel", "close"}]]
  BY <1>4, <1>7
<1> QED BY <1>2, <1>5, <1>6, <1>7, <1>8

LEMMA TriggerKeeps ==
  ASSUME HookInv, NEW evs \in SUBSET Registered,
         NEW o \in {"event", "cancel", "close"}, Trigger(evs, o),
         sock' = sock, started' = started, cancelled' = cancelled, CallTypes',
         \A f \in Fibers :
           pc'[f] = pc[f] \/ (pc[f] = "idle" /\ pc'[f] = "del"),
         \A f \in Fibers : \A n \in Numbers(f) :
           \/ tm'[<<f, n>>] = tm[<<f, n>>]
           \/ Ended(f, n) /\ ~Asleep(f, n),
         o = "event" /\ "WRITE" \in evs => sock.conn \in {"up", "refused"}
  PROVE  IoTypes' /\ Places' /\ Timers' /\ Waiting' /\ Marks' /\ Connected'
<1> USE DEF HookInv, Types
<1>1. /\ IoTypes'
      /\ \A e \in Events :
           waiter'[e] = (IF e \in evs THEN Null ELSE waiter[e])
      /\ \A f \in Fibers : Same(f) /\ op'[f].gen = op[f].gen
      /\ \A f \in Fibers : \A e \in evs : waiter[e] = f
           => queued'[f] = queued[f] + 1 /\ op'[f].by = o
      /\ \A f \in Fibers : (\A e \in evs : waiter[e] # f)
           => queued'[f] = queued[f] /\ op'[f] = op[f]
  BY TriggerDoes DEF IoTypes
<1>2. evs \subseteq Events /\ \A e \in evs : waiter[e] \in Fibers
  BY DEF Registered, IoTypes
<1>3. \A f \in Fibers : \A e \in evs : waiter[e] = f =>
        /\ pc[f] = "held" /\ op[f].kind \in Io /\ EventOf(op[f].kind) = e
        /\ queued[f] = 0
  BY <1>2 DEF Waiting
<1>4. Places'
  BY <1>1 DEF Places, Same
<1>5. Marks'
  BY <1>1 DEF Marks, Same
<1>6. Timers'
  <2>1. ASSUME NEW f \in Fibers PROVE queued'[f] = queued[f] \/ Quiet(f)'
    <3>1. CASE \E e \in evs : waiter[e] = f
      <4>1. op[f].kind \in Io
        BY <1>3, <3>1
      <4>2. \A n \in Numbers(f) : ~Asleep(f, n)
        BY <4>1 DEF Timers, TimerOk, Io
      <4> QED BY <4>2 DEF Quiet, Asleep, Ended, OverTimer
    <3>2. CASE \A e \in evs : waiter[e] # f
      BY <1>1, <3>2
    <3> QED BY <3>1, <3>2
  <2>2. \A f \in Fibers : Same(f) /\ (queued'[f] = queued[f] \/ Quiet(f)')
    BY <1>1, <2>1
  <2> QED BY <2>2, TimersKept
<1>7. Waiting'
  <2>1. ASSUME NEW e \in Events, NEW f \in Fibers, waiter'[e] = f
        PROVE  /\ pc'[f] = "held" /\ op'[f].kind \in Io
               /\ EventOf(op'[f].kind) = e /\ queued'[f] = 0
    <3>1. e \notin evs /\ waiter[e] = f
      BY <1>1, <2>1, HookAssumption
    <3>2. /\ pc[f] = "held" /\ op[f].kind \in Io /\ EventOf(op[f].kind) = e
          /\ queued[f] = 0
      BY <3>1 DEF Waiting
    <3>3. \A d \in evs : waiter[d] # f
      BY <1>3, <3>1, <3>2
    <3> QED BY <1>1, <3>2, <3>3
  <2>2. ASSUME NEW f \in Fibers
        PROVE  /\ queued'[f] # 0 => queued'[f] = 1 /\ pc'[f] = "held"
               /\ pc'[f] = "held" =>
                  \/ queued'[f] = 1
                  \/ op'[f].kind \in Io /\ waiter'[EventOf(op'[f].kind)] = f
                  \/ /\ op'[f].kind = "sleep" /\ started'[f] \in Numbers(f)
                     /\ Asleep(f, started[f])'
    <3>1. CASE \E e \in evs : waiter[e] = f
      BY <1>1, <1>3, <3>1
    <3>2. CASE \A e \in evs : waiter[e] # f
      <4>1. queued'[f] = queued[f] /\ op'[f] = op[f]
        BY <1>1, <3>2
      <4>2. queued[f] # 0 => queued[f] = 1 /\ pc[f] = "held"
        BY DEF Waiting
      <4>3. ASSUME pc'[f] = "held", queued[f] # 1
            PROVE  \/ op[f].kind \in Io /\ waiter[EventOf(op[f].kind)] = f
                   \/ /\ op[f].kind = "sleep" /\ started[f] \in Numbers(f)
                      /\ Asleep(f, started[f])
        BY <4>3 DEF Waiting
      <4>4. op[f].kind \in Io /\ waiter[EventOf(op[f].kind)] = f
              => waiter'[EventOf(op[f].kind)] = f
        BY <1>1, <3>2 DEF EventOf, Events
      <4>5. started[f] \in Numbers(f) /\ Asleep(f, started[f])
              => Asleep(f, started[f])'
        BY DEF Asleep
      <4>6. pc'[f] = "held" <=> pc[f] = "held"
        OBVIOUS
      <4> QED BY <4>1, <4>2, <4>3, <4>4, <4>5, <4>6
    <3> QED BY <3>1, <3>2
  <2> QED BY <2>1, <2>2 DEF Waiting
<1>8. Connected'
  <2> SUFFICES ASSUME NEW f \in Fibers
               PROVE  /\ op'[f].gen <= sock'.gen
                      /\ op'[f].kind = "connect" /\ op'[f].by = "event"
                           /\ op'[f].gen = sock'.gen /\ sock'.open
                           => sock'.conn \in {"up", "refused"}
    BY DEF Connected
  <2>1. CASE \E e \in evs : waiter[e] = f
    <3>1. PICK e \in evs : waiter[e] = f
      BY <2>1
    <3>2. op'[f].by = o /\ EventOf(op[f].kind) = e /\ op'[f].kind = op[f].kind
          /\ op'[f].gen = op[f].gen
      BY <1>1, <1>3, <3>1 DEF Same
    <3>3. op[f].gen <= sock.gen
      BY DEF Connected
    <3> QED BY <3>2, <3>3 DEF EventOf
  <2>2. CASE \A e \in evs : waiter[e] # f
    BY <1>1, <2>2 DEF Connected
  <2> QED BY <2>1, <2>2
<1> QED BY <1>1, <1>4, <1>5, <1>6, <1>7, <1>8

LEMMA ReturnTimers ==
  ASSUME HookInv, CallTypes', NEW f \in Fibers, Return(f), Quiet(f)',
         started' = started, \A g \in Fibers \ {f} : queued'[g] = queued[g],
         \A g \in Fibers : \A n \in Numbers(g) :
           tm'[<<g, n>>] = tm[<<g, n>>] \/ Ended(g, n)
  PROVE  Timers'
<1>1. op'[f].kind = "none" /\ op'[f].call = op[f].call
  BY DEF HookInv, Types, CallTypes, Return, NoOp, NewOp
<1>2. \A g \in Fibers \ {f} : Same(g)
  BY DEF HookInv, Types, CallTypes, Return, Same
<1>3. \A g \in Fibers :
        \/ Same(g) /\ queued'[g] = queued[g]
        \/ op'[g].kind = "none" /\ op'[g].call = op[g].call /\ Quiet(g)'
  BY <1>1, <1>2
<1> QED BY <1>3, TimersKept DEF HookInv, Types

(* A step of a fiber that does not wait yet.                               *)
LEMMA WaitingKept ==
  ASSUME Waiting, NEW f \in Fibers, pc[f] # "held", waiter' = waiter,
         queued' = queued,
         \/ pc'[f] # "held"
         \/ /\ op'[f].kind = "sleep" /\ started'[f] \in Numbers(f)
            /\ Asleep(f, started[f])',
         \A g \in Fibers : g # f =>
           /\ pc'[g] = pc[g] /\ op'[g] = op[g] /\ started'[g] = started[g]
           /\ started[g] \in Numbers(g) /\ Asleep(g, started[g])
                => Asleep(g, started[g])'
  PROVE  Waiting'
<1>1. queued[f] = 0 /\ \A e \in Events : waiter[e] # f
  BY DEF Waiting
<1>2. \A e \in Events, g \in Fibers : waiter'[e] = g =>
        /\ pc'[g] = "held" /\ op'[g].kind \in Io /\ EventOf(op'[g].kind) = e
        /\ queued'[g] = 0
  BY <1>1 DEF Waiting
<1>3. ASSUME NEW g \in Fibers
      PROVE  /\ queued'[g] # 0 => queued'[g] = 1 /\ pc'[g] = "held"
             /\ pc'[g] = "held" =>
                  \/ queued'[g] = 1
                  \/ op'[g].kind \in Io /\ waiter'[EventOf(op'[g].kind)] = g
                  \/ /\ op'[g].kind = "sleep" /\ started'[g] \in Numbers(g)
                     /\ Asleep(g, started[g])'
  <2>1. CASE g = f
    BY <1>1, <2>1
  <2>2. CASE g # f
    <3>1. /\ queued[g] # 0 => queued[g] = 1 /\ pc[g] = "held"
          /\ pc[g] = "held" =>
               \/ queued[g] = 1
               \/ op[g].kind \in Io /\ waiter[EventOf(op[g].kind)] = g
               \/ /\ op[g].kind = "sleep" /\ started[g] \in Numbers(g)
                  /\ Asleep(g, started[g])
      BY DEF Waiting
    <3> QED BY <2>2, <3>1
  <2> QED BY <2>1, <2>2
<1> QED BY <1>2, <1>3 DEF Waiting

LEMMA InvDataArrives ==
  ASSUME HookInv, ~abort, DataArrives
  PROVE  HookInv'
<1> USE HookAssumption, IdsAre DEF HookInv, Types, Io, Events, EventOf,
         DataArrives, io, timer, hist, Goto
<1>1. IoTypes'
  BY DEF IoTypes
<1>2. CallTypes'
  BY DEF CallTypes
<1>3. TimerTypes'
  BY DEF TimerTypes
<1>4. Places'
  BY DEF Places, CallTypes
<1>5. Timers'
  <2>1. \A g \in Fibers : Same(g) /\ queued'[g] = queued[g]
    BY DEF Same
  <2> QED BY <1>2, <2>1, TimersKept
<1>6. Waiting'
  BY DEF Waiting, IoTypes, CallTypes, Asleep
<1>7. Marks'
  BY DEF Marks, CallTypes
<1>8. Lost'
  BY DEF Lost, Closing, IoTypes, CallTypes
<1>9. Connected'
  BY DEF Connected, CallTypes
<1> QED BY <1>1, <1>2, <1>3, <1>4, <1>5, <1>6, <1>7, <1>8, <1>9

LEMMA InvConnectEnds ==
  ASSUME HookInv, ~abort, ConnectEnds
  PROVE  HookInv'
<1> USE HookAssumption, IdsAre DEF HookInv, Types, Io, Events, EventOf,
         ConnectEnds, io, timer, hist, Goto
<1>1. IoTypes'
  BY DEF IoTypes
<1>2. CallTypes'
  BY DEF CallTypes
<1>3. TimerTypes'
  BY DEF TimerTypes
<1>4. Places'
  BY DEF Places, CallTypes
<1>5. Timers'
  <2>1. \A g \in Fibers : Same(g) /\ queued'[g] = queued[g]
    BY DEF Same
  <2> QED BY <1>2, <2>1, TimersKept
<1>6. Waiting'
  BY DEF Waiting, IoTypes, CallTypes, Asleep
<1>7. Marks'
  BY DEF Marks, CallTypes
<1>8. Lost'
  BY DEF Lost, Closing, IoTypes, CallTypes
<1>9. Connected'
  BY DEF Connected, CallTypes
<1> QED BY <1>1, <1>2, <1>3, <1>4, <1>5, <1>6, <1>7, <1>8, <1>9

LEMMA InvReopens ==
  ASSUME HookInv, ~abort, Reopens
  PROVE  HookInv'
<1> USE HookAssumption, IdsAre DEF HookInv, Types, Io, Events, EventOf,
         Reopens, NewSock, io, timer, hist, Goto
<1>1. IoTypes'
  BY DEF IoTypes
<1>2. CallTypes'
  BY DEF CallTypes
<1>3. TimerTypes'
  BY DEF TimerTypes
<1>4. Places'
  BY DEF Places, CallTypes
<1>5. Timers'
  <2>1. \A g \in Fibers : Same(g) /\ queued'[g] = queued[g]
    BY DEF Same
  <2> QED BY <1>2, <2>1, TimersKept
<1>6. Waiting'
  BY DEF Waiting, IoTypes, CallTypes, Asleep
<1>7. Marks'
  BY DEF Marks, CallTypes
<1>8. Lost'
  BY DEF Lost, Closing, IoTypes, CallTypes
<1>9. Connected'
  BY DEF Connected, IoTypes, CallTypes
<1> QED BY <1>1, <1>2, <1>3, <1>4, <1>5, <1>6, <1>7, <1>8, <1>9

LEMMA InvEventFires ==
  ASSUME HookInv, ~abort, NEW e \in Events, EventFires(e)
  PROVE  HookInv'
<1> USE DEF HookInv, Types, EventFires, timer, hist
<1>1. /\ {e} \in SUBSET Registered /\ Trigger({e}, "event")
      /\ "WRITE" \in {e} => sock.conn \in {"up", "refused"}
  BY DEF Registered, Ready
<1>2. CallTypes'
  BY <1>1, TriggerDoes DEF CallTypes
<1>3. IoTypes' /\ Places' /\ Timers' /\ Waiting' /\ Marks' /\ Connected'
  BY <1>1, <1>2, TriggerKeeps
<1>4. TimerTypes'
  BY DEF TimerTypes
<1>5. Lost'
  <2>1. interest' = interest \ {e}
    BY <1>1 DEF Trigger
  <2>2. /\ \A d \in Events : waiter'[d] = (IF d = e THEN Null ELSE waiter[d])
        /\ \A f \in Fibers : Same(f) /\ op'[f].gen = op[f].gen
    BY <1>1, TriggerDoes
  <2> QED BY <2>1, <2>2 DEF Lost, Closing, Same, IoTypes
<1> QED BY <1>2, <1>3, <1>4, <1>5

LEMMA InvIoBegins ==
  ASSUME HookInv, ~abort, NEW f \in Fibers, NEW k \in Io, NEW to \in BOOLEAN,
         IoBegins(f, k, to)
  PROVE  HookInv'
<1> USE HookAssumption, IdsAre DEF HookInv, Types, Io, Events, EventOf,
         IoBegins, Begins, NewOp, io, timer, hist, Goto
<1>1. IoTypes'
  BY DEF IoTypes
<1>2. CallTypes'
  BY DEF CallTypes, IoTypes
<1>3. TimerTypes'
  BY DEF TimerTypes
<1>4. Places'
  BY DEF Places, CallTypes
<1>5. Timers'
  <2>1. /\ op[f].kind = "none" /\ op'[f].call = op[f].call + 1
        /\ \A g \in Fibers \ {f} : op'[g] = op[g]
    BY DEF CallTypes, Places
  <2>2. \A g \in Fibers : \/ Same(g) /\ queued'[g] = queued[g]
                          \/ op[g].kind = "none" /\ op'[g].call = op[g].call + 1
    BY <2>1 DEF Same
  <2> QED BY <1>2, <2>2, TimersKept
<1>6. Waiting'
  BY DEF Waiting, IoTypes, CallTypes, Asleep
<1>7. Marks'
  BY DEF Marks, CallTypes, Places
<1>8. Lost'
  BY DEF Lost, Closing, IoTypes, CallTypes
<1>9. Connected'
  BY DEF Connected, IoTypes, CallTypes
<1> QED BY <1>1, <1>2, <1>3, <1>4, <1>5, <1>6, <1>7, <1>8, <1>9

LEMMA InvIoAnswers ==
  ASSUME HookInv, ~abort, NEW f \in Fibers, IoAnswers(f)
  PROVE  HookInv'
<1> USE HookAssumption, IdsAre DEF HookInv, Types, Io, Events, EventOf,
         IoAnswers, Return, NoOp, NewOp, io, timer, hist, Goto
<1>1. IoTypes'
  BY DEF IoTypes
<1>2. CallTypes'
  BY DEF CallTypes
<1>3. TimerTypes'
  BY DEF TimerTypes
<1>4. Places'
  BY DEF Places, CallTypes
<1>5. Timers'
  <2>1. Quiet(f)'
    BY DEF Quiet, Timers, TimerOk, Asleep, Places
  <2> QED BY <1>2, <2>1, ReturnTimers
<1>6. Waiting'
  BY DEF Waiting, IoTypes, CallTypes, Asleep
<1>7. Marks'
  BY DEF Marks, CallTypes
<1>8. Lost'
  BY DEF Lost, Closing, IoTypes, CallTypes, Waiting, Places
<1>9. Connected'
  BY DEF Connected, IoTypes, CallTypes
<1> QED BY <1>1, <1>2, <1>3, <1>4, <1>5, <1>6, <1>7, <1>8, <1>9

LEMMA InvIoAgain ==
  ASSUME HookInv, ~abort, NEW f \in Fibers, IoAgain(f)
  PROVE  HookInv'
<1> USE HookAssumption, IdsAre DEF HookInv, Types, Io, Events, EventOf,
         IoAgain, io, timer, hist, Goto
<1>1. IoTypes'
  BY DEF IoTypes
<1>2. CallTypes'
  BY DEF CallTypes
<1>3. TimerTypes'
  BY DEF TimerTypes
<1>4. Places'
  BY DEF Places, CallTypes
<1>5. Timers'
  <2>1. \A g \in Fibers : Same(g) /\ queued'[g] = queued[g]
    BY DEF Same
  <2> QED BY <1>2, <2>1, TimersKept
<1>6. Waiting'
  BY DEF Waiting, IoTypes, CallTypes, Asleep
<1>7. Marks'
  BY DEF Marks, CallTypes
<1>8. Lost'
  BY DEF Lost, Closing, IoTypes, CallTypes
<1>9. Connected'
  BY DEF Connected, CallTypes
<1> QED BY <1>1, <1>2, <1>3, <1>4, <1>5, <1>6, <1>7, <1>8, <1>9

LEMMA InvConnectStarts ==
  ASSUME HookInv, ~abort, NEW f \in Fibers, ConnectStarts(f)
  PROVE  HookInv'
<1> USE HookAssumption, IdsAre DEF HookInv, Types, Io, Events, EventOf,
         ConnectStarts, io, timer, hist, Goto
<1>1. IoTypes'
  BY DEF IoTypes
<1>2. CallTypes'
  BY DEF CallTypes
<1>3. TimerTypes'
  BY DEF TimerTypes
<1>4. Places'
  BY DEF Places, CallTypes
<1>5. Timers'
  <2>1. \A g \in Fibers : Same(g) /\ queued'[g] = queued[g]
    BY DEF Same
  <2> QED BY <1>2, <2>1, TimersKept
<1>6. Waiting'
  BY DEF Waiting, IoTypes, CallTypes, Asleep
<1>7. Marks'
  BY DEF Marks, CallTypes
<1>8. Lost'
  BY DEF Lost, Closing, IoTypes, CallTypes
<1>9. Connected'
  BY DEF Connected, CallTypes
<1> QED BY <1>1, <1>2, <1>3, <1>4, <1>5, <1>6, <1>7, <1>8, <1>9

LEMMA InvConnectAnswers ==
  ASSUME HookInv, ~abort, NEW f \in Fibers, ConnectAnswers(f)
  PROVE  HookInv'
<1> USE HookAssumption, IdsAre DEF HookInv, Types, Io, Events, EventOf,
         ConnectAnswers, Return, NoOp, NewOp, io, timer, hist, Goto
<1>1. IoTypes'
  BY DEF IoTypes
<1>2. CallTypes'
  BY DEF CallTypes
<1>3. TimerTypes'
  BY DEF TimerTypes
<1>4. Places'
  BY DEF Places, CallTypes
<1>5. Timers'
  <2>1. Quiet(f)'
    BY DEF Quiet, Timers, TimerOk, Asleep, Places
  <2> QED BY <1>2, <2>1, ReturnTimers
<1>6. Waiting'
  BY DEF Waiting, IoTypes, CallTypes, Asleep
<1>7. Marks'
  BY DEF Marks, CallTypes
<1>8. Lost'
  <2>1. sock'.open = sock.open /\ sock'.gen = sock.gen
    BY DEF IoTypes
  <2> QED BY <2>1 DEF Lost, Closing, IoTypes, CallTypes, Waiting, Places
<1>9. Connected'
  BY DEF Connected, IoTypes, CallTypes
<1> QED BY <1>1, <1>2, <1>3, <1>4, <1>5, <1>6, <1>7, <1>8, <1>9

LEMMA InvArms ==
  ASSUME HookInv, ~abort, NEW f \in Fibers, Arms(f)
  PROVE  HookInv'
<1> USE HookAssumption DEF HookInv, Types, io, hist, Goto
<1>1. /\ pc[f] = "arm" /\ pc' = [pc EXCEPT ![f] = "add"] /\ op' = op
      /\ UNCHANGED <<sock, waiter, interest, queued, cancelled, missed, late,
                     abort>>
  BY DEF Arms
<1>2. op[f].kind \in Io
  BY <1>1 DEF Places, CallTypes
<1>3. IoTypes' /\ Marks' /\ Connected'
  BY <1>1 DEF IoTypes, Marks, Connected
<1>4. Lost'
  BY <1>1 DEF Lost, Closing, CallTypes
<1>5. CASE ~op[f].timeout
  <2>1. tm' = tm /\ started' = started
    BY <1>5 DEF Arms
  <2>2. CallTypes' /\ TimerTypes'
    BY <1>1, <2>1 DEF CallTypes, TimerTypes
  <2>3. Places'
    BY <1>1, <1>5, <2>1 DEF Places, CallTypes
  <2>4. Timers'
    BY <1>1, <2>1, <2>2, TimersKept DEF Same
  <2>5. Waiting'
    BY <1>1, <2>1 DEF Waiting, CallTypes, Asleep
  <2> QED BY <1>3, <1>4, <2>2, <2>3, <2>4, <2>5
<1>6. CASE op[f].timeout = TRUE
  <2>1. Starts(f, op[f].kind)
    BY <1>6 DEF Arms
  <2>2. op'[f].call \in Nat /\ op'[f].call = op[f].call
    BY <1>1 DEF CallTypes
  <2>3. /\ TimerTypes' /\ started' \in [Fibers -> Nat]
        /\ started'[f] \in Numbers(f) /\ started'[f] = started[f] + 1
        /\ \A g \in Fibers : g # f => started'[g] = started[g]
        /\ tm'[<<f, started'[f]>>] =
             [st |-> "armed", kind |-> op[f].kind, call |-> op'[f].call]
        /\ \A g \in Fibers : \A n \in Numbers(g) :
             g # f \/ n # started'[f] => tm'[<<g, n>>] = tm[<<g, n>>]
    BY <1>2, <2>1, <2>2, StartsDoes
  <2>4. CallTypes'
    BY <1>1, <2>3 DEF CallTypes
  <2>5. Places'
    BY <1>1, <2>3 DEF Places, CallTypes
  <2>6. Timers'
    <3> SUFFICES ASSUME NEW g \in Fibers, NEW n \in Numbers(g)
                 PROVE  TimerOk(g, n)'
      BY DEF Timers
    <3>1. TimerOk(g, n) /\ n \in Nat
      BY DEF Timers, Numbers
    <3>2. CASE g = f /\ n = started'[f]
      BY <1>1, <1>2, <1>6, <2>2, <2>3, <3>2 DEF TimerOk, Asleep, Timing, Io
    <3>3. CASE g # f
      BY <1>1, <2>3, <3>1, <3>3 DEF TimerOk, Asleep, Timing
    <3>4. CASE g = f /\ n # started'[f]
      <4>1. n > started'[f] => n > started[f]
        BY <2>3, <3>1 DEF CallTypes
      <4>2. ~Asleep(f, n)
        BY <1>2, <3>1, <3>4 DEF TimerOk, Io
      <4> QED BY <1>1, <2>3, <3>1, <3>4, <4>1, <4>2 DEF TimerOk, Asleep, Timing
    <3> QED BY <3>2, <3>3, <3>4
  <2>7. Waiting'
    <3>1. ASSUME NEW g \in Fibers, g # f
          PROVE  /\ pc'[g] = pc[g] /\ started'[g] = started[g]
                 /\ started[g] \in Numbers(g) /\ Asleep(g, started[g])
                      => Asleep(g, started[g])'
      <4>1. pc'[g] = pc[g] /\ started'[g] = started[g]
        BY <1>1, <2>3, <3>1 DEF CallTypes
      <4>2. started[g] \in Numbers(g)
              => tm'[<<g, started[g]>>] = tm[<<g, started[g]>>]
        BY <2>3, <3>1
      <4> QED BY <4>1, <4>2 DEF Asleep
    <3>2. pc[f] # "held" /\ pc'[f] # "held"
      BY <1>1 DEF CallTypes
    <3> QED BY <1>1, <3>1, <3>2, WaitingKept
  <2> QED BY <1>3, <1>4, <2>3, <2>4, <2>5, <2>6, <2>7
<1> QED BY <1>5, <1>6 DEF CallTypes

LEMMA InvRegisters ==
  ASSUME HookInv, ~abort, NEW f \in Fibers, Registers(f)
  PROVE  HookInv'
<1> USE HookAssumption DEF HookInv, Types, io, timer, Goto
<1> DEFINE e == EventOf(op[f].kind)
<1>1. /\ pc[f] = "add" /\ e \in Events /\ op[f].kind \in Io
      /\ late' = IF Closing \/ op[f].gen # sock.gen THEN late \cup {f} ELSE late
      /\ UNCHANGED <<sock, queued, tm, started, cancelled, op, missed>>
  BY DEF Registers, Places, CallTypes, EventOf, Events
<1>2. CASE waiter[e] # Null
  <2>1. abort' = TRUE /\ UNCHANGED <<waiter, interest, pc>>
    BY <1>2 DEF Registers
  <2>2. IoTypes' /\ CallTypes' /\ TimerTypes' /\ Places' /\ Marks' /\ Connected'
    BY <1>1, <2>1 DEF IoTypes, CallTypes, TimerTypes, Places, Marks, Connected
  <2>3. Timers'
    BY <1>1, <2>2, TimersKept DEF Same
  <2>4. Waiting'
    BY <1>1, <2>1 DEF Waiting, Asleep
  <2>5. late' # {}
    <3>1. PICK g \in Fibers : waiter[e] = g
      BY <1>1, <1>2 DEF IoTypes
    <3>2. pc[g] = "held" /\ op[g].kind \in Io /\ EventOf(op[g].kind) = e
      BY <1>1, <3>1 DEF Waiting
    <3>3. g # f /\ op[g].kind = op[f].kind
      BY <1>1, <3>2 DEF EventOf, Io
    <3>4. op[f].gen # op[g].gen
      BY <1>1, <3>3 DEF Lost
    <3>5. CASE g \in late
      BY <1>1, <3>5
    <3>6. CASE g \notin late
      <4>1. op[g].gen = sock.gen
        BY <1>1, <1>2, <3>1, <3>6 DEF Lost
      <4> QED BY <1>1, <3>4, <4>1
    <3> QED BY <3>5, <3>6
  <2>6. Lost'
    BY <1>1, <2>1, <2>5 DEF Lost, Closing
  <2> QED BY <2>2, <2>3, <2>4, <2>6
<1>3. CASE waiter[e] = Null
  <2>1. /\ sock.open /\ waiter' = [waiter EXCEPT ![e] = f]
        /\ interest' = interest \cup {e} /\ pc' = [pc EXCEPT ![f] = "held"]
        /\ abort' = abort
    BY <1>3 DEF Registers, CtlFails
  <2>2. IoTypes' /\ CallTypes' /\ TimerTypes' /\ Marks' /\ Connected'
    BY <1>1, <2>1 DEF IoTypes, CallTypes, TimerTypes, Marks, Connected
  <2>3. Places'
    BY <1>1, <2>1 DEF Places, CallTypes
  <2>4. Timers'
    BY <1>1, <2>2, TimersKept DEF Same
  <2>5. queued[f] = 0 /\ \A d \in Events : waiter[d] # f
    BY <1>1 DEF Waiting
  <2>6. /\ waiter'[e] = f /\ pc'[f] = "held"
        /\ \A d \in Events : d # e => waiter'[d] = waiter[d]
        /\ \A g \in Fibers : g # f => pc'[g] = pc[g]
    BY <1>1, <2>1 DEF IoTypes, CallTypes
  <2>7. Waiting'
    <3>1. ASSUME NEW d \in Events, NEW g \in Fibers, waiter'[d] = g
          PROVE  /\ pc'[g] = "held" /\ op'[g].kind \in Io
                 /\ EventOf(op'[g].kind) = d /\ queued'[g] = 0
      <4>1. CASE d = e
        BY <1>1, <2>5, <2>6, <3>1, <4>1
      <4>2. CASE d # e
        BY <1>1, <2>5, <2>6, <3>1, <4>2 DEF Waiting
      <4> QED BY <4>1, <4>2
    <3>2. ASSUME NEW g \in Fibers
          PROVE  /\ queued'[g] # 0 => queued'[g] = 1 /\ pc'[g] = "held"
                 /\ pc'[g] = "held" =>
                    \/ queued'[g] = 1
                    \/ op'[g].kind \in Io /\ waiter'[EventOf(op'[g].kind)] = g
                    \/ /\ op'[g].kind = "sleep" /\ started'[g] \in Numbers(g)
                       /\ Asleep(g, started[g])'
      <4>1. CASE g = f
        BY <1>1, <2>5, <2>6, <4>1
      <4>2. CASE g # f
        <5>1. op[g].kind \in Io /\ waiter[EventOf(op[g].kind)] = g
                => waiter'[EventOf(op[g].kind)] = g
          BY <1>1, <1>3, <2>6 DEF EventOf, Events
        <5>2. /\ queued[g] # 0 => queued[g] = 1 /\ pc[g] = "held"
              /\ pc[g] = "held" =>
                    \/ queued[g] = 1
                    \/ op[g].kind \in Io /\ waiter[EventOf(op[g].kind)] = g
                    \/ /\ op[g].kind = "sleep" /\ started[g] \in Numbers(g)
                       /\ Asleep(g, started[g])
          BY DEF Waiting
        <5> QED BY <1>1, <2>6, <4>2, <5>1, <5>2 DEF Asleep
      <4> QED BY <4>1, <4>2
    <3> QED BY <3>1, <3>2 DEF Waiting
  <2>8. Lost'
    <3>1. Closing' <=> Closing
      BY <1>1, <2>6 DEF Closing
    <3>2. ASSUME NEW d \in Events, waiter'[d] # Null, waiter'[d] \notin late'
          PROVE  /\ d \in interest' /\ sock'.open /\ ~Closing'
                 /\ op'[waiter'[d]].gen = sock'.gen
      <4>1. CASE d = e
        <5>1. f \notin late'
          BY <2>6, <3>2, <4>1
        <5>2. ~Closing /\ op[f].gen = sock.gen
          BY <1>1, <5>1
        <5> QED BY <1>1, <2>1, <2>6, <3>1, <4>1, <5>2
      <4>2. CASE d # e
        <5>1. waiter'[d] = waiter[d] /\ waiter[d] \notin late
          BY <1>1, <2>6, <3>2, <4>2
        <5> QED BY <1>1, <2>1, <3>1, <3>2, <5>1 DEF Lost
      <4> QED BY <4>1, <4>2
    <3> QED BY <1>1, <2>1, <3>2 DEF Lost
  <2> QED BY <2>2, <2>3, <2>4, <2>7, <2>8
<1> QED BY <1>2, <1>3

LEMMA InvAddFails ==
  ASSUME HookInv, ~abort, NEW f \in Fibers, AddFails(f)
  PROVE  HookInv'
<1> USE DEF HookInv, Types, io, Goto
<1>1. /\ pc[f] = "add" /\ StopTimer(f)
      /\ UNCHANGED <<sock, waiter, interest, queued, started, abort>>
  BY DEF AddFails
<1>2. /\ TimerTypes'
      /\ \A g \in Fibers : \A n \in Numbers(g) :
           \/ tm'[<<g, n>>] = tm[<<g, n>>]
           \/ Ended(g, n) /\ ~Asleep(g, n)
  BY <1>1, StopTimerDoes
<1>3. \A g \in Fibers : started[g] \in Numbers(g) /\ Asleep(g, started[g])
        => Asleep(g, started[g])'
  BY <1>1, <1>2 DEF Asleep
<1>4. IoTypes' /\ op[f].kind \in Io
  BY <1>1 DEF IoTypes, Places, CallTypes
<1>5. CASE op[f].kind = "connect"
  <2>1. /\ pc' = [pc EXCEPT ![f] = "sockopt"]
        /\ UNCHANGED <<op, cancelled, missed, late>>
    BY <1>5 DEF AddFails, Stays
  <2>2. CallTypes' /\ Marks' /\ Connected'
    BY <1>1, <2>1 DEF CallTypes, Marks, Connected
  <2>3. Places'
    BY <1>1, <1>5, <2>1 DEF Places, CallTypes
  <2>4. Timers'
    BY <1>1, <1>2, <2>1, <2>2, TimersKept DEF Same
  <2>5. Waiting'
    BY <1>1, <1>3, <2>1, WaitingKept DEF CallTypes
  <2>6. Lost'
    BY <1>1, <2>1 DEF Lost, Closing, CallTypes
  <2> QED BY <1>2, <1>4, <2>2, <2>3, <2>4, <2>5, <2>6
<1>6. CASE op[f].kind # "connect"
  <2>1. Return(f)
    BY <1>6 DEF AddFails
  <2>2. /\ pc' = [pc EXCEPT ![f] = "idle"]
        /\ op'[f] = NoOp(op[f].call) /\ \A g \in Fibers : g # f => op'[g] = op[g]
        /\ late' = late \ {f} /\ cancelled' = [cancelled EXCEPT ![f] = FALSE]
    BY <2>1 DEF Return, CallTypes
  <2>3. CallTypes'
    BY <1>1, <2>1 DEF CallTypes, Return, NoOp, NewOp
  <2>4. Places' /\ Marks' /\ Connected'
    BY <1>1, <2>2 DEF Places, Marks, Connected, CallTypes, IoTypes, NoOp, NewOp, Io
  <2>5. Quiet(f)'
    BY <1>2, <1>4 DEF Quiet, Timers, TimerOk, Asleep, Ended, OverTimer, Io
  <2>6. Timers'
    BY <1>1, <1>2, <2>1, <2>3, <2>5, ReturnTimers
  <2>7. Waiting'
    BY <1>1, <1>3, <2>2, WaitingKept DEF CallTypes
  <2>8. Lost'
    <3>1. \A e \in Events : waiter[e] # f
      BY <1>1 DEF Waiting
    <3> QED BY <1>1, <2>2, <3>1 DEF Lost, Closing, CallTypes, IoTypes, NoOp, NewOp, Io
  <2> QED BY <1>2, <1>4, <2>3, <2>4, <2>6, <2>7, <2>8
<1> QED BY <1>5, <1>6

LEMMA InvSleepBegins ==
  ASSUME HookInv, ~abort, NEW f \in Fibers, SleepBegins(f)
  PROVE  HookInv'
<1> USE HookAssumption DEF HookInv, Types, io, Goto
<1>1. /\ pc[f] = "idle" /\ pc' = [pc EXCEPT ![f] = "held"]
      /\ op' = [op EXCEPT ![f] = NewOp("sleep", FALSE, op[f].call + 1, sock.gen)]
      /\ Starts(f, "sleep")
      /\ UNCHANGED <<sock, waiter, interest, queued, cancelled, missed, late,
                     abort>>
  BY DEF SleepBegins, Begins
<1>2. /\ op'[f].kind = "sleep" /\ op'[f].timeout = FALSE
      /\ op'[f].call = op[f].call + 1 /\ op'[f].call \in Nat
      /\ op'[f].gen = sock.gen /\ op'[f].by = "none"
      /\ op[f].kind = "none" /\ op[f].call \in Nat
      /\ \A g \in Fibers : g # f => op'[g] = op[g]
  BY <1>1 DEF CallTypes, NewOp, Places
<1>3. /\ TimerTypes' /\ started' \in [Fibers -> Nat]
      /\ started'[f] \in Numbers(f) /\ started'[f] = started[f] + 1
      /\ \A g \in Fibers : g # f => started'[g] = started[g]
      /\ tm'[<<f, started'[f]>>] =
           [st |-> "armed", kind |-> "sleep", call |-> op'[f].call]
      /\ \A g \in Fibers : \A n \in Numbers(g) :
           g # f \/ n # started'[f] => tm'[<<g, n>>] = tm[<<g, n>>]
  BY <1>1, <1>2, StartsDoes
<1> HIDE DEF io, Goto
<1>4. IoTypes'
  BY <1>1 DEF IoTypes
<1>5. CallTypes'
  <2>1. op' \in [Fibers -> [kind : Io \cup {"none", "sleep"},
                 timeout : BOOLEAN, call : Nat, gen : Nat,
                 by : {"none", "event", "cancel", "close"}]]
    BY <1>1, <1>2 DEF CallTypes, IoTypes, NewOp
  <2> QED BY <1>1, <1>3, <2>1 DEF CallTypes
<1>6. /\ queued[f] = 0 /\ \A d \in Events : waiter[d] # f
      /\ pc'[f] = "held" /\ \A g \in Fibers : g # f => pc'[g] = pc[g]
  BY <1>1 DEF Waiting, CallTypes
<1>7. Places'
  BY <1>2, <1>3, <1>6 DEF Places, Io
<1>8. Timers'
  <2> SUFFICES ASSUME NEW g \in Fibers, NEW n \in Numbers(g)
               PROVE  TimerOk(g, n)'
    BY DEF Timers
  <2>1. TimerOk(g, n) /\ n \in Nat /\ tm[<<g, n>>].call \in Nat
    BY IdsAre DEF Timers, Numbers, TimerTypes
  <2>2. CASE g = f /\ n = started'[f]
    <3>1. queued'[f] = 0 /\ ~(n > started'[f]) /\ n = started'[f]
      BY <1>1, <1>3, <1>6, <2>1, <2>2
    <3>2. /\ tm'[<<g, n>>].kind = "sleep" /\ tm'[<<g, n>>].st = "armed"
          /\ tm'[<<g, n>>].call <= op'[g].call
      BY <1>2, <1>3, <2>2
    <3> QED BY <1>2, <2>2, <3>1, <3>2 DEF TimerOk, Timing, Io
  <2>3. CASE g # f
    BY <1>1, <1>2, <1>3, <2>1, <2>3 DEF TimerOk, Asleep, Timing
  <2>4. CASE g = f /\ n # started'[f]
    <3>1. n > started'[f] => n > started[f]
      BY <1>3, <2>1 DEF CallTypes
    <3>2. ~Asleep(f, n) /\ tm[<<f, n>>].call <= op[f].call
      BY <1>2, <2>1, <2>4 DEF TimerOk
    <3>3. tm[<<f, n>>].call # op'[f].call /\ tm[<<f, n>>].call <= op'[f].call
      BY <1>2, <2>1, <2>4, <3>2
    <3> QED BY <1>3, <2>1, <2>4, <3>1, <3>2, <3>3 DEF TimerOk, Asleep, Timing
  <2> QED BY <2>2, <2>3, <2>4
<1>9. Waiting'
  <2>1. \A g \in Fibers : g # f =>
          (started[g] \in Numbers(g) /\ Asleep(g, started[g])
             => Asleep(g, started[g])')
    BY <1>3 DEF Asleep
  <2>2. Asleep(f, started[f])'
    BY <1>3 DEF Asleep
  <2> QED BY <1>1, <1>2, <1>3, <1>6, <2>1, <2>2, WaitingKept, ZenonT(30)
<1>10. Marks'
  BY <1>1, <1>2 DEF Marks, Places, Io
<1>11. Lost'
  <2>1. Closing' <=> Closing
    BY <1>1, <1>6 DEF Closing
  <2>2. \A d \in Events : waiter[d] # Null => op'[waiter[d]] = op[waiter[d]]
    BY <1>2, <1>6 DEF IoTypes
  <2>3. \A g \in Fibers : op'[g].kind \in Io => g # f
    BY <1>2 DEF Io
  <2>4. \A d \in Events : waiter'[d] # Null /\ waiter'[d] \notin late' =>
          /\ d \in interest' /\ sock'.open /\ ~Closing'
          /\ op'[waiter'[d]].gen = sock'.gen
    BY <1>1, <2>1, <2>2, ZenonT(30) DEF Lost
  <2>5. \A g, h \in Fibers :
          g # h /\ op'[g].kind = op'[h].kind /\ op'[g].kind \in Io
            => op'[g].gen # op'[h].gen
    BY <1>2, <2>3 DEF Lost
  <2> QED BY <1>1, <2>4, <2>5 DEF Lost
<1>12. Connected'
  <2>1. sock.gen <= sock.gen
    BY DEF IoTypes
  <2> QED BY <1>1, <1>2, <2>1, ZenonT(30) DEF Connected
<1> QED BY <1>3, <1>4, <1>5, <1>7, <1>8, <1>9, <1>10, <1>11, <1>12

LEMMA InvResumes ==
  ASSUME HookInv, ~abort, NEW f \in Fibers, Resumes(f)
  PROVE  HookInv'
<1> USE DEF HookInv, Types, Goto
<1>1. /\ pc[f] = "held" /\ queued[f] > 0
      /\ queued' = [queued EXCEPT ![f] = @ - 1]
      /\ UNCHANGED <<sock, waiter, interest, started, abort>>
  BY DEF Resumes, Takes
<1>2. /\ TimerTypes'
      /\ \A g \in Fibers : \A n \in Numbers(g) :
           \/ tm'[<<g, n>>] = tm[<<g, n>>]
           \/ Ended(g, n) /\ ~Asleep(g, n)
  <2>1. CASE tm' = tm
    BY <2>1 DEF TimerTypes
  <2>2. CASE StopTimer(f)
    BY <1>1, <2>2, StopTimerDoes
  <2> QED BY <2>1, <2>2 DEF Resumes
<1>3. /\ queued[f] = 1 /\ queued'[f] = 0
      /\ \A g \in Fibers : g # f => queued'[g] = queued[g]
      /\ \A e \in Events : waiter[e] # f
  BY <1>1 DEF Waiting, IoTypes
<1>4. Quiet(f)'
  <2>1. ASSUME NEW n \in Numbers(f) PROVE ~Asleep(f, n)
    <3>1. TimerOk(f, n)
      BY DEF Timers
    <3> QED BY <1>3, <3>1 DEF TimerOk
  <2> QED BY <1>2, <2>1 DEF Quiet, Asleep, Ended, OverTimer
<1>5. \A g \in Fibers : started[g] \in Numbers(g) /\ Asleep(g, started[g])
        => Asleep(g, started[g])'
  BY <1>1, <1>2 DEF Asleep
<1>6. IoTypes'
  BY <1>1, <1>3 DEF IoTypes
<1>7. ASSUME pc'[f] # "held",
             \A g \in Fibers : g # f => pc'[g] = pc[g] /\ op'[g] = op[g]
      PROVE  Waiting'
  <2>1. \A e \in Events, g \in Fibers : waiter'[e] = g =>
          /\ pc'[g] = "held" /\ op'[g].kind \in Io /\ EventOf(op'[g].kind) = e
          /\ queued'[g] = 0
    BY <1>1, <1>3, <1>7 DEF Waiting
  <2>2. ASSUME NEW g \in Fibers
        PROVE  /\ queued'[g] # 0 => queued'[g] = 1 /\ pc'[g] = "held"
               /\ pc'[g] = "held" =>
                    \/ queued'[g] = 1
                    \/ op'[g].kind \in Io /\ waiter'[EventOf(op'[g].kind)] = g
                    \/ /\ op'[g].kind = "sleep" /\ started'[g] \in Numbers(g)
                       /\ Asleep(g, started[g])'
    <3>1. CASE g = f
      BY <1>3, <1>7, <3>1
    <3>2. CASE g # f
      <4>1. /\ queued[g] # 0 => queued[g] = 1 /\ pc[g] = "held"
            /\ pc[g] = "held" =>
                 \/ queued[g] = 1
                 \/ op[g].kind \in Io /\ waiter[EventOf(op[g].kind)] = g
                 \/ /\ op[g].kind = "sleep" /\ started[g] \in Numbers(g)
                    /\ Asleep(g, started[g])
        BY DEF Waiting
      <4> QED BY <1>1, <1>3, <1>5, <1>7, <3>2, <4>1
    <3> QED BY <3>1, <3>2
  <2> QED BY <2>1, <2>2 DEF Waiting
<1>8. CASE op[f].kind = "sleep" \/ cancelled[f]
  <2>1. Return(f)
    BY <1>8 DEF Resumes
  <2>2. /\ pc' = [pc EXCEPT ![f] = "idle"]
        /\ op'[f] = NoOp(op[f].call) /\ \A g \in Fibers : g # f => op'[g] = op[g]
        /\ late' = late \ {f} /\ cancelled' = [cancelled EXCEPT ![f] = FALSE]
    BY <2>1 DEF Return, CallTypes
  <2>3. CallTypes'
    BY <1>1, <2>1 DEF CallTypes, Return, NoOp, NewOp
  <2>4. Places' /\ Marks' /\ Connected'
    BY <1>1, <2>2 DEF Places, Marks, Connected, CallTypes, IoTypes, NoOp, NewOp, Io
  <2>5. Timers'
    BY <1>1, <1>2, <1>3, <1>4, <2>1, <2>3, ReturnTimers
  <2>6. Waiting'
    BY <1>7, <2>2 DEF CallTypes
  <2>7. Lost'
    BY <1>1, <1>3, <2>2, SMTT(30)
    DEF Lost, Closing, CallTypes, IoTypes, NoOp, NewOp, Io
  <2> QED BY <1>2, <1>6, <2>3, <2>4, <2>5, <2>6, <2>7
<1>9. CASE ~(op[f].kind = "sleep" \/ cancelled[f])
  <2>1. /\ pc' = [pc EXCEPT ![f] =
                    IF op[f].kind = "read" THEN "fun" ELSE "sockopt"]
        /\ UNCHANGED <<op, cancelled, missed, late>>
    BY <1>9 DEF Resumes, Stays
  <2>2. op[f].kind \in Io
    BY <1>1, <1>9 DEF Places, CallTypes
  <2>3. CallTypes' /\ Marks' /\ Connected'
    BY <1>1, <2>1 DEF CallTypes, Marks, Connected
  <2>4. Places'
    BY <1>1, <2>1, <2>2 DEF Places, CallTypes, Io
  <2>5. Timers'
    <3>1. \A g \in Fibers : Same(g) /\ (queued'[g] = queued[g] \/ Quiet(g)')
      BY <1>3, <1>4, <2>1 DEF Same
    <3> QED BY <1>1, <1>2, <2>3, <3>1, TimersKept
  <2>6. Waiting'
    BY <1>7, <2>1 DEF CallTypes
  <2>7. Lost'
    BY <1>1, <1>3, <2>1 DEF Lost, Closing, CallTypes
  <2> QED BY <1>2, <1>6, <2>3, <2>4, <2>5, <2>6, <2>7
<1> QED BY <1>8, <1>9

LEMMA InvSoError ==
  ASSUME HookInv, ~abort, NEW f \in Fibers, SoError(f)
  PROVE  HookInv'
<1> USE HookAssumption, IdsAre DEF HookInv, Types, Io, Events, EventOf,
         SoError, Return, NoOp, NewOp, io, timer, hist, Goto
<1>1. IoTypes'
  BY DEF IoTypes
<1>2. CallTypes'
  BY DEF CallTypes
<1>3. TimerTypes'
  BY DEF TimerTypes
<1>4. Places'
  BY DEF Places, CallTypes
<1>5. Timers'
  <2>1. Quiet(f)'
    BY DEF Quiet, Timers, TimerOk, Asleep, Places
  <2> QED BY <1>2, <2>1, ReturnTimers
<1>6. Waiting'
  BY DEF Waiting, IoTypes, CallTypes, Asleep
<1>7. Marks'
  BY DEF Marks, CallTypes
<1>8. Lost'
  BY DEF Lost, Closing, IoTypes, CallTypes, Waiting, Places
<1>9. Connected'
  BY DEF Connected, IoTypes, CallTypes
<1> QED BY <1>1, <1>2, <1>3, <1>4, <1>5, <1>6, <1>7, <1>8, <1>9

LEMMA InvExpires ==
  ASSUME HookInv, ~abort, NEW g \in Fibers, NEW m \in Numbers(g),
         Expires(<<g, m>>)
  PROVE  HookInv'
<1> USE DEF HookInv, Types, io, hist
<1>1. /\ tm[<<g, m>>].st = "armed"
      /\ tm' = [tm EXCEPT ![<<g, m>>].st = "queued"]
      /\ UNCHANGED <<sock, waiter, interest, queued, started, cancelled, pc, op,
                     missed, late, abort>>
  BY DEF Expires
<1>2. <<g, m>> \in Ids
  BY IdsAre
<1>3. TimerTypes'
  BY <1>1, <1>2 DEF TimerTypes
<1>4. /\ tm'[<<g, m>>].st = "queued"
      /\ tm'[<<g, m>>].kind = tm[<<g, m>>].kind
      /\ tm'[<<g, m>>].call = tm[<<g, m>>].call
  BY <1>1, <1>2 DEF TimerTypes
<1>5. ASSUME NEW f \in Fibers, NEW n \in Numbers(f), <<f, n>> # <<g, m>>
      PROVE  tm'[<<f, n>>] = tm[<<f, n>>]
  <2>1. <<f, n>> \in Ids
    BY IdsAre
  <2> QED BY <1>1, <1>5, <2>1 DEF TimerTypes
<1>6. /\ IoTypes' /\ CallTypes' /\ Places' /\ Marks' /\ Connected'
  BY <1>1 DEF IoTypes, CallTypes, Places, Marks, Connected
<1>7. Timers'
  <2> SUFFICES ASSUME NEW f \in Fibers, NEW n \in Numbers(f)
               PROVE  TimerOk(f, n)'
    BY DEF Timers
  <2>1. TimerOk(f, n)
    BY DEF Timers
  <2>2. CASE <<f, n>> # <<g, m>>
    BY <1>1, <1>5, <2>1, <2>2 DEF TimerOk, Asleep, Timing
  <2>3. CASE <<f, n>> = <<g, m>>
    <3>1. f = g /\ n = m
      BY <2>3
    <3>2. ~(n > started[f])
      BY <1>1, <2>1, <3>1 DEF TimerOk, NoTimer
    <3> QED BY <1>1, <1>4, <2>1, <3>1, <3>2 DEF TimerOk, Asleep, Timing
  <2> QED BY <2>2, <2>3
<1>8. Waiting'
  <2>1. ASSUME NEW f \in Fibers, started[f] \in Numbers(f), Asleep(f, started[f])
        PROVE  Asleep(f, started[f])'
    BY <1>1, <1>4, <1>5, <2>1 DEF Asleep
  <2> QED BY <1>1, <2>1 DEF Waiting
<1>9. Lost'
  BY <1>1 DEF Lost, Closing
<1> QED BY <1>3, <1>6, <1>7, <1>8, <1>9

(* A timer whose callback has run.                                         *)
LEMMA TimerOver ==
  ASSUME TimerTypes, NEW g \in Fibers, NEW m \in Numbers(g),
         tm[<<g, m>>].st # "none", tm' = [tm EXCEPT ![<<g, m>>] = OverTimer]
  PROVE  /\ TimerTypes' /\ Ended(g, m)
         /\ \A f \in Fibers : \A n \in Numbers(f) :
              f # g \/ n # m => tm'[<<f, n>>] = tm[<<f, n>>]
<1>1. <<g, m>> \in Ids
  BY IdsAre
<1>2. TimerTypes' /\ Ended(g, m)
  BY <1>1 DEF TimerTypes, OverTimer, Ended
<1>3. ASSUME NEW f \in Fibers, NEW n \in Numbers(f), f # g \/ n # m
      PROVE  tm'[<<f, n>>] = tm[<<f, n>>]
  <2>1. <<f, n>> \in Ids /\ <<f, n>> # <<g, m>>
    BY <1>3, IdsAre
  <2> QED BY <2>1 DEF TimerTypes
<1> QED BY <1>2, <1>3

LEMMA InvSleepEnds ==
  ASSUME HookInv, ~abort, NEW g \in Fibers, NEW m \in Numbers(g),
         SleepEnds(<<g, m>>)
  PROVE  HookInv'
<1> USE DEF HookInv, Types, hist
<1>1. /\ tm[<<g, m>>].st = "queued" /\ Asleep(g, m)
      /\ tm' = [tm EXCEPT ![<<g, m>>] = OverTimer]
      /\ queued' = [queued EXCEPT ![g] = @ + 1]
      /\ UNCHANGED <<sock, waiter, interest, started, cancelled, pc, op,
                     missed, late, abort>>
  BY DEF SleepEnds, Asleep
<1>2. /\ TimerTypes' /\ Ended(g, m)
      /\ \A f \in Fibers : \A n \in Numbers(f) :
           f # g \/ n # m => tm'[<<f, n>>] = tm[<<f, n>>]
  BY <1>1, TimerOver
<1>3. /\ op[g].kind = "sleep" /\ m = started[g] /\ queued[g] = 0
      /\ \A n \in Numbers(g) : Asleep(g, n) => n = m
  BY <1>1, ZenonT(30) DEF Timers, TimerOk
<1>4. /\ queued'[g] = 1 /\ \A f \in Fibers : f # g => queued'[f] = queued[f]
  BY <1>1, <1>3 DEF IoTypes
<1>5. IoTypes' /\ CallTypes' /\ Places' /\ Marks' /\ Connected'
  BY <1>1 DEF IoTypes, CallTypes, Places, Marks, Connected
<1>6. Timers'
  <2>1. Quiet(g)'
    BY <1>2, <1>3 DEF Quiet, Asleep, Ended, OverTimer
  <2>2. \A f \in Fibers : Same(f) /\ (queued'[f] = queued[f] \/ Quiet(f)')
    BY <1>1, <1>4, <2>1 DEF Same
  <2>3. \A f \in Fibers : \A n \in Numbers(f) :
          tm'[<<f, n>>] = tm[<<f, n>>] \/ Ended(f, n)
    BY <1>2
  <2> QED BY <1>1, <1>5, <2>2, <2>3, TimersKept
<1>7. Waiting'
  <2>1. pc[g] = "held" /\ \A e \in Events : waiter[e] # g
    BY <1>3 DEF Waiting, Places, Io
  <2>2. \A e \in Events, f \in Fibers : waiter'[e] = f =>
          /\ pc'[f] = "held" /\ op'[f].kind \in Io /\ EventOf(op'[f].kind) = e
          /\ queued'[f] = 0
    BY <1>1, <1>4, <2>1 DEF Waiting
  <2>3. ASSUME NEW f \in Fibers
        PROVE  /\ queued'[f] # 0 => queued'[f] = 1 /\ pc'[f] = "held"
               /\ pc'[f] = "held" =>
                    \/ queued'[f] = 1
                    \/ op'[f].kind \in Io /\ waiter'[EventOf(op'[f].kind)] = f
                    \/ /\ op'[f].kind = "sleep" /\ started'[f] \in Numbers(f)
                       /\ Asleep(f, started[f])'
    <3>1. CASE f = g
      BY <1>1, <1>4, <2>1, <3>1
    <3>2. CASE f # g
      <4>1. started[f] \in Numbers(f) /\ Asleep(f, started[f])
              => Asleep(f, started[f])'
        BY <1>1, <1>2, <3>2 DEF Asleep
      <4>2. /\ queued[f] # 0 => queued[f] = 1 /\ pc[f] = "held"
            /\ pc[f] = "held" =>
                 \/ queued[f] = 1
                 \/ op[f].kind \in Io /\ waiter[EventOf(op[f].kind)] = f
                 \/ /\ op[f].kind = "sleep" /\ started[f] \in Numbers(f)
                    /\ Asleep(f, started[f])
        BY DEF Waiting
      <4> QED BY <1>1, <1>4, <3>2, <4>1, <4>2
    <3> QED BY <3>1, <3>2
  <2> QED BY <2>2, <2>3 DEF Waiting
<1>8. Lost'
  BY <1>1 DEF Lost, Closing
<1> QED BY <1>2, <1>5, <1>6, <1>7, <1>8

LEMMA InvTimeoutMarks ==
  ASSUME HookInv, ~abort, NEW g \in Fibers, NEW m \in Numbers(g),
         TimeoutMarks(<<g, m>>)
  PROVE  HookInv'
<1> USE DEF HookInv, Types, io, hist
<1>1. /\ tm[<<g, m>>].st = "queued" /\ ~Asleep(g, m)
      /\ UNCHANGED <<sock, waiter, interest, queued, started, pc, op,
                     missed, late, abort>>
  BY DEF TimeoutMarks, Asleep
<1>2. /\ IoTypes' /\ Places' /\ Connected'
  BY <1>1 DEF IoTypes, Places, Connected
<1>3. Lost'
  BY <1>1 DEF Lost, Closing
<1>4. ASSUME \A f \in Fibers : \A n \in Numbers(f) :
               f # g \/ n # m => tm'[<<f, n>>] = tm[<<f, n>>]
      PROVE  Waiting'
  <2>1. ASSUME NEW f \in Fibers, started[f] \in Numbers(f), Asleep(f, started[f])
        PROVE  Asleep(f, started[f])'
    BY <1>1, <1>4, <2>1 DEF Asleep
  <2> QED BY <1>1, <2>1 DEF Waiting
<1>5. CASE Alive(<<g, m>>)
  <2>1. /\ tm' = [tm EXCEPT ![<<g, m>>].st = "cancel"]
        /\ cancelled' = [cancelled EXCEPT ![g] = TRUE]
    BY <1>5 DEF TimeoutMarks
  <2>2. <<g, m>> \in Ids
    BY IdsAre
  <2>3. /\ TimerTypes' /\ tm'[<<g, m>>].st = "cancel"
        /\ tm'[<<g, m>>].kind = tm[<<g, m>>].kind
        /\ tm'[<<g, m>>].call = tm[<<g, m>>].call
    BY <2>1, <2>2 DEF TimerTypes
  <2>4. ASSUME NEW f \in Fibers, NEW n \in Numbers(f), f # g \/ n # m
        PROVE  tm'[<<f, n>>] = tm[<<f, n>>]
    <3>1. <<f, n>> \in Ids /\ <<f, n>> # <<g, m>>
      BY <2>4, IdsAre
    <3> QED BY <2>1, <3>1 DEF TimerTypes
  <2>5. CallTypes'
    BY <1>1, <2>1 DEF CallTypes
  <2>6. TimerOk(g, m)
    BY DEF Timers
  <2>7. Timers'
    <3> SUFFICES ASSUME NEW f \in Fibers, NEW n \in Numbers(f)
                 PROVE  TimerOk(f, n)'
      BY DEF Timers
    <3>1. CASE f # g \/ n # m
      BY <1>1, <2>4, <3>1 DEF Timers, TimerOk, Asleep, Timing
    <3>2. CASE f = g /\ n = m
      <4>1. ~(m > started[g])
        BY <1>1, <2>6 DEF TimerOk, NoTimer
      <4> QED BY <1>1, <2>3, <2>6, <3>2, <4>1 DEF TimerOk, Asleep, Timing
    <3> QED BY <3>1, <3>2
  <2>8. op[g].timeout = TRUE
    <3>1. tm[<<g, m>>].call = op[g].call /\ op[g].kind # "none"
      BY <1>5 DEF Alive
    <3>2. Timing(g, m)
      BY <1>1, <2>2, <2>6 DEF TimerOk, TimerTypes, Timing, Asleep
    <3> QED BY <2>6, <3>1, <3>2 DEF TimerOk
  <2>9. Marks'
    BY <1>1, <2>1, <2>8 DEF Marks, CallTypes
  <2> QED BY <1>2, <1>3, <1>4, <2>3, <2>4, <2>5, <2>7, <2>9
<1>6. CASE ~Alive(<<g, m>>)
  <2>1. tm' = [tm EXCEPT ![<<g, m>>] = OverTimer] /\ cancelled' = cancelled
    BY <1>6 DEF TimeoutMarks
  <2>2. /\ TimerTypes' /\ Ended(g, m)
        /\ \A f \in Fibers : \A n \in Numbers(f) :
             f # g \/ n # m => tm'[<<f, n>>] = tm[<<f, n>>]
    BY <1>1, <2>1, TimerOver
  <2>3. CallTypes' /\ Marks'
    BY <1>1, <2>1 DEF CallTypes, Marks
  <2>4. Timers'
    <3>1. \A f \in Fibers : \A n \in Numbers(f) :
            tm'[<<f, n>>] = tm[<<f, n>>] \/ Ended(f, n)
      BY <2>2
    <3> QED BY <1>1, <2>3, <3>1, TimersKept DEF Same
  <2> QED BY <1>2, <1>3, <1>4, <2>2, <2>3, <2>4
<1> QED BY <1>5, <1>6

LEMMA InvTimeoutCancels ==
  ASSUME HookInv, ~abort, NEW g \in Fibers, NEW m \in Numbers(g),
         TimeoutCancels(<<g, m>>)
  PROVE  HookInv'
<1> USE DEF HookInv, Types, io
<1> DEFINE e == EventOf(tm[<<g, m>>].kind)
<1>1. /\ tm[<<g, m>>].st = "cancel"
      /\ tm' = [tm EXCEPT ![<<g, m>>] = OverTimer]
      /\ UNCHANGED <<sock, started, cancelled, pc, late, abort>>
  BY DEF TimeoutCancels
<1>2. /\ TimerTypes' /\ Ended(g, m)
      /\ \A f \in Fibers : \A n \in Numbers(f) :
           f # g \/ n # m => tm'[<<f, n>>] = tm[<<f, n>>]
  BY <1>1, TimerOver
<1>3. ~Asleep(g, m)
  BY <1>1 DEF Timers, TimerOk
<1>4. \A f \in Fibers : \A n \in Numbers(f) :
        \/ tm'[<<f, n>>] = tm[<<f, n>>]
        \/ Ended(f, n) /\ ~Asleep(f, n)
  <2> SUFFICES ASSUME NEW f \in Fibers, NEW n \in Numbers(f)
               PROVE  \/ tm'[<<f, n>>] = tm[<<f, n>>]
                      \/ Ended(f, n) /\ ~Asleep(f, n)
    OBVIOUS
  <2>1. CASE f = g /\ n = m
    BY <1>2, <1>3, <2>1
  <2> QED BY <1>2, <2>1
<1>5. missed' \in [Fibers -> BOOLEAN]
  BY DEF TimeoutCancels, CallTypes
<1>6. CASE UNCHANGED <<io, op>>
  <2>1. IoTypes' /\ CallTypes' /\ Places' /\ Marks' /\ Connected'
    BY <1>1, <1>5, <1>6 DEF IoTypes, CallTypes, Places, Marks, Connected
  <2>2. Timers'
    BY <1>1, <1>4, <1>6, <2>1, TimersKept DEF Same
  <2>3. Waiting'
    <3>1. ASSUME NEW f \in Fibers, started[f] \in Numbers(f),
                 Asleep(f, started[f])
          PROVE  Asleep(f, started[f])'
      BY <1>1, <1>4, <3>1 DEF Asleep
    <3> QED BY <1>1, <1>6, <3>1 DEF Waiting
  <2>4. Lost'
    BY <1>1, <1>6 DEF Lost, Closing
  <2> QED BY <1>2, <2>1, <2>2, <2>3, <2>4
<1>7. CASE waiter[e] # Null /\ Trigger({e}, "cancel")
  <2>1. e \in Events /\ {e} \in SUBSET Registered
    BY <1>7 DEF EventOf, Events, Registered
  <2>2. CallTypes'
    BY <1>1, <1>5, <1>7, <2>1, TriggerDoes DEF CallTypes
  <2>3. IoTypes' /\ Places' /\ Timers' /\ Waiting' /\ Marks' /\ Connected'
    BY <1>1, <1>4, <1>7, <2>1, <2>2, TriggerKeeps
  <2>4. Lost'
    <3>1. interest' = interest \ {e}
      BY <1>7 DEF Trigger
    <3>2. /\ \A d \in Events : waiter'[d] = (IF d \in {e} THEN Null ELSE waiter[d])
          /\ \A f \in Fibers : Same(f) /\ op'[f].gen = op[f].gen
      BY <1>7, <2>1, TriggerDoes
    <3> QED BY <1>1, <3>1, <3>2 DEF Lost, Closing, Same, IoTypes
  <2> QED BY <1>2, <2>2, <2>3, <2>4
<1> QED BY <1>6, <1>7 DEF TimeoutCancels, Cancels

LEMMA InvCloseBegins ==
  ASSUME HookInv, ~abort, NEW f \in Fibers, CloseBegins(f)
  PROVE  HookInv'
<1> USE DEF HookInv, Types, io, timer, hist, Goto
<1>1. /\ pc[f] = "idle" /\ sock.open /\ pc' = [pc EXCEPT ![f] = "del"]
      /\ UNCHANGED <<sock, tm, started, cancelled, missed, late, abort>>
  BY DEF CloseBegins
<1>2. TimerTypes'
  BY <1>1 DEF TimerTypes
<1>3. \A g \in Fibers : pc'[g] = pc[g] \/ (pc[g] = "idle" /\ pc'[g] = "del")
  BY <1>1 DEF CallTypes
<1>4. CASE Registered = {} \/ CtlFails("DEL", FALSE)
  <2>1. UNCHANGED <<waiter, interest, queued, op>>
    BY <1>4 DEF CloseBegins, ClosedEvents
  <2>2. \A e \in Events : waiter[e] = Null \/ waiter[e] \in late
    BY <1>1, <1>4 DEF Registered, CtlFails, Lost
  <2>3. IoTypes' /\ CallTypes' /\ Marks' /\ Connected'
    BY <1>1, <2>1 DEF IoTypes, CallTypes, Marks, Connected
  <2>4. Places'
    BY <1>1, <2>1 DEF Places, CallTypes
  <2>5. Timers'
    BY <1>1, <2>1, <2>3, TimersKept DEF Same
  <2>6. Waiting'
    BY <1>1, <1>3, <2>1 DEF Waiting, Asleep
  <2>7. Lost'
    BY <1>1, <2>1, <2>2 DEF Lost
  <2> QED BY <1>2, <2>3, <2>4, <2>5, <2>6, <2>7
<1>5. CASE Trigger(Registered, "close")
  <2>1. Registered \in SUBSET Registered
    OBVIOUS
  <2>2. CallTypes'
    BY <1>1, <1>5, <2>1, TriggerDoes DEF CallTypes
  <2>3. IoTypes' /\ Places' /\ Timers' /\ Waiting' /\ Marks' /\ Connected'
    BY <1>1, <1>3, <1>5, <2>1, <2>2, TriggerKeeps
  <2>4. /\ \A d \in Events :
             waiter'[d] = (IF d \in Registered THEN Null ELSE waiter[d])
        /\ \A g \in Fibers : Same(g) /\ op'[g].gen = op[g].gen
    BY <1>5, <2>1, TriggerDoes
  <2>5. \A d \in Events : waiter'[d] = Null
    BY <2>4 DEF Registered
  <2>6. Lost'
    BY <1>1, <2>4, <2>5 DEF Lost, Same
  <2> QED BY <1>2, <2>2, <2>3, <2>6
<1> QED BY <1>4, <1>5 DEF CloseBegins, ClosedEvents

LEMMA InvCloseDeletes ==
  ASSUME HookInv, ~abort, NEW f \in Fibers, CloseDeletes(f)
  PROVE  HookInv'
<1> USE HookAssumption, IdsAre DEF HookInv, Types, Io, Events, EventOf,
         CloseDeletes, io, timer, hist, Goto
<1>1. IoTypes'
  BY DEF IoTypes
<1>2. CallTypes'
  BY DEF CallTypes
<1>3. TimerTypes'
  BY DEF TimerTypes
<1>4. Places'
  BY DEF Places, CallTypes
<1>5. Timers'
  <2>1. \A g \in Fibers : Same(g) /\ queued'[g] = queued[g]
    BY DEF Same
  <2> QED BY <1>2, <2>1, TimersKept
<1>6. Waiting'
  BY DEF Waiting, IoTypes, CallTypes, Asleep
<1>7. Marks'
  BY DEF Marks, CallTypes
<1>8. Lost'
  BY DEF Lost, Closing, IoTypes, CallTypes
<1>9. Connected'
  BY DEF Connected, CallTypes
<1> QED BY <1>1, <1>2, <1>3, <1>4, <1>5, <1>6, <1>7, <1>8, <1>9

LEMMA InvCloseEnds ==
  ASSUME HookInv, ~abort, NEW f \in Fibers, CloseEnds(f)
  PROVE  HookInv'
<1> USE HookAssumption, IdsAre DEF HookInv, Types, Io, Events, EventOf,
         CloseEnds, io, timer, hist, Goto
<1>1. IoTypes'
  BY DEF IoTypes
<1>2. CallTypes'
  BY DEF CallTypes
<1>3. TimerTypes'
  BY DEF TimerTypes
<1>4. Places'
  BY DEF Places, CallTypes
<1>5. Timers'
  <2>1. \A g \in Fibers : Same(g) /\ queued'[g] = queued[g]
    BY DEF Same
  <2> QED BY <1>2, <2>1, TimersKept
<1>6. Waiting'
  BY DEF Waiting, IoTypes, CallTypes, Asleep
<1>7. Marks'
  BY DEF Marks, CallTypes
<1>8. Lost'
  BY DEF Lost, Closing, IoTypes, CallTypes
<1>9. Connected'
  BY DEF Connected, CallTypes
<1> QED BY <1>1, <1>2, <1>3, <1>4, <1>5, <1>6, <1>7, <1>8, <1>9

LEMMA HookInit ==
  ASSUME Init
  PROVE  HookInv
<1> USE HookAssumption DEF Init
<1>1. /\ \A f \in Fibers : op[f].kind = "none" /\ op[f].call = 0
           /\ op[f].gen = 0 /\ op[f].timeout = FALSE /\ op[f].by = "none"
      /\ \A f \in Fibers : \A n \in Numbers(f) : tm[<<f, n>>] = NoTimer
  BY IdsAre DEF NoOp, NewOp
<1>2. IoTypes
  BY DEF IoTypes, NewSock
<1>3. CallTypes
  BY DEF CallTypes, NoOp, NewOp
<1>4. TimerTypes
  BY DEF TimerTypes, NoTimer
<1>5. Places /\ Marks
  BY <1>1 DEF Places, Marks, Io
<1>6. Timers
  <2> SUFFICES ASSUME NEW f \in Fibers, NEW n \in Numbers(f)
               PROVE  TimerOk(f, n)
    BY DEF Timers
  <2>1. /\ tm[<<f, n>>] = NoTimer /\ tm[<<f, n>>].kind = "none"
        /\ tm[<<f, n>>].st = "none" /\ tm[<<f, n>>].call = op[f].call
    BY <1>1 DEF NoTimer
  <2>2. op[f].call <= op[f].call
    BY <1>1
  <2> QED BY <2>1, <2>2 DEF TimerOk, Asleep, Timing, Io
<1>7. Waiting
  BY DEF Waiting
<1>8. Lost
  BY <1>1 DEF Lost, Io
<1>9. Connected
  BY <1>1 DEF Connected, NewSock
<1> QED BY <1>2, <1>3, <1>4, <1>5, <1>6, <1>7, <1>8, <1>9 DEF HookInv, Types

LEMMA HookNext ==
  ASSUME HookInv, [Next]_vars
  PROVE  HookInv'
<1>1. CASE UNCHANGED vars
  <2> USE <1>1 DEF HookInv, Types, vars, io, timer, hist
  <2>1. IoTypes' /\ CallTypes' /\ TimerTypes' /\ Places' /\ Marks' /\ Connected'
    BY DEF IoTypes, CallTypes, TimerTypes, Places, Marks, Connected
  <2>2. Timers'
    BY <2>1, TimersKept DEF Same
  <2>3. Waiting'
    BY DEF Waiting, Asleep
  <2>4. Lost'
    BY DEF Lost, Closing
  <2> QED BY <2>1, <2>2, <2>3, <2>4
<1>2. ASSUME ~abort, NEW f \in Fibers, Calls(f) PROVE HookInv'
  BY <1>2, InvIoBegins, InvSleepBegins, InvCloseBegins DEF Calls, Io
<1>3. ASSUME ~abort, NEW f \in Fibers, Runs(f) PROVE HookInv'
  BY <1>3, InvIoAnswers, InvIoAgain, InvConnectStarts, InvConnectAnswers,
     InvArms, InvRegisters, InvAddFails, InvResumes, InvSoError,
     InvCloseDeletes, InvCloseEnds DEF Runs
<1>4. ASSUME ~abort, NEW i \in Ids, Timeouts(i) PROVE HookInv'
  <2>1. PICK g \in Fibers : \E m \in Numbers(g) : i = <<g, m>>
    BY IdsAre
  <2>2. PICK m \in Numbers(g) : i = <<g, m>>
    BY <2>1
  <2> QED BY <1>4, <2>2, InvExpires, InvSleepEnds, InvTimeoutMarks,
             InvTimeoutCancels DEF Timeouts
<1>5. ASSUME ~abort, Environment PROVE HookInv'
  BY <1>5, InvDataArrives, InvConnectEnds, InvReopens DEF Environment
<1>6. ASSUME ~abort, NEW e \in Events, EventFires(e) PROVE HookInv'
  BY <1>6, InvEventFires
<1> QED BY <1>1, <1>2, <1>3, <1>4, <1>5, <1>6 DEF Next

LEMMA HookAlways == Spec => []HookInv
<1> QED BY HookInit, HookNext, PTL DEF Spec

-----------------------------------------------------------------------------
LEMMA WakesOnce ==
  ASSUME HookInv, NEW f \in Fibers
  PROVE  Wakes(f) = (IF pc[f] = "held" THEN 1 ELSE 0)
<1> USE DEF HookInv, Types
<1> DEFINE E == {e \in Events : waiter[e] = f}
           S == {n \in Numbers(f) : /\ tm[<<f, n>>].kind = "sleep"
                                    /\ tm[<<f, n>>].st \in {"armed", "queued"}}
<1>1. Wakes(f) = queued[f] + Cardinality(E) + Cardinality(S)
  BY DEF Wakes
<1>2. /\ \A e \in Events : waiter[e] = f =>
           /\ pc[f] = "held" /\ op[f].kind \in Io /\ EventOf(op[f].kind) = e
           /\ queued[f] = 0
      /\ queued[f] # 0 => queued[f] = 1 /\ pc[f] = "held"
      /\ pc[f] = "held" =>
           \/ queued[f] = 1
           \/ op[f].kind \in Io /\ waiter[EventOf(op[f].kind)] = f
           \/ /\ op[f].kind = "sleep" /\ started[f] \in Numbers(f)
              /\ Asleep(f, started[f])
  BY DEF Waiting
<1>3. \A n \in Numbers(f) : Asleep(f, n) =>
        /\ tm[<<f, n>>].st \in {"armed", "queued"}
        /\ op[f].kind = "sleep" /\ n = started[f] /\ queued[f] = 0
  BY DEF Timers, TimerOk
<1>4. op[f].kind = "sleep" => pc[f] = "held"
  BY DEF Places
<1>5. S = {n \in Numbers(f) : Asleep(f, n)}
  BY <1>3 DEF Asleep
<1>6. Cardinality({}) = 0 /\ \A x : Cardinality({x}) = 1
  BY FS_EmptySet, FS_Singleton
<1> HIDE DEF E, S
<1>7. CASE pc[f] # "held"
  <2>1. E = {}
    BY <1>2, <1>7 DEF E
  <2>2. S = {}
    BY <1>3, <1>4, <1>5, <1>7
  <2> QED BY <1>1, <1>2, <1>6, <1>7, <2>1, <2>2
<1>8. CASE pc[f] = "held" /\ queued[f] = 1
  <2>1. E = {}
    BY <1>2, <1>8 DEF E
  <2>2. S = {}
    BY <1>3, <1>5, <1>8
  <2> QED BY <1>1, <1>6, <1>8, <2>1, <2>2
<1>9. CASE pc[f] = "held" /\ op[f].kind \in Io
             /\ waiter[EventOf(op[f].kind)] = f
  <2>1. E = {EventOf(op[f].kind)}
    BY <1>2, <1>9 DEF E, EventOf, Events
  <2>2. S = {}
    BY <1>3, <1>5, <1>9 DEF Io
  <2>3. queued[f] = 0
    BY <1>2, <1>9 DEF EventOf, Events
  <2>4. Cardinality(E) = 1 /\ Cardinality(S) = 0
    BY <1>6, <2>1, <2>2
  <2> QED BY <1>1, <1>9, <2>3, <2>4
<1>10. CASE pc[f] = "held" /\ op[f].kind = "sleep"
              /\ started[f] \in Numbers(f) /\ Asleep(f, started[f])
  <2>1. E = {}
    BY <1>2, <1>10 DEF E, Io
  <2>2. S = {started[f]}
    BY <1>3, <1>5, <1>10
  <2>3. queued[f] = 0
    BY <1>3, <1>10
  <2>4. Cardinality(E) = 0 /\ Cardinality(S) = 1
    BY <1>6, <2>1, <2>2
  <2> QED BY <1>1, <1>10, <2>3, <2>4
<1> QED BY <1>2, <1>7, <1>8, <1>9, <1>10

(* A fiber that waits in do_io, connect_with_timeout or a sleep has exactly *)
(* one wake-up to come, and any other has none (hook.cc:136, 167, 254),     *)
(* whatever events, time-outs and close() do at the same time.              *)
THEOREM OneWakeHolds == Spec => []OneWake
<1>1. HookInv => OneWake
  BY WakesOnce DEF OneWake
<1> QED BY <1>1, HookAlways, PTL

(* What the kernel has forgotten was registered late, and addEvent's        *)
(* assertion fails only after that (hook.cc:343).                           *)
THEOREM StrandedLate == Spec => []StrandedOnlyLate
<1>1. HookInv => StrandedOnlyLate
  BY DEF HookInv, Lost, StrandedOnlyLate
<1> QED BY <1>1, HookAlways, PTL

(* ETIMEDOUT is the call's own: no callback of an earlier call of the fiber *)
(* marks a call that has no time-out (hook.cc:119).                         *)
THEOREM TimeoutsAreOwn == Spec => []NoForeignTimeout
<1>1. HookInv => NoForeignTimeout
  BY DEF HookInv, Marks, NoForeignTimeout
<1> QED BY <1>1, HookAlways, PTL

(* A connect that its event woke finds the connection made or refused       *)
(* (hook.cc:269).                                                           *)
THEOREM ConnectReadsOutcome == Spec => []ConnectTrue
<1>1. HookInv => ConnectTrue
  BY DEF HookInv, Places, Connected, ConnectTrue
<1> QED BY <1>1, HookAlways, PTL
=============================================================================
