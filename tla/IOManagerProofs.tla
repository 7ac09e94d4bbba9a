-------------------------- MODULE IOManagerProofs --------------------------
(***************************************************************************)
(* Theorems about the event half of IOManager, for any number of threads   *)
(* and descriptors: the types, the exact counter of pending events, one    *)
(* wake-up for every fiber that waits, the assertions, and that the table  *)
(* of contexts and the epoll set keep up with the registered events.       *)
(***************************************************************************)
EXTENDS IOManager, FiniteSetTheorems, TLAPS

USE IOManagerAssumption

(* The places in a call where an FdContext is known.                       *)
Holding == {"added", "deleted", "trigger", "count"}
Located == Holding \cup {"lock"}

(* The types, and what the local variables of a call are good for.         *)
OpInv ==
  \A t \in Threads :
    /\ pc[t] \in Located => op[t].gen # 0
    /\ pc[t] = "grow" => op[t].fd >= 2
    /\ pc[t] \in {"trigger", "count"} => op[t].todo # {}

TypeInv ==
  /\ TableType /\ m_size >= 2
  /\ m_pendingEventCount \in Int
  /\ events \in [Ctxs -> SUBSET Events]
  /\ waiter \in [Ctxs -> SUBSET Events]
  /\ lock \in [Ctxs -> Threads \cup {Null}]
  /\ KernelType /\ UserType /\ ThreadType
  /\ OpInv

Ops == [kind : OpKinds, fd : Fds, ev : Events, gen : 0..MaxGen, todo : SUBSET Events]

LEMMA NoOpType == NoOp \in Ops
<1>1. \E fd \in Fds : TRUE
  OBVIOUS
<1>2. \E e \in Events : TRUE
  OBVIOUS
<1>3. (CHOOSE fd \in Fds : TRUE) \in Fds
  BY <1>1
<1>4. (CHOOSE e \in Events : TRUE) \in Events
  BY <1>2
<1> QED BY <1>3, <1>4 DEF NoOp, Ops, OpKinds

LEMMA FirstType ==
  ASSUME NEW S \in SUBSET Events, S # {}
  PROVE  First(S) \in S
BY DEF First

LEMMA CtxType1 ==
  ASSUME TypeInv, NEW t \in Threads, pc[t] \in Located
  PROVE  Ctx(t) \in Ctxs
BY DEF TypeInv, ThreadType, OpInv, Ctx, Ctxs

(* The initial state has its types.                                        *)
LEMMA TypeInit == Init => TypeInv
<1> SUFFICES ASSUME Init PROVE TypeInv
  OBVIOUS
<1>1. TableType /\ m_size >= 2
  BY DEF Init, TableType, Unlocked, MutexStates
<1>2. KernelType
  BY DEF Init, KernelType, NotRegistered, Masks
<1>3. UserType
  BY DEF Init, UserType
<1>4. ThreadType /\ OpInv
  BY NoOpType DEF Init, ThreadType, Ops, Pcs, OpInv, Located, Holding
<1> QED BY <1>1, <1>2, <1>3, <1>4 DEF Init, TypeInv

(* epoll_ctl keeps the types of the epoll set.                             *)
LEMMA EpollCtlType ==
  ASSUME KernelType, UNCHANGED ready, NEW fd \in Fds, NEW g \in 1..MaxGen,
         NEW evs \in SUBSET Events, EpollCtl(fd, g, evs)
  PROVE  KernelType'
<1>1. NotRegistered \in [gen : 0..MaxGen, events : SUBSET Events]
  BY DEF NotRegistered
<1>2. CASE evs = {}
  BY <1>1, <1>2 DEF KernelType, EpollCtl, NotRegistered
<1>3. CASE evs # {}
  <2>1. [gen |-> g, events |-> evs] \in [gen : 0..MaxGen, events : SUBSET Events]
    OBVIOUS
  <2>2. interest' = [interest EXCEPT ![fd] = [gen |-> g, events |-> evs]]
    BY <1>3 DEF EpollCtl
  <2>3. rdlist' \subseteq rdlist \cup {fd}
    BY <1>3 DEF EpollCtl
  <2>4. interest' \in [Fds -> [gen : 0..MaxGen, events : SUBSET Events]]
    BY <2>1, <2>2 DEF KernelType
  <2>5. interest'[fd].gen # 0 /\ \A x \in Fds \ {fd} : interest'[x] = interest[x]
    BY <2>2 DEF KernelType
  <2>6. rdlist' \subseteq {x \in Fds : interest'[x].gen # 0}
    BY <2>3, <2>5 DEF KernelType
  <2> QED BY <2>4, <2>6 DEF KernelType
<1> QED BY <1>2, <1>3

(* A step of a thread leaves op[u], pc[u] of the others alone.             *)
LEMMA OpMoves ==
  ASSUME ThreadType, OpInv, NEW t \in Threads, NEW p \in Pcs, NEW o \in Ops,
         pc' = [pc EXCEPT ![t] = p], op' = [op EXCEPT ![t] = o],
         p \in Located => o.gen # 0,
         p = "grow" => o.fd >= 2,
         p \in {"trigger", "count"} => o.todo # {},
         batch' \in [Threads -> SUBSET [fd : Fds, gen : 1..MaxGen, mask : Masks]],
         abort' \in {"none", "race", "addEvent", "triggerEvent", "cancelAll"}
  PROVE  ThreadType' /\ OpInv'
<1>1. ThreadType'
  BY DEF ThreadType, Ops
<1>2. OpInv'
  BY DEF ThreadType, OpInv, Ops
<1> QED BY <1>1, <1>2

LEMMA OpAt ==
  ASSUME ThreadType, NEW t \in Threads
  PROVE  /\ op[t] \in Ops /\ pc[t] \in Pcs
         /\ op[t].kind \in OpKinds /\ op[t].fd \in Fds /\ op[t].ev \in Events
         /\ op[t].gen \in 0..MaxGen /\ op[t].todo \in SUBSET Events
BY DEF ThreadType, Ops

LEMMA ReadersType ==
  ASSUME NEW n \in MutexStates
  PROVE  /\ RdLock(n) \in MutexStates /\ RdUnlock(n) \in MutexStates
         /\ WriteUnlock(n) \in MutexStates
<1>1. /\ n.readers \in Int /\ n.writing \in BOOLEAN
      /\ n = [readers |-> n.readers, writing |-> n.writing]
  BY DEF MutexStates
<1>2. RdLock(n) \in MutexStates
  BY <1>1 DEF RdLock, MutexStates
<1>3. RdUnlock(n) \in MutexStates
  BY <1>1 DEF RdUnlock, MutexStates
<1>4. WriteUnlock(n) \in MutexStates
  <2>1. (n.readers = 0) \in BOOLEAN
    OBVIOUS
  <2>2. WriteUnlock(n) = [readers |-> n.readers, writing |-> (n.readers = 0)]
    BY <1>1 DEF WriteUnlock, MutexStates
  <2> QED BY <1>1, <2>1, <2>2 DEF MutexStates
<1> QED BY <1>2, <1>3, <1>4

(* One entry of a table indexed by descriptor and event.                   *)
LEMMA Entry2 ==
  ASSUME NEW S, NEW f \in [Fds -> [Events -> S]], NEW fd \in Fds,
         NEW e \in Events, NEW v \in S
  PROVE  /\ [f EXCEPT ![fd][e] = v] \in [Fds -> [Events -> S]]
         /\ \A x \in Fds, y \in Events :
              [f EXCEPT ![fd][e] = v][x][y] =
                IF x = fd /\ y = e THEN v ELSE f[x][y]
<1>1. [f[fd] EXCEPT ![e] = v] \in [Events -> S]
  OBVIOUS
<1>2. [f EXCEPT ![fd][e] = v] = [f EXCEPT ![fd] = [f[fd] EXCEPT ![e] = v]]
  OBVIOUS
<1> QED BY <1>1, <1>2

(* The environment's steps keep the types.                                 *)
LEMMA TypeEnvironment == TypeInv /\ Environment => TypeInv'
<1> SUFFICES ASSUME TypeInv, NEW fd \in Fds,
                    \/ \E k \in Events \cup {"HUP"} : Arrive(fd, k)
                    \/ \E e \in Events : Drain(fd, e) \/ Resume(fd, e)
                    \/ Close(fd)
             PROVE  TypeInv'
  BY DEF Environment
<1>1. ASSUME NEW k \in Events \cup {"HUP"}, Arrive(fd, k) PROVE TypeInv'
  <2>1. KernelType'
    BY <1>1 DEF Arrive, TypeInv, KernelType, Masks
  <2> QED BY <1>1, <2>1 DEF Arrive, TypeInv, TableType, table, ctxs, users,
              UserType, ThreadType, OpInv
<1>2. ASSUME NEW e \in Events, Drain(fd, e) PROVE TypeInv'
  <2>1. KernelType'
    BY <1>2 DEF Drain, TypeInv, KernelType, Masks, kernel
  <2> QED BY <1>2, <2>1 DEF Drain, TypeInv, TableType, table, ctxs, users,
              UserType, ThreadType, OpInv
<1>3. ASSUME NEW e \in Events, Resume(fd, e) PROVE TypeInv'
  <2>1. UserType'
    <3>1. sched[fd][e] - 1 \in Nat
      <4>1. sched \in [Fds -> [Events -> Nat]]
        BY DEF TypeInv, UserType
      <4>2. sched[fd][e] \in Nat
        BY <1>3, <4>1
      <4>3. sched[fd][e] > 0
        BY <1>3 DEF Resume
      <4> QED BY <4>2, <4>3
    <3>2. /\ user' = [user EXCEPT ![fd][e] = "idle"] \/ user' = user
          /\ left' = left
      BY <1>3 DEF Resume
    <3>3. sched' = [sched EXCEPT ![fd][e] = sched[fd][e] - 1]
      BY <1>3 DEF Resume
    <3>4. sched' \in [Fds -> [Events -> Nat]]
      BY <1>3, <3>1, <3>3, Entry2 DEF TypeInv, UserType
    <3>5. user' \in [Fds -> [Events -> {"idle", "adding", "waiting"}]]
      <4>1. user \in [Fds -> [Events -> {"idle", "adding", "waiting"}]]
        BY DEF TypeInv, UserType
      <4>2. CASE user' = user
        BY <4>1, <4>2
      <4>3. CASE user' = [user EXCEPT ![fd][e] = "idle"]
        BY <1>3, <4>1, <4>3, Entry2
      <4> QED BY <3>2, <4>2, <4>3
    <3> QED BY <3>2, <3>4, <3>5 DEF TypeInv, UserType
  <2> QED BY <1>3, <2>1 DEF Resume, TypeInv, TableType, table, ctxs, kernel,
              KernelType, ThreadType, OpInv
<1>4. ASSUME Close(fd) PROVE TypeInv'
  <2>1. KernelType'
    <3>1. /\ interest' = [interest EXCEPT ![fd] = NotRegistered]
          /\ rdlist' = rdlist \ {fd} /\ ready' = [ready EXCEPT ![fd] = {}]
      BY <1>4 DEF Close
    <3>2. NotRegistered \in [gen : 0..MaxGen, events : SUBSET Events]
      BY IOManagerAssumption DEF NotRegistered
    <3>3. interest \in [Fds -> [gen : 0..MaxGen, events : SUBSET Events]]
      BY DEF TypeInv, KernelType
    <3>4. interest' \in [Fds -> [gen : 0..MaxGen, events : SUBSET Events]]
      BY <3>1, <3>2, <3>3
    <3>5. \A x \in Fds \ {fd} : interest'[x] = interest[x]
      BY <3>1, <3>3
    <3>6. rdlist' \subseteq {x \in Fds : interest'[x].gen # 0}
      BY <3>1, <3>5 DEF TypeInv, KernelType
    <3>7. ready' \in [Fds -> Masks]
      BY <3>1 DEF TypeInv, KernelType, Masks
    <3> QED BY <3>4, <3>6, <3>7 DEF KernelType
  <2>2. UserType'
    BY <1>4 DEF Close, TypeInv, UserType
  <2> QED BY <1>4, <2>1, <2>2 DEF Close, TypeInv, TableType, table, ctxs,
              ThreadType, OpInv
<1> QED BY <1>1, <1>2, <1>3, <1>4

(* What most steps leave alone.                                            *)
LEMMA TableSame ==
  ASSUME TableType, m_size >= 2, UNCHANGED table, m_mutex' \in MutexStates
  PROVE  TableType' /\ m_size' >= 2
BY DEF TableType, table

LEMMA KernelSame == KernelType /\ UNCHANGED <<kernel, ready>> => KernelType'
BY DEF KernelType, kernel

LEMMA UserSame == UserType /\ UNCHANGED users => UserType'
BY DEF UserType, users


(* The fields of the contexts have their types.                            *)
FieldType ==
  /\ m_pendingEventCount \in Int
  /\ events \in [Ctxs -> SUBSET Events]
  /\ waiter \in [Ctxs -> SUBSET Events]
  /\ lock \in [Ctxs -> Threads \cup {Null}]

LEMMA TypeParts ==
  TypeInv <=> /\ TableType /\ m_size >= 2 /\ FieldType
              /\ KernelType /\ UserType /\ ThreadType /\ OpInv
BY DEF TypeInv, FieldType

LEMMA ReturnMoves ==
  ASSUME ThreadType, OpInv, NEW t \in Threads, Return(t), UNCHANGED batch,
         m_mutex \in MutexStates,
         abort' \in {"none", "race", "addEvent", "triggerEvent", "cancelAll"}
  PROVE  ThreadType' /\ OpInv' /\ m_mutex' \in MutexStates
<1>1. "free" \in Pcs /\ "free" \notin Located
  BY DEF Pcs, Located, Holding
<1>2. batch' \in [Threads -> SUBSET [fd : Fds, gen : 1..MaxGen, mask : Masks]]
  BY DEF ThreadType
<1>3. pc' = [pc EXCEPT ![t] = "free"] /\ op' = [op EXCEPT ![t] = NoOp]
  BY DEF Return
<1>4. ThreadType' /\ OpInv'
  BY <1>1, <1>2, <1>3, NoOpType, OpMoves
<1> QED BY <1>4, ReadersType DEF Return

LEMMA TypeEnter ==
  ASSUME TypeInv, NEW t \in Threads, NEW k \in Calls, NEW fd \in Fds,
         NEW e \in Events, Enter(t, k, fd, e)
  PROVE  TypeInv'
<1> USE TypeParts
<1>1. TableType' /\ m_size' >= 2
  BY TableSame, ReadersType DEF Enter, TableType
<1>2. FieldType' /\ KernelType'
  BY KernelSame DEF Enter, FieldType, ctxs
<1>3. UserType'
  <2>1. CASE k = "add"
    BY <2>1, Entry2 DEF Enter, UserType
  <2>2. CASE k # "add"
    BY <2>2 DEF Enter, UserType
  <2> QED BY <2>1, <2>2
<1>4. ThreadType' /\ OpInv'
  <2> DEFINE o == [NoOp EXCEPT !.kind = k, !.fd = fd, !.ev = e]
  <2>1. o \in Ops
    BY NoOpType DEF Ops, OpKinds
  <2>2. "reading" \in Pcs /\ "reading" \notin Located
    BY DEF Pcs, Located, Holding
  <2>3. batch' \in [Threads -> SUBSET [fd : Fds, gen : 1..MaxGen, mask : Masks]]
    BY DEF Enter, ThreadType
  <2>4. abort' \in {"none", "race", "addEvent", "triggerEvent", "cancelAll"}
    BY DEF Enter, ThreadType
  <2>5. pc' = [pc EXCEPT ![t] = "reading"] /\ op' = [op EXCEPT ![t] = o]
    BY DEF Enter
  <2> HIDE DEF o
  <2> QED BY <2>1, <2>2, <2>3, <2>4, <2>5, OpMoves
<1> QED BY <1>1, <1>2, <1>3, <1>4 DEF TypeInv, FieldType

LEMMA TypeLookUp ==
  ASSUME TypeInv, NEW t \in Threads, Found(t) \/ TooSmall(t) \/ NoContext(t)
  PROVE  TypeInv'
<1> USE TypeParts
<1>1. TableType' /\ m_size' >= 2
  BY TableSame, ReadersType DEF Found, TooSmall, NoContext, TableType
<1>2. FieldType' /\ KernelType' /\ UserType'
  BY KernelSame, UserSame DEF Found, TooSmall, NoContext, FieldType, ctxs
<1>3. batch' \in [Threads -> SUBSET [fd : Fds, gen : 1..MaxGen, mask : Masks]]
  BY DEF Found, TooSmall, NoContext, ThreadType
<1>4. abort' \in {"none", "race", "addEvent", "triggerEvent", "cancelAll"}
  BY DEF Found, TooSmall, NoContext, ThreadType
<1>5. ThreadType' /\ OpInv'
  <2>1. CASE Found(t)
    <3> DEFINE o == [op[t] EXCEPT !.gen = m_fdContexts[op[t].fd]]
    <3>1. o \in Ops /\ o.gen # 0
      <4>1. m_fdContexts[op[t].fd] \in 0..MaxGen /\ m_fdContexts[op[t].fd] # 0
        BY <2>1, OpAt DEF Found, TableType
      <4> QED BY <4>1, OpAt DEF Ops
    <3>2. pc' = [pc EXCEPT ![t] = "lock"] /\ op' = [op EXCEPT ![t] = o]
      BY <2>1 DEF Found
    <3>3. "lock" \in Pcs
      BY DEF Pcs
    <3> HIDE DEF o
    <3> QED BY <3>1, <3>2, <3>3, <1>3, <1>4, OpMoves
  <2>2. CASE TooSmall(t)
    <3>1. op[t].fd >= 2 /\ op[t] \in Ops
      <4>1. op[t].fd \in Nat /\ op[t] \in Ops
        BY OpAt
      <4>2. m_size <= op[t].fd
        BY <2>2 DEF TooSmall
      <4>3. m_size \in Nat /\ m_size >= 2
        BY DEF TableType
      <4> QED BY <4>1, <4>2, <4>3
    <3>2. pc' = [pc EXCEPT ![t] = "grow"] /\ op' = [op EXCEPT ![t] = op[t]]
      BY <2>2 DEF TooSmall, ThreadType
    <3>3. "grow" \in Pcs /\ "grow" \notin Located
      BY DEF Pcs, Located, Holding
    <3> QED BY <3>1, <3>2, <3>3, <1>3, <1>4, OpMoves
  <2>3. CASE NoContext(t)
    <3>1. pc' = [pc EXCEPT ![t] = "free"] /\ op' = [op EXCEPT ![t] = NoOp]
      BY <2>3 DEF NoContext
    <3>2. "free" \in Pcs /\ "free" \notin Located
      BY DEF Pcs, Located, Holding
    <3> QED BY <3>1, <3>2, <1>3, <1>4, NoOpType, OpMoves
  <2> QED BY <2>1, <2>2, <2>3
<1> QED BY <1>1, <1>2, <1>5 DEF TypeInv, FieldType

LEMMA ResizedType ==
  ASSUME TableType, NEW size \in Nat, contextResize(size), m_mutex' \in MutexStates
  PROVE  /\ TableType' /\ m_size' = size
         /\ \A fd \in Fds : fd < size => m_fdContexts'[fd] # 0
<1>1. \A fd \in Fds : /\ made[fd] \in 0..MaxGen
                       /\ m_fdContexts[fd] \in 0..MaxGen
                       /\ fd \in Nat
  BY DEF TableType
<1>2. \A fd \in Fds : /\ Resized(size)[fd] \in 0..MaxGen
                       /\ (Resized(size)[fd] # 0) = (fd < size)
  <2> SUFFICES ASSUME NEW fd \in Fds
               PROVE  /\ Resized(size)[fd] \in 0..MaxGen
                      /\ (Resized(size)[fd] # 0) = (fd < size)
    OBVIOUS
  <2>1. Resized(size)[fd] <= MaxGen
    BY DEF contextResize
  <2>2. Resized(size)[fd] = IF fd >= size THEN 0
                            ELSE IF m_fdContexts[fd] # 0 THEN m_fdContexts[fd]
                            ELSE made[fd] + 1
    BY DEF Resized
  <2>3. CASE fd >= size
    BY <2>2, <2>3, <1>1
  <2>4. CASE ~(fd >= size) /\ m_fdContexts[fd] # 0
    BY <2>2, <2>4, <1>1
  <2>5. CASE ~(fd >= size) /\ m_fdContexts[fd] = 0
    BY <2>1, <2>2, <2>5, <1>1
  <2> QED BY <2>3, <2>4, <2>5
<1>3. m_fdContexts' = Resized(size) /\ m_size' = size
  BY DEF contextResize
<1>4. m_fdContexts' \in [Fds -> 0..MaxGen]
  <2>1. Resized(size) = [fd \in Fds |-> Resized(size)[fd]]
    BY DEF Resized
  <2> HIDE DEF Resized
  <2> QED BY <2>1, <1>2, <1>3
<1>5. made' \in [Fds -> 0..MaxGen]
  BY <1>1, <1>2 DEF contextResize
<1>6. TableType'
  BY <1>2, <1>3, <1>4, <1>5 DEF TableType
<1> QED BY <1>2, <1>3, <1>6

LEMMA TypeGrow ==
  ASSUME TypeInv, NEW t \in Threads, Grow(t)
  PROVE  TypeInv'
<1> USE TypeParts
<1> DEFINE size == (op[t].fd * 3) \div 2
<1>1. size \in Nat /\ size >= 2 /\ op[t].fd < size
  <2>1. op[t].fd \in Nat /\ op[t].fd >= 2
    BY OpAt DEF Grow, OpInv
  <2> QED BY <2>1
<1>2. contextResize(size) /\ m_mutex' \in MutexStates
  BY ReadersType DEF Grow, TableType
<1> HIDE DEF size
<1>3. TableType' /\ m_size' >= 2 /\ m_fdContexts'[op[t].fd] # 0
  BY <1>1, <1>2, ResizedType, OpAt
<1>4. FieldType' /\ KernelType' /\ UserType'
  BY KernelSame, UserSame DEF Grow, FieldType, ctxs
<1>5. ThreadType' /\ OpInv'
  <2> DEFINE o == [op[t] EXCEPT !.gen = m_fdContexts'[op[t].fd]]
  <2>1. o \in Ops /\ o.gen # 0
    <3>1. m_fdContexts'[op[t].fd] \in 0..MaxGen
      BY <1>3, OpAt DEF TableType
    <3> QED BY <3>1, <1>3, OpAt DEF Ops
  <2>2. pc' = [pc EXCEPT ![t] = "lock"] /\ op' = [op EXCEPT ![t] = o]
    BY DEF Grow
  <2>3. "lock" \in Pcs
    BY DEF Pcs
  <2>4. batch' \in [Threads -> SUBSET [fd : Fds, gen : 1..MaxGen, mask : Masks]]
    BY DEF Grow, ThreadType
  <2>5. abort' \in {"none", "race", "addEvent", "triggerEvent", "cancelAll"}
    BY DEF Grow, ThreadType
  <2> HIDE DEF o
  <2> QED BY <2>1, <2>2, <2>3, <2>4, <2>5, OpMoves
<1> QED BY <1>3, <1>4, <1>5 DEF TypeInv, FieldType

LEMMA LockType ==
  ASSUME TypeInv, NEW t \in Threads, pc[t] \in Located,
         Hold(t) \/ Unlock(t) \/ UNCHANGED lock
  PROVE  lock' \in [Ctxs -> Threads \cup {Null}]
BY CtxType1 DEF TypeInv, Hold, Unlock

LEMMA LocatedAt ==
  ASSUME TypeInv, NEW t \in Threads, pc[t] \in Located
  PROVE  /\ Ctx(t) \in Ctxs /\ events[Ctx(t)] \in SUBSET Events
         /\ op[t].fd \in Fds /\ op[t].gen \in 1..MaxGen
<1>1. Ctx(t) \in Ctxs
  BY CtxType1
<1>2. op[t].gen \in 0..MaxGen /\ op[t].gen # 0 /\ op[t].fd \in Fds
  BY OpAt DEF TypeInv, OpInv
<1> QED BY <1>1, <1>2 DEF TypeInv

LEMMA TypeAddFails ==
  ASSUME TypeInv, NEW t \in Threads, AddFails(t)
  PROVE  TypeInv'
<1> USE TypeParts
<1>1. abort' \in {"none", "race", "addEvent", "triggerEvent", "cancelAll"}
  BY DEF AddFails, ThreadType
<1>2. ThreadType' /\ OpInv' /\ m_mutex' \in MutexStates
  BY <1>1, ReturnMoves DEF AddFails, TableType
<1>3. TableType' /\ m_size' >= 2
  BY <1>2, TableSame DEF AddFails
<1>4. FieldType' /\ KernelType'
  BY KernelSame DEF AddFails, FieldType, ctxs
<1>5. UserType'
  <2>1. /\ user' = [user EXCEPT ![op[t].fd][op[t].ev] = "idle"]
        /\ sched' = sched /\ left' = left
    BY DEF AddFails
  <2>2. op[t].fd \in Fds /\ op[t].ev \in Events
    BY OpAt
  <2> QED BY <2>1, <2>2, Entry2 DEF UserType
<1> QED BY <1>2, <1>3, <1>4, <1>5 DEF TypeInv, FieldType

LEMMA TypeAddAsserts ==
  ASSUME TypeInv, NEW t \in Threads, AddAsserts(t)
  PROVE  TypeInv'
BY DEF AddAsserts, TypeInv, table, ctxs, kernel, users, TableType, KernelType,
       UserType, ThreadType, OpInv

LEMMA TypeAddRegisters ==
  ASSUME TypeInv, NEW t \in Threads, AddRegisters(t)
  PROVE  TypeInv'
<1> USE TypeParts
<1>0. pc[t] \in Located
  BY DEF AddRegisters, Locking, Located
<1>1. TableType' /\ m_size' >= 2
  BY TableSame DEF AddRegisters, TableType
<1>2. FieldType'
  BY <1>0, LockType DEF AddRegisters, FieldType, ctxs
<1>3. KernelType'
  <2>1. AddMask(Ctx(t), op[t].ev) \in SUBSET Events
    BY <1>0, LocatedAt, OpAt DEF AddMask
  <2>2. EpollCtl(op[t].fd, op[t].gen, AddMask(Ctx(t), op[t].ev)) /\ UNCHANGED ready
    BY DEF AddRegisters
  <2> QED BY <2>1, <2>2, <1>0, LocatedAt, EpollCtlType
<1>4. UserType'
  BY UserSame DEF AddRegisters
<1>5. ThreadType' /\ OpInv'
  <2>1. pc' = [pc EXCEPT ![t] = "added"] /\ op' = [op EXCEPT ![t] = op[t]]
    BY DEF AddRegisters, ThreadType
  <2>2. "added" \in Pcs /\ op[t] \in Ops /\ op[t].gen # 0
    BY <1>0, OpAt DEF Pcs, OpInv
  <2>3. batch' \in [Threads -> SUBSET [fd : Fds, gen : 1..MaxGen, mask : Masks]]
    BY DEF AddRegisters, ThreadType
  <2>4. abort' \in {"none", "race", "addEvent", "triggerEvent", "cancelAll"}
    BY DEF AddRegisters, ThreadType
  <2> QED BY <2>1, <2>2, <2>3, <2>4, OpMoves
<1> QED BY <1>1, <1>2, <1>3, <1>4, <1>5 DEF TypeInv, FieldType

LEMMA TypeStores ==
  ASSUME TypeInv, NEW t \in Threads, AddStores(t) \/ DelStores(t)
  PROVE  TypeInv'
<1> USE TypeParts
<1>0. pc[t] \in Located
  BY DEF AddStores, DelStores, Located, Holding
<1>1. abort' \in {"none", "race", "addEvent", "triggerEvent", "cancelAll"}
  BY DEF AddStores, DelStores, ThreadType
<1>2. Return(t) /\ Unlock(t) /\ UNCHANGED <<table, kernel, ready, batch>>
  BY DEF AddStores, DelStores
<1>3. ThreadType' /\ OpInv' /\ m_mutex' \in MutexStates
  BY <1>1, <1>2, ReturnMoves DEF TableType
<1>4. TableType' /\ m_size' >= 2 /\ KernelType'
  BY <1>2, <1>3, TableSame, KernelSame
<1>5. FieldType'
  <2>1. lock' \in [Ctxs -> Threads \cup {Null}]
    BY <1>0, <1>2, LockType
  <2>2. Ctx(t) \in Ctxs /\ op[t].ev \in Events
    BY <1>0, CtxType1, OpAt
  <2>3. CASE AddStores(t)
    BY <2>1, <2>2, <2>3 DEF AddStores, AddCount, FieldType
  <2>4. CASE DelStores(t)
    BY <2>1, <2>2, <2>4 DEF DelStores, resetContext, FieldType
  <2> QED BY <2>3, <2>4
<1>6. UserType'
  <2>1. \E v \in {"idle", "waiting"} : user' = [user EXCEPT ![op[t].fd][op[t].ev] = v]
    BY DEF AddStores, DelStores
  <2>2. sched' = sched /\ left' = left
    BY DEF AddStores, DelStores
  <2>3. op[t].fd \in Fds /\ op[t].ev \in Events
    BY OpAt
  <2> QED BY <2>1, <2>2, <2>3, Entry2 DEF UserType
<1> QED BY <1>3, <1>4, <1>5, <1>6 DEF TypeInv, FieldType

LEMMA TypeNothing ==
  ASSUME TypeInv, NEW t \in Threads, EventMissing(t) \/ NothingToCancel(t)
  PROVE  TypeInv'
<1> USE TypeParts
<1>1. /\ Return(t)
      /\ UNCHANGED <<table, m_pendingEventCount, ctxs, lock, kernel, ready, users,
                     batch, abort>>
  BY DEF EventMissing, NothingToCancel
<1>2. abort' \in {"none", "race", "addEvent", "triggerEvent", "cancelAll"}
  BY <1>1 DEF ThreadType
<1>3. ThreadType' /\ OpInv' /\ m_mutex' \in MutexStates
  BY <1>1, <1>2, ReturnMoves DEF TableType
<1>4. TableType' /\ m_size' >= 2 /\ KernelType' /\ UserType'
  BY <1>1, <1>3, TableSame, KernelSame, UserSame
<1>5. FieldType'
  BY <1>1 DEF FieldType, ctxs
<1> QED BY <1>3, <1>4, <1>5 DEF TypeInv, FieldType

LEMMA TypeLeave ==
  ASSUME TypeInv, NEW t \in Threads, EventLeaves(t) \/ AllLeave(t)
  PROVE  TypeInv'
<1> USE TypeParts
<1>0. pc[t] \in Located
  BY DEF EventLeaves, AllLeave, Locking, Located
<1>1. TableType' /\ m_size' >= 2 /\ UserType'
  BY TableSame, UserSame DEF EventLeaves, AllLeave, TableType
<1>2. FieldType'
  BY <1>0, LockType DEF EventLeaves, AllLeave, FieldType, ctxs
<1>3. KernelType'
  <2>1. PICK evs \in SUBSET Events : EpollCtl(op[t].fd, op[t].gen, evs)
    BY <1>0, LocatedAt DEF EventLeaves, AllLeave
  <2>2. UNCHANGED ready
    BY DEF EventLeaves, AllLeave
  <2> QED BY <2>1, <2>2, <1>0, LocatedAt, EpollCtlType
<1>4. ThreadType' /\ OpInv'
  <2>1. PICK S \in SUBSET Events :
          S # {} /\ op' = [op EXCEPT ![t] = [op[t] EXCEPT !.todo = S]]
    BY <1>0, LocatedAt, OpAt DEF EventLeaves, AllLeave
  <2>2. PICK p \in {"deleted", "trigger"} : pc' = [pc EXCEPT ![t] = p]
    BY DEF EventLeaves, AllLeave
  <2>3. batch' \in [Threads -> SUBSET [fd : Fds, gen : 1..MaxGen, mask : Masks]]
    BY DEF EventLeaves, AllLeave, ThreadType
  <2>4. abort' \in {"none", "race", "addEvent", "triggerEvent", "cancelAll"}
    BY DEF EventLeaves, AllLeave, ThreadType
  <2> DEFINE o == [op[t] EXCEPT !.todo = S]
  <2>5. o \in Ops /\ o.gen # 0 /\ o.todo # {}
    BY <1>0, <2>1, OpAt DEF Ops, OpInv
  <2>6. p \in Pcs /\ p # "grow"
    BY DEF Pcs
  <2> HIDE DEF o
  <2> QED BY <2>1, <2>2, <2>3, <2>4, <2>5, <2>6, OpMoves DEF o
<1> QED BY <1>1, <1>2, <1>3, <1>4 DEF TypeInv, FieldType

Batches == SUBSET [fd : Fds, gen : 1..MaxGen, mask : Masks]

LEMMA TypeEpollWait ==
  ASSUME TypeInv, NEW t \in Threads, NEW fds \in SUBSET rdlist, EpollWait(t, fds)
  PROVE  TypeInv'
<1> USE TypeParts
<1>1. TableType' /\ m_size' >= 2 /\ UserType' /\ FieldType'
  BY TableSame, UserSame DEF EpollWait, TableType, FieldType, ctxs
<1>2. KernelType'
  BY DEF EpollWait, KernelType
<1>3. {b \in {Entry(fd) : fd \in fds} : b.mask # {}} \in Batches
  <2>1. ASSUME NEW fd \in fds
        PROVE  Entry(fd) \in [fd : Fds, gen : 1..MaxGen, mask : Masks]
    <3>1. fd \in Fds /\ interest[fd].gen # 0
      BY DEF KernelType
    <3>2. interest[fd].gen \in 1..MaxGen
      BY <3>1 DEF KernelType
    <3>3. Reports(fd, interest[fd].events) \in Masks
      BY <3>1 DEF KernelType, Reports, Masks
    <3> QED BY <3>1, <3>2, <3>3 DEF Entry
  <2> QED BY <2>1 DEF Batches
<1>4. batch' \in [Threads -> Batches]
  BY <1>3 DEF EpollWait, ThreadType, Batches
<1>5. ThreadType' /\ OpInv'
  BY <1>4 DEF EpollWait, ThreadType, OpInv, Batches
<1> QED BY <1>1, <1>2, <1>5 DEF TypeInv, FieldType

LEMMA EntryAt ==
  ASSUME ThreadType, NEW t \in Threads, NEW b \in batch[t]
  PROVE  b.fd \in Fds /\ b.gen \in 1..MaxGen /\ b.mask \in Masks
BY DEF ThreadType

LEMMA TypeEventStale ==
  ASSUME TypeInv, NEW t \in Threads, NEW b \in batch[t], NEW c \in Ctxs,
         EventStale(t, b, c)
  PROVE  TypeInv'
<1> USE TypeParts
<1>1. TableType' /\ m_size' >= 2 /\ UserType' /\ FieldType' /\ KernelType'
  BY TableSame, UserSame, KernelSame DEF EventStale, TableType, FieldType, ctxs
<1>2. batch' = [batch EXCEPT ![t] = @ \ {b}]
  BY DEF EventStale, Polling
<1>3. ThreadType' /\ OpInv'
  BY <1>2 DEF EventStale, ThreadType, OpInv
<1> QED BY <1>1, <1>3 DEF TypeInv, FieldType

LEMMA RealType ==
  ASSUME NEW b, NEW evs \in SUBSET Events
  PROVE  RealEvents(b, evs) \in SUBSET Events
BY DEF RealEvents

Gens == 0..MaxGen

(* The local variables of idle() when it starts on an entry.               *)
Polled(n, f, g, S) == [n EXCEPT !.kind = "poll", !.fd = f, !.gen = g, !.todo = S]

LEMMA PollOp ==
  ASSUME NEW n \in Ops, NEW f \in Fds, NEW g \in Gens, NEW S \in SUBSET Events
  PROVE  /\ Polled(n, f, g, S) \in Ops
         /\ Polled(n, f, g, S).kind = "poll" /\ Polled(n, f, g, S).fd = f
         /\ Polled(n, f, g, S).gen = g /\ Polled(n, f, g, S).todo = S
BY DEF Polled, Ops, OpKinds, Gens

LEMMA TypeEventFires ==
  ASSUME TypeInv, NEW t \in Threads, NEW b \in batch[t], NEW c \in Ctxs,
         EventFires(t, b, c)
  PROVE  TypeInv'
<1> USE TypeParts
<1> DEFINE real == RealEvents(b, events[c])
<1>0. /\ events[c] \in SUBSET Events /\ real \in SUBSET Events
      /\ b.fd \in Fds /\ b.gen \in 1..MaxGen
  BY EntryAt, RealType DEF TypeInv
<1>1. TableType' /\ m_size' >= 2 /\ UserType'
  BY TableSame, UserSame DEF EventFires, TableType
<1>2. FieldType'
  BY DEF EventFires, FieldType, ctxs
<1>3. KernelType'
  <2>1. LeftEvents(events[c], real) \in SUBSET Events
    BY <1>0 DEF LeftEvents
  <2>2. EpollCtl(b.fd, b.gen, LeftEvents(events[c], real)) /\ UNCHANGED ready
    BY DEF EventFires
  <2> QED BY <2>1, <2>2, <1>0, EpollCtlType
<1>4. ThreadType' /\ OpInv'
  <2> DEFINE o == Polled(NoOp, b.fd, b.gen, real)
  <2>0. real # {}
    BY DEF EventFires, Stale
  <2>1. o \in Ops /\ o.gen # 0 /\ o.todo # {}
    <3> HIDE DEF real
    <3>1. b.gen \in Gens /\ b.gen # 0
      BY <1>0 DEF Gens
    <3>2. o \in Ops /\ o.gen = b.gen /\ o.todo = real
      <4>1. real \in SUBSET Events /\ b.fd \in Fds
        BY <1>0
      <4>2. \A f \in Fds, g \in Gens, S \in SUBSET Events :
              Polled(NoOp, f, g, S) \in Ops
        BY NoOpType, PollOp
      <4>3. Polled(NoOp, b.fd, b.gen, real) \in Ops
        BY <4>1, <4>2, <3>1, Zenon
      <4>4. /\ Polled(NoOp, b.fd, b.gen, real).gen = b.gen
            /\ Polled(NoOp, b.fd, b.gen, real).todo = real
        BY NoOpType DEF Polled, Ops
      <4> QED BY <4>3, <4>4
    <3> HIDE DEF o
    <3> QED BY <2>0, <3>1, <3>2
  <2>3. pc' = [pc EXCEPT ![t] = "trigger"] /\ op' = [op EXCEPT ![t] = o]
    BY DEF EventFires, Polled
  <2>4. batch' \in [Threads -> SUBSET [fd : Fds, gen : 1..MaxGen, mask : Masks]]
    BY DEF EventFires, Polling, ThreadType
  <2>5. abort' \in {"none", "race", "addEvent", "triggerEvent", "cancelAll"}
    BY DEF EventFires, ThreadType
  <2>6. "trigger" \in Pcs
    BY DEF Pcs
  <2> HIDE DEF o
  <2> QED BY <2>1, <2>3, <2>4, <2>5, <2>6, OpMoves
<1> QED BY <1>1, <1>2, <1>3, <1>4 DEF TypeInv, FieldType

LEMMA FirstAt ==
  ASSUME TypeInv, NEW t \in Threads, pc[t] \in {"trigger", "count"}
  PROVE  First(op[t].todo) \in op[t].todo /\ First(op[t].todo) \in Events
<1>1. op[t].todo \in SUBSET Events /\ op[t].todo # {}
  BY OpAt DEF TypeInv, OpInv
<1>2. First(op[t].todo) \in op[t].todo
  BY <1>1, FirstType
<1> QED BY <1>1, <1>2

LEMMA TypeTrigger ==
  ASSUME TypeInv, NEW t \in Threads, Trigger(t)
  PROVE  TypeInv'
<1> USE TypeParts
<1> DEFINE e == First(op[t].todo)
<1>0. /\ pc[t] \in Located /\ Ctx(t) \in Ctxs /\ e \in Events /\ op[t].fd \in Fds
      /\ op[t].gen # 0 /\ op[t].todo # {}
  BY FirstAt, CtxType1, OpAt DEF Trigger, Located, Holding, OpInv
<1>1. TableType' /\ m_size' >= 2 /\ KernelType'
  BY TableSame, KernelSame DEF Trigger, TableType
<1>2. triggerEvent(t, e)
  BY DEF Trigger
<1> HIDE DEF e
<1>3. FieldType'
  BY <1>0, <1>2 DEF Trigger, triggerEvent, FieldType
<1>4. UserType'
  <2>1. sched' = [sched EXCEPT ![op[t].fd][e] = sched[op[t].fd][e] + 1]
    BY <1>2 DEF triggerEvent
  <2>2. sched[op[t].fd][e] + 1 \in Nat
    <3>1. sched[op[t].fd] \in [Events -> Nat]
      BY <1>0 DEF UserType
    <3>2. sched[op[t].fd][e] \in Nat
      BY <1>0, <3>1
    <3> QED BY <3>2
  <2>3. user' = user /\ left' = left
    BY DEF Trigger
  <2> QED BY <1>0, <2>1, <2>2, <2>3, Entry2 DEF UserType
<1>5. ThreadType' /\ OpInv'
  <2>1. pc' = [pc EXCEPT ![t] = "count"] /\ op' = [op EXCEPT ![t] = op[t]]
    BY DEF Trigger, ThreadType
  <2>2. batch' \in [Threads -> SUBSET [fd : Fds, gen : 1..MaxGen, mask : Masks]]
    BY DEF Trigger, ThreadType
  <2>3. abort' \in {"none", "race", "addEvent", "triggerEvent", "cancelAll"}
    BY <1>2 DEF triggerEvent, ThreadType
  <2>4. "count" \in Pcs /\ op[t] \in Ops
    BY OpAt DEF Pcs
  <2> QED BY <1>0, <2>1, <2>2, <2>3, <2>4, OpMoves
<1> QED BY <1>1, <1>3, <1>4, <1>5 DEF TypeInv, FieldType

LEMMA TypeCountNext ==
  ASSUME TypeInv, NEW t \in Threads, CountNext(t)
  PROVE  TypeInv'
<1> USE TypeParts
<1>1. TableType' /\ m_size' >= 2 /\ KernelType' /\ UserType'
  BY TableSame, KernelSame, UserSame DEF CountNext, TableType
<1>2. FieldType'
  BY DEF CountNext, FieldType, ctxs
<1>3. ThreadType' /\ OpInv'
  <2> DEFINE rest == op[t].todo \ {First(op[t].todo)}
  <2> DEFINE o == [op[t] EXCEPT !.todo = rest]
  <2>1. rest # {} /\ pc[t] = "count"
    BY DEF CountNext
  <2>2. o \in Ops /\ o.gen # 0 /\ o.todo # {}
    BY <2>1, OpAt DEF Ops, OpInv, Located, Holding
  <2>3. pc' = [pc EXCEPT ![t] = "trigger"] /\ op' = [op EXCEPT ![t] = o]
    BY DEF CountNext
  <2>4. batch' \in [Threads -> SUBSET [fd : Fds, gen : 1..MaxGen, mask : Masks]]
    BY DEF CountNext, ThreadType
  <2>5. abort' \in {"none", "race", "addEvent", "triggerEvent", "cancelAll"}
    BY DEF CountNext, ThreadType
  <2>6. "trigger" \in Pcs
    BY DEF Pcs
  <2> HIDE DEF o
  <2> QED BY <2>2, <2>3, <2>4, <2>5, <2>6, OpMoves
<1> QED BY <1>1, <1>2, <1>3 DEF TypeInv, FieldType

LEMMA TypeCountEnds ==
  ASSUME TypeInv, NEW t \in Threads, CountEnds(t)
  PROVE  TypeInv'
<1> USE TypeParts
<1>0. pc[t] \in Located
  BY DEF CountEnds, Located, Holding
<1>1. KernelType' /\ UserType'
  BY KernelSame, UserSame DEF CountEnds
<1>2. FieldType'
  BY <1>0, LockType DEF CountEnds, CountLast, FieldType, ctxs
<1>3. /\ pc' = [pc EXCEPT ![t] = "free"] /\ op' = [op EXCEPT ![t] = NoOp]
      /\ m_mutex' \in MutexStates
  BY ReadersType DEF CountEnds, Return, TableType
<1>4. TableType' /\ m_size' >= 2
  BY <1>3, TableSame DEF CountEnds
<1>5. ThreadType' /\ OpInv'
  <2>1. "free" \in Pcs /\ "free" \notin Located
    BY DEF Pcs, Located, Holding
  <2>2. batch' \in [Threads -> SUBSET [fd : Fds, gen : 1..MaxGen, mask : Masks]]
    BY DEF CountEnds, ThreadType
  <2>3. abort' \in {"none", "race", "addEvent", "triggerEvent", "cancelAll"}
    BY DEF CountEnds, ThreadType
  <2> QED BY <1>3, <2>1, <2>2, <2>3, NoOpType, OpMoves
<1> QED BY <1>1, <1>2, <1>4, <1>5 DEF TypeInv, FieldType

(* Every step keeps the types.                                             *)
LEMMA TypeStep == TypeInv /\ [Next]_vars => TypeInv'
<1> SUFFICES ASSUME TypeInv, [Next]_vars PROVE TypeInv'
  OBVIOUS
<1>1. CASE Environment
  BY <1>1, TypeEnvironment
<1>2. CASE \E t \in Threads, k \in Calls, fd \in Fds, e \in Events : Enter(t, k, fd, e)
  BY <1>2, TypeEnter
<1>3. CASE \E t \in Threads : Call(t)
  BY <1>3, TypeLookUp, TypeGrow, TypeAddAsserts, TypeAddFails, TypeAddRegisters, TypeStores,
     TypeNothing, TypeLeave DEF Call
<1>4. CASE \E t \in Threads : Poll(t)
  BY <1>4, TypeEpollWait DEF Poll
<1>5. CASE \E t \in Threads : Dispatch(t)
  BY <1>5, TypeEventStale, TypeEventFires DEF Dispatch
<1>6. CASE \E t \in Threads : Wake(t)
  BY <1>6, TypeTrigger, TypeCountNext, TypeCountEnds DEF Wake
<1>7. CASE UNCHANGED vars
  BY <1>7 DEF vars, table, ctxs, kernel, users, TypeInv, TableType, KernelType,
     UserType, ThreadType, OpInv
<1> QED BY <1>1, <1>2, <1>3, <1>4, <1>5, <1>6, <1>7 DEF Next, Step, Done

-----------------------------------------------------------------------------
(* One wake-up for every fiber that waits, the exact counter of pending    *)
(* events, and the assertions of iomanager.cc.                             *)

HIDE IOManagerAssumption

(* The mutex of an FdContext is held between epoll_ctl and the unlock.     *)
LockAt(t) == pc[t] \in Holding => lock[Ctx(t)] = t
LockInv == \A t \in Threads : LockAt(t)

(* What addEvent relies on: its fiber does not wait yet, and no other      *)
(* thread adds the same event for it, unless the number was closed under a *)
(* fiber.                                                                  *)
AddInv ==
  /\ \A t \in Threads :
       /\ op[t].kind = "add" =>
            op[t].fd \in left \/ user[op[t].fd][op[t].ev] = "adding"
       /\ pc[t] = "added" => op[t].kind = "add"
  /\ \A t, u \in Threads :
       /\ op[t].kind = "add" /\ op[u].kind = "add"
       /\ op[t].fd = op[u].fd /\ op[t].ev = op[u].ev
       /\ op[t].fd \notin left
       => t = u

(* The numbers of the contexts of a descriptor.                            *)
Numbers == 1..MaxGen

(* A fiber that waits is in the run queue once and in no context, or in    *)
(* one context and not in the queue; one that does not wait is in neither. *)
(* Nothing of the kind is known of a number that was closed under a fiber. *)
Queued(fd, e) == sched[fd][e] = 1 /\ \A g \in Numbers : e \notin waiter[<<fd, g>>]
Registered(fd, e) ==
  /\ sched[fd][e] = 0
  /\ \E g \in Numbers :
       /\ e \in waiter[<<fd, g>>]
       /\ \A h \in Numbers \ {g} : e \notin waiter[<<fd, h>>]
Absent(fd, e) == sched[fd][e] = 0 /\ \A g \in Numbers : e \notin waiter[<<fd, g>>]
WaitAt(fd, e) ==
  IF user[fd][e] = "waiting" THEN Queued(fd, e) \/ Registered(fd, e)
  ELSE Absent(fd, e)
WaitInv ==
  /\ events = waiter
  /\ \A fd \in Fds \ left, e \in Events : WaitAt(fd, e)

(* The program waits for READ only, or for WRITE only.                     *)
OneWay == \A e, f \in Events : e = f

(* What the holder of the mutex knows of the events of its context.        *)
HeldAt(t) ==
  LET evs == events[Ctx(t)]  todo == op[t].todo IN
  /\ pc[t] = "added" => op[t].ev \notin evs
  /\ pc[t] = "deleted" => op[t].ev \in evs
  /\ pc[t] = "trigger" =>
       /\ op[t].kind # "poll" => todo \subseteq evs
       /\ op[t].kind = "cancelAll" => evs \subseteq todo
       /\ op[t].kind = "poll" /\ OneWay => todo \cap evs # {}
  /\ pc[t] = "count" =>
       /\ First(todo) \notin evs
       /\ op[t].kind # "poll" => todo \ {First(todo)} \subseteq evs
       /\ op[t].kind = "cancelAll" => evs \subseteq todo
HeldInv == \A t \in Threads : HeldAt(t)

(* The counter, which is a size_t: it never goes below 0, and is exact     *)
(* until an assertion fails.                                               *)
CountInv == m_pendingEventCount \in Nat /\ PendingExact

CoreInv ==
  /\ LockInv /\ CountInv
  /\ abort = "none" => AddInv /\ WaitInv /\ HeldInv

SafeInv == TypeInv /\ CoreInv

-----------------------------------------------------------------------------
(* How a step moves its thread.                                            *)
Others(t) == \A u \in Threads \ {t} : pc'[u] = pc[u] /\ op'[u] = op[u]

LEMMA Moves ==
  ASSUME ThreadType, NEW t \in Threads, NEW p, NEW o,
         pc' = [pc EXCEPT ![t] = p], op' = [op EXCEPT ![t] = o]
  PROVE  Others(t) /\ pc'[t] = p /\ op'[t] = o
BY DEF ThreadType, Others

LEMMA MovesPc ==
  ASSUME ThreadType, NEW t \in Threads, NEW p,
         pc' = [pc EXCEPT ![t] = p], op' = op
  PROVE  Others(t) /\ pc'[t] = p /\ op'[t] = op[t]
BY DEF ThreadType, Others

LEMMA NoOpIsNone == NoOp.kind = "none" /\ NoOp.todo = {}
BY DEF NoOp

(* Two threads never hold the mutex of the same context.                   *)
LEMMA HeldApart ==
  ASSUME LockInv, NEW t \in Threads, NEW u \in Threads, t # u,
         pc[t] \in Holding, pc[u] \in Holding
  PROVE  Ctx(t) # Ctx(u)
BY DEF LockInv, LockAt

LEMMA HeldNotNull ==
  ASSUME LockInv, NEW u \in Threads, pc[u] \in Holding
  PROVE  lock[Ctx(u)] # Null
BY IOManagerAssumption DEF LockInv, LockAt

LEMMA SameCtx ==
  ASSUME NEW u \in Threads, op'[u] = op[u]
  PROVE  Ctx(u)' = Ctx(u)
BY DEF Ctx

LEMMA LockFrame ==
  ASSUME LockInv, NEW t \in Threads, Others(t), LockAt(t)',
         \A u \in Threads \ {t} :
           pc[u] \in Holding => lock'[Ctx(u)] = lock[Ctx(u)]
  PROVE  LockInv'
<1> SUFFICES ASSUME NEW u \in Threads \ {t} PROVE LockAt(u)'
  BY DEF LockInv
<1>1. pc'[u] = pc[u] /\ Ctx(u)' = Ctx(u)
  BY SameCtx DEF Others
<1> QED BY <1>1 DEF LockInv, LockAt

LEMMA HeldOne ==
  ASSUME NEW u \in Threads, HeldAt(u), pc'[u] = pc[u], op'[u] = op[u],
         pc[u] \in Holding => events'[Ctx(u)] = events[Ctx(u)]
  PROVE  HeldAt(u)'
<1>1. Ctx(u)' = Ctx(u)
  BY SameCtx
<1>2. CASE pc[u] \notin Holding
  BY <1>2 DEF HeldAt, Holding
<1>3. CASE pc[u] \in Holding
  BY <1>1, <1>3 DEF HeldAt
<1> QED BY <1>2, <1>3

LEMMA HeldFrame ==
  ASSUME HeldInv, NEW t \in Threads, Others(t), HeldAt(t)',
         \A u \in Threads \ {t} :
           pc[u] \in Holding => events'[Ctx(u)] = events[Ctx(u)]
  PROVE  HeldInv'
<1> SUFFICES ASSUME NEW u \in Threads \ {t} PROVE HeldAt(u)'
  BY DEF HeldInv
<1>1. pc'[u] = pc[u] /\ op'[u] = op[u]
  BY DEF Others
<1> QED BY <1>1, HeldOne DEF HeldInv

LEMMA CountedSame ==
  ASSUME events' = events,
         \A u \in Threads : /\ (pc'[u] = "count") = (pc[u] = "count")
                            /\ pc[u] = "count" => op'[u] = op[u]
  PROVE  Counted' = Counted
BY DEF Counted, Ctx

(* A step that neither takes nor holds the mutex of a context.             *)
Quiet(t) ==
  /\ pc[t] \notin Holding /\ pc'[t] \notin Holding /\ Others(t)
  /\ UNCHANGED <<ctxs, lock, m_pendingEventCount>>

LEMMA QuietKeeps ==
  ASSUME NEW t \in Threads, Quiet(t)
  PROVE  /\ LockInv => LockInv'
         /\ HeldInv => HeldInv'
         /\ Counted' = Counted
<1>1. LockAt(t)' /\ HeldAt(t)'
  BY DEF Quiet, LockAt, HeldAt, Holding
<1>2. LockInv => LockInv'
  BY <1>1, LockFrame DEF Quiet
<1>3. HeldInv => HeldInv'
  BY <1>1, HeldFrame DEF Quiet, ctxs
<1>4. Counted' = Counted
  BY CountedSame DEF Quiet, Others, Holding, ctxs
<1> QED BY <1>2, <1>3, <1>4

(* A step that takes the mutex of the context c.                           *)
Takes(t, c) ==
  /\ pc[t] \notin Holding /\ pc'[t] # "count" /\ Others(t)
  /\ Ctx(t)' = c /\ lock[c] = Null /\ lock' = [lock EXCEPT ![c] = t]
  /\ UNCHANGED <<ctxs, m_pendingEventCount>>

LEMMA TakesKeeps ==
  ASSUME TypeInv, LockInv, NEW t \in Threads, NEW c \in Ctxs, Takes(t, c)
  PROVE  /\ LockInv'
         /\ HeldInv /\ HeldAt(t)' => HeldInv'
         /\ Counted' = Counted
<1>1. lock'[c] = t /\ \A d : d # c => lock'[d] = lock[d]
  BY DEF TypeInv, Takes
<1>2. LockAt(t)'
  BY <1>1 DEF Takes, LockAt
<1>3. LockInv'
  BY <1>1, <1>2, LockFrame, HeldNotNull DEF Takes
<1>4. HeldInv /\ HeldAt(t)' => HeldInv'
  BY HeldFrame DEF Takes, ctxs
<1>5. Counted' = Counted
  BY CountedSame DEF Takes, Others, Holding, ctxs
<1> QED BY <1>3, <1>4, <1>5

-----------------------------------------------------------------------------
(* Who waits.                                                              *)
LEMMA WaitSame ==
  ASSUME WaitInv, UNCHANGED <<ctxs, users>>
  PROVE  WaitInv'
BY DEF WaitInv, WaitAt, Queued, Registered, Absent, ctxs, users

(* The places of (fd, e) are unchanged.                                    *)
LEMMA WaitFrame ==
  ASSUME NEW fd \in Fds, NEW e \in Events, WaitAt(fd, e),
         user'[fd][e] = user[fd][e], sched'[fd][e] = sched[fd][e],
         \A g \in Numbers :
           (e \in waiter'[<<fd, g>>]) <=> (e \in waiter[<<fd, g>>])
  PROVE  WaitAt(fd, e)'
BY DEF WaitAt, Queued, Registered, Absent

(* A fiber that does not wait becomes another one that does not.           *)
LEMMA WaitIdle ==
  ASSUME WaitInv, UserType, NEW fd \in Fds, NEW e \in Events, NEW v,
         fd \in left \/ user[fd][e] # "waiting", v # "waiting",
         v \in {"idle", "adding", "waiting"},
         user' = [user EXCEPT ![fd][e] = v], UNCHANGED <<ctxs, sched, left>>
  PROVE  WaitInv'
<1> SUFFICES ASSUME NEW x \in Fds \ left, NEW y \in Events PROVE WaitAt(x, y)'
  BY DEF WaitInv, ctxs
<1>1. user'[x][y] = IF x = fd /\ y = e THEN v ELSE user[x][y]
  BY Entry2 DEF UserType
<1>2. WaitAt(x, y)
  BY DEF WaitInv
<1>3. waiter' = waiter /\ sched' = sched
  BY DEF ctxs
<1>4. CASE x = fd /\ y = e
  BY <1>1, <1>2, <1>3, <1>4 DEF WaitAt, Absent
<1>5. CASE ~(x = fd /\ y = e)
  BY <1>1, <1>2, <1>3, <1>5, WaitFrame
<1> QED BY <1>4, <1>5

(* A change of one entry of waiter reaches one fiber.                      *)
WaiterMoves(fd, k, e, S) ==
  /\ waiter' = [waiter EXCEPT ![<<fd, k>>] = S]
  /\ \A y \in Events \ {e} : (y \in S) <=> (y \in waiter[<<fd, k>>])

LEMMA WaiterElse ==
  ASSUME FieldType, NEW fd \in Fds, NEW k \in Numbers, NEW e \in Events, NEW S,
         WaiterMoves(fd, k, e, S)
  PROVE  /\ waiter'[<<fd, k>>] = S
         /\ \A g \in Numbers \ {k} : waiter'[<<fd, g>>] = waiter[<<fd, g>>]
         /\ \A x \in Fds, y \in Events, g \in Numbers :
              x # fd \/ y # e =>
                ((y \in waiter'[<<x, g>>]) <=> (y \in waiter[<<x, g>>]))
<1>1. <<fd, k>> \in Ctxs /\ \A x \in Fds, g \in Numbers : <<x, g>> \in Ctxs
  BY DEF Ctxs, Numbers
<1>2. waiter'[<<fd, k>>] = S
  BY <1>1 DEF FieldType, WaiterMoves
<1>3. \A x \in Fds, g \in Numbers :
        x # fd \/ g # k => waiter'[<<x, g>>] = waiter[<<x, g>>]
  BY <1>1 DEF FieldType, WaiterMoves
<1> QED BY <1>2, <1>3 DEF WaiterMoves

(* What the state knows of a fiber whose pointer is in the context.        *)
LEMMA WaiterIs ==
  ASSUME WaitInv, UserType, NEW fd \in Fds \ left, NEW e \in Events,
         NEW k \in Numbers, e \in waiter[<<fd, k>>]
  PROVE  /\ user[fd][e] = "waiting" /\ sched[fd][e] = 0
         /\ \A g \in Numbers \ {k} : e \notin waiter[<<fd, g>>]
<1>1. WaitAt(fd, e)
  BY DEF WaitInv
<1>2. Registered(fd, e) /\ user[fd][e] = "waiting"
  BY <1>1 DEF WaitAt, Queued, Absent
<1> QED BY <1>2 DEF Registered

LEMMA NotWaiting ==
  ASSUME WaitInv, NEW fd \in Fds \ left, NEW e \in Events,
         user[fd][e] # "waiting"
  PROVE  Absent(fd, e)
BY DEF WaitInv, WaitAt

-----------------------------------------------------------------------------
(* Who adds.                                                               *)
LEMMA AddSame ==
  ASSUME AddInv, user' = user, left' = left,
         \A u \in Threads :
           /\ op'[u].kind = "add" => /\ op[u].kind = "add"
                                     /\ op'[u].fd = op[u].fd /\ op'[u].ev = op[u].ev
           /\ pc'[u] = "added" => op'[u].kind = "add"
  PROVE  AddInv'
BY DEF AddInv

(* Whoever adds in the next state added before, and not for (fd, e) unless *)
(* the number was closed under a fiber.                                    *)
NoneAdds(fd, e) ==
  \A u \in Threads :
    /\ op'[u].kind = "add" =>
         /\ op[u].kind = "add" /\ op'[u].fd = op[u].fd /\ op'[u].ev = op[u].ev
         /\ fd \notin left => ~(op[u].fd = fd /\ op[u].ev = e)
    /\ pc'[u] = "added" => op'[u].kind = "add"

(* The fiber of (fd, e) changes, and nobody who adds is concerned.         *)
LEMMA AddElse ==
  ASSUME AddInv, UserType, ThreadType, NEW fd \in Fds, NEW e \in Events,
         NEW v \in {"idle", "adding", "waiting"},
         user' = [user EXCEPT ![fd][e] = v], left' = left,
         NoneAdds(fd, e)
  PROVE  AddInv'
<1>1. \A x \in Fds, y \in Events :
        ~(x = fd /\ y = e) => user'[x][y] = user[x][y]
  BY Entry2 DEF UserType
<1>2. \A u \in Threads : op[u].fd \in Fds /\ op[u].ev \in Events
  BY OpAt
<1>3. \A u \in Threads :
        op'[u].kind = "add" =>
          op'[u].fd \in left \/ user'[op'[u].fd][op'[u].ev] = "adding"
  BY <1>1, <1>2 DEF AddInv, NoneAdds
<1> QED BY <1>3 DEF AddInv, NoneAdds

(* The other threads are where they were.                                  *)
LEMMA AddOthers ==
  ASSUME AddInv, NEW t \in Threads, Others(t)
  PROVE  \A u \in Threads \ {t} :
           /\ op'[u].kind = "add" => /\ op[u].kind = "add"
                                     /\ op'[u].fd = op[u].fd /\ op'[u].ev = op[u].ev
           /\ pc'[u] = "added" => op'[u].kind = "add"
BY DEF AddInv, Others

(* Nobody adds for a fiber that is not in addEvent.                        *)
LEMMA NobodyAdds ==
  ASSUME AddInv, NEW fd, NEW e, fd \notin left, user[fd][e] # "adding",
         NEW u \in Threads, op[u].kind = "add"
  PROVE  ~(op[u].fd = fd /\ op[u].ev = e)
BY DEF AddInv

(* Where the induction starts.                                             *)
LEMMA SafeInit == Init => SafeInv
<1> SUFFICES ASSUME Init PROVE SafeInv
  OBVIOUS
<1>1. TypeInv
  BY TypeInit
<1>2. LockInv /\ HeldInv
  BY DEF Init, LockInv, LockAt, HeldInv, HeldAt, Holding
<1>3. AddInv
  BY NoOpIsNone DEF Init, AddInv
<1>4. WaitInv
  BY DEF Init, WaitInv, WaitAt, Absent, Ctxs, Numbers
<1>5. CountInv
  <2>1. Counted = {}
    BY DEF Init, Counted
  <2> QED BY <2>1, FS_EmptySet DEF Init, CountInv, PendingExact
<1> QED BY <1>1, <1>2, <1>3, <1>4, <1>5 DEF SafeInv, CoreInv

LEMMA CountSame ==
  ASSUME CountInv, abort = "none", Counted' = Counted,
         m_pendingEventCount' = m_pendingEventCount
  PROVE  CountInv'
BY DEF CountInv, PendingExact

(* The calls up to the mutex of the context.                               *)
LEMMA QuietSteps ==
  ASSUME TypeInv, NEW t \in Threads,
         \/ \E k \in Calls, fd \in Fds, e \in Events : Enter(t, k, fd, e)
         \/ Found(t) \/ TooSmall(t) \/ NoContext(t) \/ Grow(t)
         \/ AddFails(t) \/ EventMissing(t) \/ NothingToCancel(t)
  PROVE  Quiet(t)
<1>0. ThreadType
  BY DEF TypeInv
<1>1. \A p \in {"free", "reading", "grow", "lock"} : p \notin Holding
  BY DEF Holding
<1>2. ASSUME NEW k \in Calls, NEW fd \in Fds, NEW e \in Events, Enter(t, k, fd, e)
      PROVE  Quiet(t)
  <2>1. PICK o : pc' = [pc EXCEPT ![t] = "reading"] /\ op' = [op EXCEPT ![t] = o]
    BY <1>2 DEF Enter
  <2>2. pc[t] = "free" /\ UNCHANGED <<ctxs, lock, m_pendingEventCount>>
    BY <1>2 DEF Enter
  <2> QED BY <1>0, <1>1, <2>1, <2>2, Moves DEF Quiet
<1>3. CASE Found(t)
  <2>1. pc' = [pc EXCEPT ![t] = "lock"] /\ op' = [op EXCEPT ![t] = op'[t]]
    BY <1>0, <1>3 DEF Found, ThreadType
  <2> QED BY <1>0, <1>1, <1>3, <2>1, Moves DEF Found, Quiet
<1>4. CASE TooSmall(t)
  <2>1. /\ pc[t] = "reading" /\ pc' = [pc EXCEPT ![t] = "grow"] /\ op' = op
        /\ UNCHANGED <<ctxs, lock, m_pendingEventCount>>
    BY <1>4 DEF TooSmall
  <2>2. Others(t) /\ pc'[t] = "grow"
    BY <1>0, <2>1, MovesPc
  <2> QED BY <1>1, <2>1, <2>2 DEF Quiet
<1>5. CASE NoContext(t)
  BY <1>0, <1>1, <1>5, Moves DEF NoContext, Quiet
<1>6. CASE Grow(t)
  <2>1. pc' = [pc EXCEPT ![t] = "lock"] /\ op' = [op EXCEPT ![t] = op'[t]]
    BY <1>0, <1>6 DEF Grow, ThreadType
  <2> QED BY <1>0, <1>1, <1>6, <2>1, Moves DEF Grow, Quiet
<1>7. CASE AddFails(t)
  BY <1>0, <1>1, <1>7, Moves DEF AddFails, Locking, Return, Quiet
<1>8. CASE EventMissing(t)
  BY <1>0, <1>1, <1>8, Moves DEF EventMissing, Locking, Return, Quiet
<1>9. CASE NothingToCancel(t)
  BY <1>0, <1>1, <1>9, Moves DEF NothingToCancel, Locking, Return, Quiet
<1> QED BY <1>2, <1>3, <1>4, <1>5, <1>6, <1>7, <1>8, <1>9

LEMMA CoreLookUp ==
  ASSUME SafeInv, abort = "none", NEW t \in Threads,
         Found(t) \/ TooSmall(t) \/ NoContext(t) \/ Grow(t)
         \/ EventMissing(t) \/ NothingToCancel(t)
  PROVE  CoreInv'
<1>0. TypeInv /\ LockInv /\ CountInv /\ AddInv /\ WaitInv /\ HeldInv
  BY DEF SafeInv, CoreInv
<1>1. Quiet(t)
  BY <1>0, QuietSteps
<1>2. LockInv' /\ HeldInv' /\ Counted' = Counted
  BY <1>0, <1>1, QuietKeeps
<1>3. UNCHANGED <<ctxs, users>>
  BY DEF Found, TooSmall, NoContext, Grow, EventMissing, NothingToCancel
<1>4. WaitInv'
  BY <1>0, <1>3, WaitSame
<1>5. CountInv'
  BY <1>0, <1>1, <1>2, CountSame DEF Quiet
<1>6. AddInv'
  <2>1. /\ op'[t].kind = "add" => /\ op[t].kind = "add"
                                  /\ op'[t].fd = op[t].fd /\ op'[t].ev = op[t].ev
        /\ pc'[t] # "added"
    <3>1. ThreadType /\ op[t] \in Ops
      BY <1>0, OpAt DEF TypeInv
    <3>2. CASE Found(t) \/ Grow(t)
      BY <3>1, <3>2 DEF Found, Grow, ThreadType
    <3>3. CASE TooSmall(t)
      BY <3>1, <3>3 DEF TooSmall, ThreadType
    <3>4. CASE NoContext(t) \/ EventMissing(t) \/ NothingToCancel(t)
      <4>1. pc' = [pc EXCEPT ![t] = "free"] /\ op' = [op EXCEPT ![t] = NoOp]
        BY <3>4 DEF NoContext, EventMissing, NothingToCancel, Return
      <4>2. pc'[t] = "free" /\ op'[t] = NoOp
        BY <3>1, <4>1, Moves
      <4> QED BY <4>2, NoOpIsNone
    <3> QED BY <3>2, <3>3, <3>4
  <2>2. Others(t) /\ user' = user /\ left' = left
    BY <1>1, <1>3 DEF Quiet, users
  <2> QED BY <1>0, <2>1, <2>2, AddOthers, AddSame
<1> QED BY <1>2, <1>4, <1>5, <1>6 DEF CoreInv

LEMMA CoreEnter ==
  ASSUME SafeInv, abort = "none", NEW t \in Threads, NEW k \in Calls,
         NEW fd \in Fds, NEW e \in Events, Enter(t, k, fd, e)
  PROVE  CoreInv'
<1>0. TypeInv /\ LockInv /\ CountInv /\ AddInv /\ WaitInv /\ HeldInv
  BY DEF SafeInv, CoreInv
<1>1. Quiet(t)
  BY <1>0, QuietSteps
<1>2. LockInv' /\ HeldInv' /\ Counted' = Counted
  BY <1>0, <1>1, QuietKeeps
<1>3. CountInv'
  BY <1>0, <1>1, <1>2, CountSame DEF Quiet
<1>4. UserType /\ ThreadType
  BY <1>0 DEF TypeInv
<1>5. op'[t].kind = k /\ op'[t].fd = fd /\ op'[t].ev = e /\ pc'[t] = "reading"
  <2>1. NoOp \in Ops
    BY NoOpType
  <2> DEFINE o == [NoOp EXCEPT !.kind = k, !.fd = fd, !.ev = e]
  <2>2. o.kind = k /\ o.fd = fd /\ o.ev = e
    BY <2>1 DEF Ops
  <2>3. pc' = [pc EXCEPT ![t] = "reading"] /\ op' = [op EXCEPT ![t] = o]
    BY DEF Enter
  <2> HIDE DEF o
  <2>4. pc'[t] = "reading" /\ op'[t] = o
    BY <1>4, <2>3, Moves
  <2> QED BY <2>2, <2>4
<1>6. Others(t) /\ UNCHANGED <<ctxs, sched, left>>
  BY <1>1 DEF Quiet, Enter
<1>7. CASE k # "add"
  <2>1. user' = user
    BY <1>7 DEF Enter
  <2>2. AddInv'
    BY <1>0, <1>5, <1>6, <1>7, <2>1, AddOthers, AddSame
  <2>3. WaitInv'
    BY <1>0, <1>6, <2>1, WaitSame DEF users
  <2> QED BY <1>2, <1>3, <2>2, <2>3 DEF CoreInv
<1>8. CASE k = "add"
  <2>1. /\ fd \in left \/ user[fd][e] = "idle"
        /\ user' = [user EXCEPT ![fd][e] = "adding"]
    BY <1>8 DEF Enter
  <2>2. WaitInv'
    BY <1>0, <1>4, <1>6, <2>1, WaitIdle
  <2>3. user'[fd][e] = "adding" /\ \A x \in Fds, y \in Events :
          ~(x = fd /\ y = e) => user'[x][y] = user[x][y]
    BY <1>4, <2>1, Entry2 DEF UserType
  <2>4. \A u \in Threads \ {t} : op[u].kind = "add" /\ fd \notin left =>
          ~(op[u].fd = fd /\ op[u].ev = e)
    BY <1>0, <2>1, NobodyAdds
  <2>5. \A u \in Threads : op[u].fd \in Fds /\ op[u].ev \in Events
    BY <1>4, OpAt
  <2>6. \A u \in Threads :
          /\ op'[u].kind = "add" =>
               op'[u].fd \in left' \/ user'[op'[u].fd][op'[u].ev] = "adding"
          /\ pc'[u] = "added" => op'[u].kind = "add"
    BY <1>0, <1>5, <1>6, <2>3, <2>4, <2>5 DEF Others, AddInv
  <2>7. \A u, w \in Threads :
          /\ op'[u].kind = "add" /\ op'[w].kind = "add"
          /\ op'[u].fd = op'[w].fd /\ op'[u].ev = op'[w].ev
          /\ op'[u].fd \notin left'
          => u = w
    BY <1>0, <1>5, <1>6, <2>4 DEF Others, AddInv
  <2>8. AddInv'
    BY <2>6, <2>7 DEF AddInv
  <2> QED BY <1>2, <1>3, <2>2, <2>8 DEF CoreInv
<1> QED BY <1>7, <1>8

LEMMA CoreAddFails ==
  ASSUME SafeInv, abort = "none", NEW t \in Threads, AddFails(t)
  PROVE  CoreInv'
<1>0. TypeInv /\ LockInv /\ CountInv /\ AddInv /\ WaitInv /\ HeldInv
  BY DEF SafeInv, CoreInv
<1>1. Quiet(t)
  BY <1>0, QuietSteps
<1>2. LockInv' /\ HeldInv' /\ Counted' = Counted
  BY <1>0, <1>1, QuietKeeps
<1>3. CountInv'
  BY <1>0, <1>1, <1>2, CountSame DEF Quiet
<1>4. UserType /\ ThreadType /\ op[t].fd \in Fds /\ op[t].ev \in Events
  BY <1>0, OpAt DEF TypeInv
<1>5. /\ op[t].kind = "add"
      /\ op[t].fd \in left \/ user[op[t].fd][op[t].ev] = "adding"
  BY <1>0 DEF AddFails, Locking, AddInv
<1>6. /\ user' = [user EXCEPT ![op[t].fd][op[t].ev] = "idle"]
      /\ UNCHANGED <<ctxs, sched, left>>
  BY DEF AddFails
<1>7. WaitInv'
  BY <1>0, <1>4, <1>5, <1>6, WaitIdle
<1>8. op'[t].kind = "none" /\ pc'[t] = "free" /\ Others(t)
  BY <1>4, Moves, NoOpIsNone DEF AddFails, Return
<1>9. AddInv'
  <2>1. \A u \in Threads \ {t} :
          op[u].kind = "add" /\ op[t].fd \notin left =>
            ~(op[u].fd = op[t].fd /\ op[u].ev = op[t].ev)
    BY <1>0, <1>5 DEF AddInv
  <2>2. NoneAdds(op[t].fd, op[t].ev)
    BY <1>0, <1>8, <2>1, AddOthers DEF NoneAdds
  <2>3. user' = [user EXCEPT ![op[t].fd][op[t].ev] = "idle"] /\ left' = left
    BY <1>6
  <2> QED BY <1>0, <1>4, <2>2, <2>3, AddElse
<1> QED BY <1>2, <1>3, <1>7, <1>9 DEF CoreInv

(* The calls, and idle(), take the mutex and call epoll_ctl.               *)
LEMMA CoreTakes ==
  ASSUME SafeInv, abort = "none", NEW t \in Threads, NEW c \in Ctxs, Takes(t, c),
         UNCHANGED users, HeldAt(t)',
         op'[t].kind = "add" => /\ op[t].kind = "add"
                                /\ op'[t].fd = op[t].fd /\ op'[t].ev = op[t].ev,
         pc'[t] = "added" => op'[t].kind = "add"
  PROVE  CoreInv'
<1>0. TypeInv /\ LockInv /\ CountInv /\ AddInv /\ WaitInv /\ HeldInv
  BY DEF SafeInv, CoreInv
<1>1. LockInv' /\ HeldInv' /\ Counted' = Counted
  BY <1>0, TakesKeeps
<1>2. CountInv'
  BY <1>0, <1>1, CountSame DEF Takes
<1>3. WaitInv'
  BY <1>0, WaitSame DEF Takes
<1>4. AddInv'
  BY <1>0, AddOthers, AddSame DEF Takes, users
<1> QED BY <1>1, <1>2, <1>3, <1>4 DEF CoreInv

LEMMA CoreAddRegisters ==
  ASSUME SafeInv, abort = "none", NEW t \in Threads, AddRegisters(t)
  PROVE  CoreInv'
<1>0. TypeInv /\ AddInv /\ WaitInv /\ ThreadType /\ UserType
  BY DEF SafeInv, CoreInv, TypeInv
<1>1. pc[t] = "lock" /\ op[t].kind = "add" /\ lock[Ctx(t)] = Null
  BY DEF AddRegisters, Locking
<1>2. pc[t] \in Located /\ pc[t] \notin Holding
  BY <1>1 DEF Located, Holding
<1>3. Ctx(t) \in Ctxs
  BY <1>0, <1>2, CtxType1
<1>4. Others(t) /\ pc'[t] = "added" /\ op'[t] = op[t]
  BY <1>0, MovesPc DEF AddRegisters
<1>5. Ctx(t)' = Ctx(t)
  BY <1>4, SameCtx
<1>6. Takes(t, Ctx(t)) /\ UNCHANGED users
  BY <1>1, <1>2, <1>4, <1>5 DEF Takes, AddRegisters, Hold
<1>7. HeldAt(t)'
  <2>1. op[t].ev \notin events[Ctx(t)] /\ events' = events
    BY DEF AddRegisters, Taken, ctxs
  <2> QED BY <1>4, <1>5, <2>1 DEF HeldAt
<1> QED BY <1>1, <1>3, <1>4, <1>6, <1>7, CoreTakes

(* The assertion of addEvent fails only on a number that was closed under  *)
(* a fiber.                                                                *)
LEMMA CoreAddAsserts ==
  ASSUME SafeInv, abort = "none", NEW t \in Threads, AddAsserts(t)
  PROVE  CoreInv' /\ abort' = "addEvent" /\ LeftBehind(t)'
<1>0. TypeInv /\ AddInv /\ WaitInv /\ ThreadType
  BY DEF SafeInv, CoreInv, TypeInv
<1>1. /\ pc[t] = "lock" /\ op[t].kind = "add" /\ op[t].ev \in events[Ctx(t)]
      /\ Locking(t, "add") /\ Taken(t)
  BY DEF AddAsserts, Locking, Taken
<1>2. op[t].fd \in Fds /\ op[t].ev \in Events /\ op[t].gen \in Numbers
  BY <1>0, <1>1, OpAt, LocatedAt DEF Located, Numbers
<1>3. op[t].fd \in left
  <2> SUFFICES ASSUME op[t].fd \notin left PROVE FALSE
    OBVIOUS
  <2>1. user[op[t].fd][op[t].ev] = "adding"
    BY <1>0, <1>1 DEF AddInv
  <2>2. Absent(op[t].fd, op[t].ev)
    BY <1>0, <1>2, <2>1, NotWaiting
  <2> QED BY <1>0, <1>1, <1>2, <2>2 DEF Absent, WaitInv, Ctx
<1>4. /\ UNCHANGED <<pc, op, ctxs, lock, m_pendingEventCount, users>>
      /\ abort' = "addEvent"
  BY DEF AddAsserts
<1>5. LeftBehind(t)'
  BY <1>1, <1>3, <1>4 DEF LeftBehind, Locking, Taken, Ctx, ctxs, users
<1>6. CoreInv'
  BY <1>4 DEF SafeInv, CoreInv, CountInv, PendingExact, LockInv, LockAt, Ctx
<1> QED BY <1>4, <1>5, <1>6

LEMMA CoreLeaves ==
  ASSUME SafeInv, abort = "none", NEW t \in Threads, EventLeaves(t) \/ AllLeave(t)
  PROVE  CoreInv'
<1>0. TypeInv /\ ThreadType
  BY DEF SafeInv, CoreInv, TypeInv
<1>1. pc[t] = "lock" /\ op[t].kind \in {"del", "cancel", "cancelAll"} /\ lock[Ctx(t)] = Null
  BY DEF EventLeaves, AllLeave, Locking
<1>2. pc[t] \in Located /\ pc[t] \notin Holding
  BY <1>1 DEF Located, Holding
<1>3. Ctx(t) \in Ctxs /\ op[t] \in Ops
  BY <1>0, <1>2, CtxType1, OpAt
<1>4. PICK S : /\ op' = [op EXCEPT ![t] = [op[t] EXCEPT !.todo = S]]
               /\ S \subseteq events[Ctx(t)]
               /\ op[t].kind \in {"del", "cancel"} => S = {op[t].ev}
               /\ op[t].kind = "cancelAll" => S = events[Ctx(t)]
  <2>1. CASE EventLeaves(t)
    <3>1. op' = [op EXCEPT ![t] = [op[t] EXCEPT !.todo = {op[t].ev}]]
      BY <1>0, <2>1 DEF EventLeaves, ThreadType
    <3>2. op[t].ev \in events[Ctx(t)] /\ op[t].kind # "cancelAll"
      BY <2>1 DEF EventLeaves, Locking
    <3> QED BY <3>1, <3>2
  <2>2. CASE AllLeave(t)
    <3>1. op' = [op EXCEPT ![t] = [op[t] EXCEPT !.todo = events[Ctx(t)]]]
      BY <1>0, <2>2 DEF AllLeave, ThreadType
    <3>2. op[t].kind = "cancelAll"
      BY <2>2 DEF AllLeave, Locking
    <3> QED BY <3>1, <3>2
  <2> QED BY <2>1, <2>2
<1>5. PICK p \in {"deleted", "trigger"} :
        /\ pc' = [pc EXCEPT ![t] = p]
        /\ p = "deleted" => op[t].kind = "del"
  BY DEF EventLeaves, AllLeave
<1>6. Others(t) /\ pc'[t] = p /\ op'[t] = [op[t] EXCEPT !.todo = S]
  BY <1>0, <1>4, <1>5, Moves
<1>7. /\ op'[t].kind = op[t].kind /\ op'[t].fd = op[t].fd /\ op'[t].gen = op[t].gen
      /\ op'[t].ev = op[t].ev /\ op'[t].todo = S
  BY <1>3, <1>6 DEF Ops
<1>8. Ctx(t)' = Ctx(t)
  BY <1>7 DEF Ctx
<1>9. events' = events /\ UNCHANGED users
  BY DEF EventLeaves, AllLeave, ctxs
<1>10. Takes(t, Ctx(t))
  BY <1>1, <1>2, <1>5, <1>6, <1>8 DEF Takes, EventLeaves, AllLeave, Hold
<1>11. HeldAt(t)'
  BY <1>1, <1>4, <1>5, <1>6, <1>7, <1>8, <1>9 DEF HeldAt
<1> QED BY <1>1, <1>3, <1>5, <1>6, <1>7, <1>9, <1>10, <1>11, CoreTakes

LEMMA CoreEventFires ==
  ASSUME SafeInv, abort = "none", NEW t \in Threads, NEW b \in batch[t],
         NEW c \in Ctxs, EventFires(t, b, c)
  PROVE  CoreInv'
<1>0. TypeInv /\ ThreadType
  BY DEF SafeInv, CoreInv, TypeInv
<1> DEFINE real == RealEvents(b, events[c])
           o == Polled(NoOp, b.fd, b.gen, real)
<1>9. real \cap events[c] # {}
  BY DEF EventFires, Stale
<1>1. pc' = [pc EXCEPT ![t] = "trigger"] /\ op' = [op EXCEPT ![t] = o]
  BY DEF EventFires, Polled
<1> HIDE DEF real
<1>2. o.kind = "poll" /\ o.fd = b.fd /\ o.gen = b.gen /\ o.todo = real
  BY NoOpType DEF Polled, Ops
<1> HIDE DEF o
<1>3. Others(t) /\ pc'[t] = "trigger" /\ op'[t] = o
  BY <1>0, <1>1, Moves
<1>4. pc[t] = "free" /\ c = <<b.fd, b.gen>> /\ lock[c] = Null
  BY DEF EventFires, Polling
<1>5. Ctx(t)' = c
  BY <1>2, <1>3, <1>4 DEF Ctx
<1>6. Takes(t, c) /\ UNCHANGED users
  BY <1>3, <1>4, <1>5 DEF Takes, EventFires, Holding
<1>7. HeldAt(t)'
  <2>1. op'[t].todo \cap events[c] # {}
    BY <1>9, <1>2, <1>3
  <2>2. events' = events
    BY DEF EventFires, ctxs
  <2> QED BY <1>2, <1>3, <1>5, <2>1, <2>2 DEF HeldAt
<1> QED BY <1>2, <1>3, <1>6, <1>7, CoreTakes

(* Nothing of the calls changes: the environment, epoll_wait, an entry of  *)
(* the batch that is stale.                                                *)
LEMMA CoreStill ==
  ASSUME CoreInv, abort = "none",
         UNCHANGED <<pc, op, ctxs, lock, m_pendingEventCount, users>>
  PROVE  CoreInv'
<1>1. LockInv'
  BY DEF CoreInv, LockInv, LockAt, Ctx
<1>2. HeldInv'
  BY HeldOne DEF CoreInv, HeldInv, ctxs
<1>3. AddInv'
  BY AddSame DEF CoreInv, AddInv, users
<1>4. WaitInv'
  BY WaitSame DEF CoreInv
<1>5. CountInv'
  BY CountedSame, CountSame DEF CoreInv, ctxs
<1> QED BY <1>1, <1>2, <1>3, <1>4, <1>5 DEF CoreInv

LEMMA CoreResume ==
  ASSUME SafeInv, abort = "none", NEW fd \in Fds, NEW e \in Events, Resume(fd, e)
  PROVE  CoreInv'
<1>0. TypeInv /\ LockInv /\ CountInv /\ AddInv /\ WaitInv /\ HeldInv
      /\ UserType /\ ThreadType
  BY DEF SafeInv, CoreInv, TypeInv
<1>1. /\ user' = [user EXCEPT ![fd][e] = "idle"] \/ (fd \in left /\ user' = user)
      /\ UNCHANGED <<pc, op, ctxs, lock, m_pendingEventCount, left>>
  BY DEF Resume
<1>2. LockInv'
  BY <1>0, <1>1 DEF LockInv, LockAt, Ctx
<1>3. HeldInv'
  BY <1>0, <1>1, HeldOne DEF HeldInv, ctxs
<1>4. CountInv'
  BY <1>0, <1>1, CountedSame, CountSame DEF ctxs
<1>5. sched[fd][e] > 0 /\ sched[fd][e] \in Nat
  BY <1>0 DEF Resume, UserType
<1>6. fd \notin left => user[fd][e] = "waiting" /\ Queued(fd, e)
  BY <1>0, <1>5 DEF WaitInv, WaitAt, Registered, Absent
<1>7. AddInv'
  <2>1. CASE user' = user
    BY <1>0, <1>1, <2>1, AddSame DEF AddInv
  <2>2. CASE user' = [user EXCEPT ![fd][e] = "idle"]
    <3>1. \A u \in Threads :
            op[u].kind = "add" /\ fd \notin left =>
              ~(op[u].fd = fd /\ op[u].ev = e)
      BY <1>0, <1>6, NobodyAdds
    <3>2. NoneAdds(fd, e)
      BY <1>0, <1>1, <3>1 DEF AddInv, NoneAdds
    <3> QED BY <1>0, <1>1, <2>2, <3>2, AddElse
  <2> QED BY <1>1, <2>1, <2>2
<1>8. WaitInv'
  <2> SUFFICES ASSUME NEW x \in Fds \ left, NEW y \in Events
               PROVE  WaitAt(x, y)'
    BY <1>0, <1>1 DEF WaitInv, ctxs
  <2>1. sched' = [sched EXCEPT ![fd][e] = sched[fd][e] - 1]
        /\ sched[fd][e] - 1 \in Nat
    BY <1>5 DEF Resume
  <2>2. sched'[x][y] = IF x = fd /\ y = e THEN sched[fd][e] - 1 ELSE sched[x][y]
    BY <1>0, <2>1, Entry2 DEF UserType
  <2>3. waiter' = waiter /\ WaitAt(x, y)
    BY <1>0, <1>1 DEF ctxs, WaitInv
  <2>4. CASE x = fd /\ y = e
    <3>1. sched'[x][y] = 0
      BY <1>6, <2>2, <2>4 DEF Queued
    <3>2. user'[x][y] = "idle"
      BY <1>0, <1>1, <2>4, Entry2 DEF UserType
    <3> QED BY <1>6, <2>3, <2>4, <3>1, <3>2 DEF WaitAt, Queued, Absent
  <2>5. CASE ~(x = fd /\ y = e)
    <3>1. user'[x][y] = user[x][y]
      BY <1>0, <1>1, <2>5, Entry2 DEF UserType
    <3> QED BY <2>2, <2>3, <2>5, <3>1, WaitFrame
  <2> QED BY <2>4, <2>5
<1> QED BY <1>2, <1>3, <1>4, <1>7, <1>8 DEF CoreInv

(* A number that is closed under a fiber is left out of the invariant, and *)
(* one whose fibers are all idle keeps them so.                            *)
LEMMA CoreClose ==
  ASSUME SafeInv, abort = "none", NEW fd \in Fds, Close(fd)
  PROVE  CoreInv'
<1>0. TypeInv /\ LockInv /\ CountInv /\ AddInv /\ WaitInv /\ HeldInv
      /\ UserType /\ ThreadType
  BY DEF SafeInv, CoreInv, TypeInv
<1>1. UNCHANGED <<pc, op, ctxs, lock, m_pendingEventCount, sched>>
  BY DEF Close
<1>2. left \subseteq left'
  BY DEF Close
<1>3. \A x \in Fds \ left', y \in Events : user'[x][y] = user[x][y]
  BY <1>0 DEF Close, UserType
<1>4. LockInv'
  BY <1>0, <1>1 DEF LockInv, LockAt, Ctx
<1>5. HeldInv'
  BY <1>0, <1>1, HeldOne DEF HeldInv, ctxs
<1>6. CountInv'
  BY <1>0, <1>1, CountedSame, CountSame DEF ctxs
<1>7. AddInv'
  <2>1. \A u \in Threads : op[u].fd \in Fds /\ op[u].ev \in Events
    BY <1>0, OpAt
  <2> QED BY <1>0, <1>1, <1>2, <1>3, <2>1 DEF AddInv
<1>8. WaitInv'
  <2> SUFFICES ASSUME NEW x \in Fds \ left', NEW y \in Events
               PROVE  WaitAt(x, y)'
    BY <1>0, <1>1 DEF WaitInv, ctxs
  <2>1. WaitAt(x, y)
    BY <1>0, <1>2 DEF WaitInv
  <2> QED BY <1>1, <1>3, <2>1, WaitFrame DEF ctxs
<1> QED BY <1>4, <1>5, <1>6, <1>7, <1>8 DEF CoreInv

-----------------------------------------------------------------------------
(* The counter.                                                            *)
CountedAt(c, e) ==
  \/ e \in events[c]
  \/ \E t \in Threads : pc[t] = "count" /\ c = Ctx(t) /\ e = First(op[t].todo)

LEMMA CountedIs ==
  /\ Counted \subseteq Ctxs \X Events /\ Counted' \subseteq Ctxs \X Events
  /\ \A c \in Ctxs, e \in Events :
       /\ <<c, e>> \in Counted <=> CountedAt(c, e)
       /\ <<c, e>> \in Counted' <=> CountedAt(c, e)'
BY DEF Counted, CountedAt

LEMMA CountedFinite == IsFiniteSet(Counted)
<1>1. IsFiniteSet(1..MaxGen)
  BY FS_Interval, IOManagerAssumption
<1>2. IsFiniteSet({"READ"} \cup {"WRITE"})
  BY FS_Singleton, FS_Union
<1>3. IsFiniteSet(Events)
  <2>1. Events \in SUBSET ({"READ"} \cup {"WRITE"})
    BY IOManagerAssumption
  <2> QED BY <1>2, <2>1, FS_Subset
<1>4. IsFiniteSet(Ctxs \X Events)
  BY <1>1, <1>3, FS_Product, IOManagerAssumption DEF Ctxs
<1>5. Counted \in SUBSET (Ctxs \X Events)
  BY DEF Counted
<1> QED BY <1>4, <1>5, FS_Subset

(* Nobody else counts down what the holder of the mutex works on.          *)
LEMMA CountsAlone ==
  ASSUME TypeInv, LockInv, NEW t \in Threads, pc[t] \in Holding, Others(t)
  PROVE  \A u \in Threads \ {t} :
           /\ pc[u] = "count" => Ctx(u) # Ctx(t)
           /\ (pc'[u] = "count") = (pc[u] = "count")
           /\ Ctx(u)' = Ctx(u) /\ op'[u] = op[u]
BY HeldApart, SameCtx DEF Others, Holding

LEMMA CountedPlus ==
  ASSUME TypeInv, LockInv, NEW t \in Threads, pc[t] \in Holding, Others(t),
         pc[t] # "count", pc'[t] # "count", NEW e \in Events,
         e \notin events[Ctx(t)],
         events' = [events EXCEPT ![Ctx(t)] = @ \cup {e}]
  PROVE  Cardinality(Counted') = Cardinality(Counted) + 1
<1>1. Ctx(t) \in Ctxs
  BY LocatedAt DEF Located
<1>2. \A d \in Ctxs : events'[d] = IF d = Ctx(t) THEN events[d] \cup {e} ELSE events[d]
  BY <1>1 DEF TypeInv
<1>3. \A u \in Threads \ {t} :
        /\ pc[u] = "count" => Ctx(u) # Ctx(t)
        /\ (pc'[u] = "count") = (pc[u] = "count")
        /\ Ctx(u)' = Ctx(u) /\ op'[u] = op[u]
  BY CountsAlone
<1>4. ~CountedAt(Ctx(t), e)
  BY <1>3 DEF CountedAt
<1>5. \A d \in Ctxs, y \in Events :
        CountedAt(d, y)' <=> (CountedAt(d, y) \/ (d = Ctx(t) /\ y = e))
  BY <1>2, <1>3 DEF CountedAt
<1>6. <<Ctx(t), e>> \notin Counted
  BY <1>1, <1>4, CountedIs
<1>7. Counted' = Counted \cup {<<Ctx(t), e>>}
  <2>1. \A d \in Ctxs, y \in Events :
          <<d, y>> \in Counted' <=> <<d, y>> \in Counted \cup {<<Ctx(t), e>>}
    BY <1>5, CountedIs
  <2>2. Counted \cup {<<Ctx(t), e>>} \subseteq Ctxs \X Events
    BY <1>1, CountedIs
  <2> QED BY <2>1, <2>2, CountedIs
<1> QED BY <1>6, <1>7, CountedFinite, FS_AddElement

(* The counter goes down with the event (c, e) of the holder.              *)
LEMMA CountedMinus ==
  ASSUME TypeInv, LockInv, NEW t \in Threads, pc[t] \in Holding, Others(t),
         pc'[t] # "count", NEW e \in Events, CountedAt(Ctx(t), e),
         pc[t] = "count" => e = First(op[t].todo),
         \A d \in Ctxs : events'[d] = IF d = Ctx(t) THEN events[d] \ {e} ELSE events[d]
  PROVE  /\ Cardinality(Counted') = Cardinality(Counted) - 1
         /\ Cardinality(Counted) \in Nat /\ Cardinality(Counted) > 0
<1>1. Ctx(t) \in Ctxs
  BY LocatedAt DEF Located
<1>3. \A u \in Threads \ {t} :
        /\ pc[u] = "count" => Ctx(u) # Ctx(t)
        /\ (pc'[u] = "count") = (pc[u] = "count")
        /\ Ctx(u)' = Ctx(u) /\ op'[u] = op[u]
  BY CountsAlone
<1>5. \A d \in Ctxs, y \in Events :
        CountedAt(d, y)' <=> (CountedAt(d, y) /\ ~(d = Ctx(t) /\ y = e))
  <2> SUFFICES ASSUME NEW d \in Ctxs, NEW y \in Events
               PROVE  CountedAt(d, y)' <=> (CountedAt(d, y) /\ ~(d = Ctx(t) /\ y = e))
    OBVIOUS
  <2>1. ASSUME NEW u \in Threads \ {t}
        PROVE  (pc'[u] = "count" /\ d = Ctx(u)' /\ y = First(op'[u].todo)) <=>
                 (/\ pc[u] = "count" /\ d = Ctx(u) /\ y = First(op[u].todo)
                  /\ ~(d = Ctx(t) /\ y = e))
    BY <1>3
  <2>2. (y \in events'[d]) <=> (y \in events[d] /\ ~(d = Ctx(t) /\ y = e))
    OBVIOUS
  <2> QED BY <2>1, <2>2 DEF CountedAt
<1>6. <<Ctx(t), e>> \in Counted
  BY <1>1, CountedIs
<1>7. Counted' = Counted \ {<<Ctx(t), e>>}
  <2>1. \A d \in Ctxs, y \in Events :
          <<d, y>> \in Counted' <=> <<d, y>> \in Counted \ {<<Ctx(t), e>>}
    BY <1>5, CountedIs
  <2> QED BY <2>1, CountedIs
<1>8. Cardinality(Counted) \in Nat /\ Cardinality(Counted) # 0
  BY <1>6, CountedFinite, FS_CardinalityType, FS_EmptySet
<1>9. Cardinality(Counted') = Cardinality(Counted) - 1
  BY <1>6, <1>7, CountedFinite, FS_RemoveElement
<1> QED BY <1>8, <1>9

(* triggerEvent leaves the event to be counted down.                       *)
LEMMA CountedKept ==
  ASSUME TypeInv, LockInv, NEW t \in Threads, pc[t] = "trigger", Others(t),
         pc'[t] = "count", op'[t] = op[t],
         First(op[t].todo) \in events[Ctx(t)],
         \A d \in Ctxs : events'[d] = IF d = Ctx(t) THEN events[d] \ {First(op[t].todo)}
                                      ELSE events[d]
  PROVE  Counted' = Counted
<1>0. pc[t] \in Holding /\ Ctx(t)' = Ctx(t)
  BY SameCtx DEF Holding
<1>1. Ctx(t) \in Ctxs
  BY <1>0, LocatedAt DEF Located
<1>3. \A u \in Threads \ {t} :
        /\ (pc'[u] = "count") = (pc[u] = "count")
        /\ Ctx(u)' = Ctx(u) /\ op'[u] = op[u]
  BY <1>0, CountsAlone
<1>5. \A d \in Ctxs, y \in Events : CountedAt(d, y)' <=> CountedAt(d, y)
  <2> SUFFICES ASSUME NEW d \in Ctxs, NEW y \in Events
               PROVE  CountedAt(d, y)' <=> CountedAt(d, y)
    OBVIOUS
  <2>1. ASSUME NEW u \in Threads \ {t}
        PROVE  (pc'[u] = "count" /\ d = Ctx(u)' /\ y = First(op'[u].todo)) <=>
                 (pc[u] = "count" /\ d = Ctx(u) /\ y = First(op[u].todo))
    BY <1>3
  <2>2. /\ (pc'[t] = "count" /\ d = Ctx(t)' /\ y = First(op'[t].todo)) <=>
             (d = Ctx(t) /\ y = First(op[t].todo))
        /\ pc[t] # "count"
    BY <1>0
  <2>3. (y \in events'[d]) <=>
          (y \in events[d] /\ ~(d = Ctx(t) /\ y = First(op[t].todo)))
    OBVIOUS
  <2> DEFINE P(u) == pc'[u] = "count" /\ d = Ctx(u)' /\ y = First(op'[u].todo)
             Q(u) == pc[u] = "count" /\ d = Ctx(u) /\ y = First(op[u].todo)
  <2>4. CountedAt(d, y)' <=> (y \in events'[d] \/ \E u \in Threads : P(u))
    BY DEF CountedAt
  <2>5. CountedAt(d, y) <=> (y \in events[d] \/ \E u \in Threads : Q(u))
    BY DEF CountedAt
  <2>6. /\ \A u \in Threads \ {t} : P(u) <=> Q(u)
        /\ ~Q(t) /\ (P(t) <=> (d = Ctx(t) /\ y = First(op[t].todo)))
    BY <2>1, <2>2
  <2> HIDE DEF P, Q
  <2>7. CASE d = Ctx(t) /\ y = First(op[t].todo)
    BY <2>4, <2>5, <2>6, <2>7
  <2>8. CASE ~(d = Ctx(t) /\ y = First(op[t].todo))
    BY <2>3, <2>4, <2>5, <2>6, <2>8
  <2> QED BY <2>7, <2>8
<1>6. \A d \in Ctxs, y \in Events : <<d, y>> \in Counted' <=> <<d, y>> \in Counted
  BY <1>5, CountedIs
<1>7. Counted' \subseteq Counted /\ Counted \subseteq Counted'
  <2>1. \A x \in Ctxs \X Events : x \in Counted' <=> x \in Counted
    BY <1>6
  <2> QED BY <2>1, CountedIs
<1> QED BY <1>7

-----------------------------------------------------------------------------
(* The steps inside the mutex.                                             *)
LEMMA Releases ==
  ASSUME TypeInv, LockInv, NEW t \in Threads, pc[t] \in Holding, Others(t),
         pc'[t] = "free", Unlock(t)
  PROVE  LockInv'
<1>1. \A d : d # Ctx(t) => lock'[d] = lock[d]
  BY DEF Unlock, TypeInv
<1>2. LockAt(t)'
  BY DEF LockAt, Holding
<1> QED BY <1>1, <1>2, HeldApart, LockFrame

LEMMA HeldElsewhere ==
  ASSUME TypeInv, LockInv, HeldInv, NEW t \in Threads, pc[t] \in Holding, Others(t),
         HeldAt(t)', \A d \in Ctxs \ {Ctx(t)} : events'[d] = events[d]
  PROVE  HeldInv'
<1>1. \A u \in Threads \ {t} :
        pc[u] \in Holding => Ctx(u) \in Ctxs \ {Ctx(t)}
  BY HeldApart, CtxType1 DEF Located
<1> QED BY <1>1, HeldFrame

(* What a step of the holder t of <<fd, k>> does to the wake-ups.          *)
UserMoves(fd, e, S, v, n) ==
  /\ v \in {"idle", "adding", "waiting"} /\ n \in Nat
  /\ user' = [user EXCEPT ![fd][e] = v] /\ sched' = [sched EXCEPT ![fd][e] = n]
  /\ left' = left
  /\ fd \notin left => IF e \in S THEN v = "waiting" /\ n = 0
                       ELSE (v = "waiting" /\ n = 1) \/ (v # "waiting" /\ n = 0)

LEMMA WaitMoves ==
  ASSUME TypeInv, WaitInv, NEW fd \in Fds, NEW k \in Numbers, NEW e \in Events,
         NEW S, NEW v, NEW n, WaiterMoves(fd, k, e, S), UserMoves(fd, e, S, v, n),
         events' = waiter',
         fd \notin left => \A g \in Numbers \ {k} : e \notin waiter[<<fd, g>>]
  PROVE  WaitInv'
<1> SUFFICES ASSUME NEW x \in Fds \ left, NEW y \in Events PROVE WaitAt(x, y)'
  BY DEF WaitInv, UserMoves
<1>1. UserType /\ FieldType /\ WaitAt(x, y)
  BY TypeParts DEF WaitInv
<1>2. /\ user'[x][y] = IF x = fd /\ y = e THEN v ELSE user[x][y]
      /\ sched'[x][y] = IF x = fd /\ y = e THEN n ELSE sched[x][y]
  BY <1>1, Entry2 DEF UserType, UserMoves
<1>3. /\ waiter'[<<fd, k>>] = S
      /\ \A g \in Numbers \ {k} : waiter'[<<fd, g>>] = waiter[<<fd, g>>]
      /\ \A g \in Numbers :
           x # fd \/ y # e => ((y \in waiter'[<<x, g>>]) <=> (y \in waiter[<<x, g>>]))
  BY <1>1, WaiterElse
<1>4. CASE x = fd /\ y = e
  <2>1. user'[fd][e] = v /\ sched'[fd][e] = n
    BY <1>2, <1>4
  <2>2. \A g \in Numbers \ {k} : e \notin waiter'[<<fd, g>>]
    BY <1>3, <1>4
  <2>3. CASE e \in S
    <3>1. Registered(fd, e)'
      BY <1>3, <1>4, <2>1, <2>2, <2>3 DEF Registered, UserMoves
    <3> QED BY <1>4, <2>1, <2>3, <3>1 DEF WaitAt, UserMoves
  <2>4. CASE e \notin S
    <3>1. \A g \in Numbers : e \notin waiter'[<<fd, g>>]
      BY <1>3, <2>2, <2>4
    <3> QED BY <1>4, <2>1, <2>4, <3>1 DEF WaitAt, Queued, Absent, UserMoves
  <2> QED BY <2>3, <2>4
<1>5. CASE ~(x = fd /\ y = e)
  <2>1. user'[x][y] = user[x][y] /\ sched'[x][y] = sched[x][y]
    BY <1>2, <1>5
  <2>2. \A g \in Numbers : (y \in waiter'[<<x, g>>]) <=> (y \in waiter[<<x, g>>])
    BY <1>3, <1>5
  <2> QED BY <1>1, <2>1, <2>2, WaitFrame
<1> QED BY <1>4, <1>5

LEMMA CoreAddStores ==
  ASSUME SafeInv, abort = "none", NEW t \in Threads, AddStores(t)
  PROVE  CoreInv' /\ abort' = "none"
<1>0. TypeInv /\ LockInv /\ CountInv /\ AddInv /\ WaitInv /\ HeldInv
      /\ UserType /\ ThreadType /\ FieldType
  BY TypeParts DEF SafeInv, CoreInv
<1>1. pc[t] = "added" /\ pc[t] \in Holding /\ pc[t] \in Located
  BY DEF AddStores, Holding, Located
<1> DEFINE fd == op[t].fd
           e == op[t].ev
           k == op[t].gen
<1>2. fd \in Fds /\ e \in Events /\ k \in Numbers /\ Ctx(t) = <<fd, k>>
      /\ Ctx(t) \in Ctxs
  BY <1>0, <1>1, OpAt, LocatedAt DEF Ctx, Numbers
<1>3. op[t].kind = "add" /\ (fd \in left \/ user[fd][e] = "adding")
  BY <1>0, <1>1 DEF AddInv
<1>4. fd \notin left =>
        sched[fd][e] = 0 /\ \A g \in Numbers : e \notin waiter[<<fd, g>>]
  <2>1. fd \notin left => Absent(fd, e)
    BY <1>0, <1>2, <1>3, NotWaiting
  <2> QED BY <2>1 DEF Absent
<1>5. e \notin events[Ctx(t)] /\ e \notin waiter[Ctx(t)]
  BY <1>0, <1>1 DEF WaitInv, HeldInv, HeldAt
<1>6. abort' = "none"
  BY <1>5 DEF AddStores
<1>7. Others(t) /\ pc'[t] = "free" /\ op'[t].kind = "none"
  BY <1>0, Moves, NoOpIsNone DEF AddStores, Return
<1>8. /\ events' = [events EXCEPT ![Ctx(t)] = @ \cup {e}]
      /\ waiter' = [waiter EXCEPT ![Ctx(t)] = @ \cup {e}]
      /\ user' = [user EXCEPT ![fd][e] = "waiting"] /\ sched' = sched
      /\ left' = left
      /\ m_pendingEventCount' = m_pendingEventCount + 1 /\ Unlock(t)
  BY DEF AddStores, AddCount
<1> HIDE DEF fd, e, k
<1>9. LockInv'
  BY <1>0, <1>1, <1>7, <1>8, Releases
<1>10. HeldInv'
  <2>1. HeldAt(t)'
    BY <1>7 DEF HeldAt
  <2>2. \A d \in Ctxs \ {Ctx(t)} : events'[d] = events[d]
    BY <1>0, <1>8 DEF FieldType
  <2> QED BY <1>0, <1>1, <1>7, <2>1, <2>2, HeldElsewhere
<1>11. CountInv'
  <2>1. Cardinality(Counted') = Cardinality(Counted) + 1
    BY <1>0, <1>1, <1>2, <1>5, <1>7, <1>8, CountedPlus
  <2> QED BY <1>0, <1>8, <2>1 DEF CountInv, PendingExact
<1>12. AddInv'
  <2>1. \A u \in Threads \ {t} : op[u].kind = "add" /\ fd \notin left =>
          ~(op[u].fd = fd /\ op[u].ev = e)
    BY <1>0, <1>3 DEF AddInv, fd, e
  <2>2. NoneAdds(fd, e)
    BY <1>0, <1>7, <2>1, AddOthers DEF NoneAdds
  <2> QED BY <1>0, <1>2, <1>8, <2>2, AddElse
<1>13. WaitInv'
  <2>1. waiter' = [waiter EXCEPT ![<<fd, k>>] = waiter[<<fd, k>>] \cup {e}]
        /\ events' = waiter'
    BY <1>0, <1>2, <1>8 DEF WaitInv
  <2>2. sched' = [sched EXCEPT ![fd][e] = sched[fd][e]] /\ sched[fd][e] \in Nat
    BY <1>0, <1>2, <1>8 DEF UserType
  <2> DEFINE S == waiter[<<fd, k>>] \cup {e}
  <2>3. WaiterMoves(fd, k, e, S)
    BY <2>1 DEF WaiterMoves
  <2>4. UserMoves(fd, e, S, "waiting", sched[fd][e])
    BY <1>4, <1>8, <2>2 DEF UserMoves
  <2> HIDE DEF S
  <2> QED BY <1>0, <1>2, <1>4, <2>1, <2>3, <2>4, WaitMoves
<1> QED BY <1>6, <1>9, <1>10, <1>11, <1>12, <1>13 DEF CoreInv

LEMMA CoreDelStores ==
  ASSUME SafeInv, abort = "none", NEW t \in Threads, DelStores(t)
  PROVE  CoreInv'
<1>0. TypeInv /\ LockInv /\ CountInv /\ AddInv /\ WaitInv /\ HeldInv
      /\ UserType /\ ThreadType /\ FieldType
  BY TypeParts DEF SafeInv, CoreInv
<1>1. pc[t] = "deleted" /\ pc[t] \in Holding /\ pc[t] \in Located
  BY DEF DelStores, Holding, Located
<1> DEFINE fd == op[t].fd
           e == op[t].ev
           k == op[t].gen
<1>2. fd \in Fds /\ e \in Events /\ k \in Numbers /\ Ctx(t) = <<fd, k>>
      /\ Ctx(t) \in Ctxs
  BY <1>0, <1>1, OpAt, LocatedAt DEF Ctx, Numbers
<1>3. e \in events[Ctx(t)] /\ e \in waiter[<<fd, k>>]
  BY <1>0, <1>1, <1>2 DEF HeldInv, HeldAt, WaitInv
<1>7. Others(t) /\ pc'[t] = "free" /\ op'[t].kind = "none"
  BY <1>0, Moves, NoOpIsNone DEF DelStores, Return
<1>8. /\ events' = [events EXCEPT ![Ctx(t)] = @ \ {e}]
      /\ waiter' = [waiter EXCEPT ![Ctx(t)] = @ \ {e}]
      /\ user' = [user EXCEPT ![fd][e] = "idle"] /\ sched' = sched
      /\ left' = left
      /\ m_pendingEventCount' = m_pendingEventCount - 1 /\ Unlock(t)
  BY DEF DelStores, resetContext
<1> HIDE DEF fd, e, k
<1>4. fd \notin left =>
        /\ user[fd][e] = "waiting" /\ sched[fd][e] = 0
        /\ \A g \in Numbers \ {k} : e \notin waiter[<<fd, g>>]
  BY <1>0, <1>2, <1>3, WaiterIs
<1>5. \A d \in Ctxs : events'[d] = IF d = Ctx(t) THEN events[d] \ {e} ELSE events[d]
  BY <1>0, <1>8 DEF FieldType
<1>9. LockInv'
  BY <1>0, <1>1, <1>7, <1>8, Releases
<1>10. HeldInv'
  <2>1. HeldAt(t)'
    BY <1>7 DEF HeldAt
  <2> QED BY <1>0, <1>1, <1>5, <1>7, <2>1, HeldElsewhere
<1>11. CountInv'
  <2>1. CountedAt(Ctx(t), e)
    BY <1>3 DEF CountedAt
  <2>2. pc[t] # "count" /\ pc'[t] # "count"
    BY <1>1, <1>7
  <2>3. /\ Cardinality(Counted') = Cardinality(Counted) - 1
        /\ Cardinality(Counted) \in Nat /\ Cardinality(Counted) > 0
    BY <1>0, <1>1, <1>2, <1>5, <1>7, <2>1, <2>2, CountedMinus
  <2> QED BY <1>0, <1>8, <2>3 DEF CountInv, PendingExact
<1>12. AddInv'
  <2>1. \A u \in Threads : op[u].kind = "add" /\ fd \notin left =>
          ~(op[u].fd = fd /\ op[u].ev = e)
    BY <1>0, <1>4, NobodyAdds
  <2>2. NoneAdds(fd, e)
    BY <1>0, <1>7, <2>1, AddOthers DEF NoneAdds
  <2> QED BY <1>0, <1>2, <1>8, <2>2, AddElse
<1>13. WaitInv'
  <2>1. waiter' = [waiter EXCEPT ![<<fd, k>>] = waiter[<<fd, k>>] \ {e}]
        /\ events' = waiter'
    BY <1>0, <1>2, <1>8 DEF WaitInv
  <2>2. sched' = [sched EXCEPT ![fd][e] = sched[fd][e]] /\ sched[fd][e] \in Nat
    BY <1>0, <1>2, <1>8 DEF UserType
  <2> DEFINE S == waiter[<<fd, k>>] \ {e}
  <2>3. WaiterMoves(fd, k, e, S)
    BY <2>1 DEF WaiterMoves
  <2>4. UserMoves(fd, e, S, "idle", sched[fd][e])
    BY <1>4, <1>8, <2>2 DEF UserMoves
  <2> HIDE DEF S
  <2> QED BY <1>0, <1>2, <1>4, <2>1, <2>3, <2>4, WaitMoves
<1> QED BY <1>9, <1>10, <1>11, <1>12, <1>13 DEF CoreInv

LEMMA CoreTrigger ==
  ASSUME SafeInv, abort = "none", NEW t \in Threads, Trigger(t)
  PROVE  CoreInv'
<1>0. TypeInv /\ LockInv /\ CountInv /\ AddInv /\ WaitInv /\ HeldInv
      /\ UserType /\ ThreadType /\ FieldType
  BY TypeParts DEF SafeInv, CoreInv
<1>1. pc[t] = "trigger" /\ pc[t] \in Holding /\ pc[t] \in Located
  BY DEF Trigger, Holding, Located
<1> DEFINE fd == op[t].fd
           e == First(op[t].todo)
           k == op[t].gen
<1>2. fd \in Fds /\ e \in Events /\ k \in Numbers /\ Ctx(t) = <<fd, k>>
      /\ Ctx(t) \in Ctxs /\ e \in op[t].todo
  BY <1>0, <1>1, OpAt, LocatedAt, FirstAt DEF Ctx, Numbers
<1>3. Others(t) /\ pc'[t] = "count" /\ op'[t] = op[t] /\ Ctx(t)' = Ctx(t)
  BY <1>0, MovesPc, SameCtx DEF Trigger
<1>4. /\ events' = [events EXCEPT ![Ctx(t)] = @ \ {e}]
      /\ waiter' = [waiter EXCEPT ![Ctx(t)] = @ \ {e}]
      /\ sched' = [sched EXCEPT ![fd][e] = @ + 1]
      /\ UNCHANGED <<user, left, lock, m_pendingEventCount>>
      /\ abort' = IF e \in events[Ctx(t)] THEN abort ELSE "triggerEvent"
  BY DEF Trigger, triggerEvent
<1>5. \A d \in Ctxs : events'[d] = IF d = Ctx(t) THEN events[d] \ {First(op[t].todo)}
                                   ELSE events[d]
  BY <1>0, <1>4 DEF FieldType
<1>6. LockInv'
  <2>1. LockAt(t)'
    BY <1>0, <1>1, <1>3, <1>4 DEF LockInv, LockAt
  <2> QED BY <1>0, <1>3, <1>4, <2>1, LockFrame
<1>7. CASE e \notin events[Ctx(t)]
  <2>1. abort' # "none"
    BY <1>4, <1>7
  <2> QED BY <1>0, <1>4, <1>6, <2>1 DEF CoreInv, CountInv, PendingExact
<1>8. CASE e \in events[Ctx(t)]
  <2>1. HeldInv'
    <3>1. events'[Ctx(t)] = events[Ctx(t)] \ {First(op[t].todo)}
      BY <1>2, <1>5
    <3>2. HeldAt(t)
      BY <1>0 DEF HeldInv
    <3>3. HeldAt(t)'
      BY <1>1, <1>3, <3>1, <3>2 DEF HeldAt
    <3> QED BY <1>0, <1>1, <1>3, <1>5, <3>3, HeldElsewhere
  <2>2. CountInv'
    BY <1>0, <1>1, <1>3, <1>4, <1>5, <1>8, CountedKept, CountSame
  <2>3. AddInv'
    BY <1>0, <1>3, <1>4, AddOthers, AddSame
  <2> HIDE DEF fd, e, k
  <2>4. fd \notin left =>
          /\ user[fd][e] = "waiting" /\ sched[fd][e] = 0
          /\ \A g \in Numbers \ {k} : e \notin waiter[<<fd, g>>]
    <3>1. e \in waiter[<<fd, k>>]
      BY <1>0, <1>2, <1>8 DEF WaitInv
    <3> QED BY <1>0, <1>2, <3>1, WaiterIs
  <2>5. waiter' = [waiter EXCEPT ![<<fd, k>>] = waiter[<<fd, k>>] \ {e}]
        /\ events' = waiter'
    BY <1>0, <1>2, <1>4 DEF WaitInv
  <2>6. /\ sched' = [sched EXCEPT ![fd][e] = sched[fd][e] + 1]
        /\ sched[fd][e] \in Nat /\ sched[fd][e] + 1 \in Nat
    BY <1>0, <1>2, <1>4 DEF UserType
  <2>7. /\ user' = [user EXCEPT ![fd][e] = user[fd][e]]
        /\ user[fd][e] \in {"idle", "adding", "waiting"}
    BY <1>0, <1>2, <1>4 DEF UserType
  <2>8. WaitInv'
    <3> DEFINE S == waiter[<<fd, k>>] \ {e}
    <3>1. WaiterMoves(fd, k, e, S)
      BY <2>5 DEF WaiterMoves
    <3>2. UserMoves(fd, e, S, user[fd][e], sched[fd][e] + 1)
      <4>1. e \notin S
        OBVIOUS
      <4> HIDE DEF S
      <4>2. fd \notin left => user[fd][e] = "waiting" /\ sched[fd][e] + 1 = 1
        BY <2>4
      <4> QED BY <1>4, <2>6, <2>7, <4>1, <4>2 DEF UserMoves
    <3> HIDE DEF S
    <3> QED BY <1>0, <1>2, <2>4, <2>5, <3>1, <3>2, WaitMoves
  <2> QED BY <1>6, <2>1, <2>2, <2>3, <2>8 DEF CoreInv
<1> QED BY <1>7, <1>8

LEMMA CoreCountNext ==
  ASSUME SafeInv, abort = "none", NEW t \in Threads, CountNext(t)
  PROVE  CoreInv'
<1>0. TypeInv /\ LockInv /\ CountInv /\ AddInv /\ WaitInv /\ HeldInv
      /\ UserType /\ ThreadType /\ FieldType
  BY TypeParts DEF SafeInv, CoreInv
<1>1. pc[t] = "count" /\ pc[t] \in Holding /\ pc[t] \in Located
  BY DEF CountNext, Holding, Located
<1> DEFINE e == First(op[t].todo)
           rest == op[t].todo \ {e}
<1>2. e \in Events /\ e \in op[t].todo /\ Ctx(t) \in Ctxs /\ op[t] \in Ops
      /\ op[t].todo \in SUBSET Events
  BY <1>0, <1>1, OpAt, LocatedAt, FirstAt
<1>3. /\ op' = [op EXCEPT ![t] = [op[t] EXCEPT !.todo = rest]]
      /\ pc' = [pc EXCEPT ![t] = "trigger"] /\ rest # {}
      /\ UNCHANGED <<ctxs, lock, users>>
      /\ m_pendingEventCount' = m_pendingEventCount - 1
  BY <1>0 DEF CountNext, ThreadType
<1>4. Others(t) /\ pc'[t] = "trigger" /\ op'[t] = [op[t] EXCEPT !.todo = rest]
  BY <1>0, <1>3, Moves
<1>5. /\ op'[t].kind = op[t].kind /\ op'[t].fd = op[t].fd /\ op'[t].gen = op[t].gen
      /\ op'[t].ev = op[t].ev /\ op'[t].todo = rest
  BY <1>2, <1>4 DEF Ops
<1>6. Ctx(t)' = Ctx(t) /\ events' = events /\ waiter' = waiter /\ user' = user
      /\ left' = left
  BY <1>3, <1>5 DEF Ctx, ctxs, users
<1>7. HeldAt(t)
  BY <1>0 DEF HeldInv
<1>8. LockInv'
  <2>1. LockAt(t)'
    BY <1>0, <1>1, <1>3, <1>4, <1>6 DEF LockInv, LockAt, Holding
  <2> QED BY <1>0, <1>3, <1>4, <2>1, LockFrame
<1>9. HeldInv'
  <2>1. ~OneWay
    BY <1>2, <1>3 DEF OneWay
  <2>2. HeldAt(t)'
    BY <1>1, <1>4, <1>5, <1>6, <1>7, <2>1 DEF HeldAt
  <2> QED BY <1>0, <1>1, <1>4, <1>6, <2>2, HeldElsewhere
<1>10. CountInv'
  <2>1. CountedAt(Ctx(t), e)
    BY <1>1 DEF CountedAt
  <2>2. \A d \in Ctxs : events'[d] = IF d = Ctx(t) THEN events[d] \ {e} ELSE events[d]
    BY <1>1, <1>6, <1>7 DEF HeldAt
  <2>3. /\ Cardinality(Counted') = Cardinality(Counted) - 1
        /\ Cardinality(Counted) \in Nat /\ Cardinality(Counted) > 0
    BY <1>0, <1>1, <1>2, <1>4, <2>1, <2>2, CountedMinus
  <2> QED BY <1>0, <1>3, <2>3 DEF CountInv, PendingExact
<1>11. AddInv'
  BY <1>0, <1>4, <1>5, <1>6, AddOthers, AddSame
<1>12. WaitInv'
  BY <1>0, <1>3, WaitSame
<1> QED BY <1>8, <1>9, <1>10, <1>11, <1>12 DEF CoreInv

LEMMA CoreCountEnds ==
  ASSUME SafeInv, abort = "none", NEW t \in Threads, CountEnds(t)
  PROVE  CoreInv' /\ abort' = "none"
<1>0. TypeInv /\ LockInv /\ CountInv /\ AddInv /\ WaitInv /\ HeldInv
      /\ UserType /\ ThreadType /\ FieldType
  BY TypeParts DEF SafeInv, CoreInv
<1>1. pc[t] = "count" /\ pc[t] \in Holding /\ pc[t] \in Located
  BY DEF CountEnds, Holding, Located
<1> DEFINE e == First(op[t].todo)
<1>2. e \in Events /\ e \in op[t].todo /\ Ctx(t) \in Ctxs
  BY <1>0, <1>1, LocatedAt, FirstAt
<1>3. /\ op' = [op EXCEPT ![t] = NoOp] /\ pc' = [pc EXCEPT ![t] = "free"]
      /\ op[t].todo \ {e} = {} /\ Unlock(t) /\ UNCHANGED <<ctxs, users>>
      /\ m_pendingEventCount' = m_pendingEventCount - 1
  BY DEF CountEnds, CountLast, Return
<1>4. Others(t) /\ pc'[t] = "free" /\ op'[t].kind = "none"
  BY <1>0, <1>3, Moves, NoOpIsNone
<1>6. events' = events /\ user' = user /\ left' = left
  BY <1>3 DEF ctxs, users
<1>7. HeldAt(t)
  BY <1>0 DEF HeldInv
<1>8. LockInv'
  BY <1>0, <1>1, <1>3, <1>4, Releases
<1>9. HeldInv'
  <2>1. HeldAt(t)'
    BY <1>4 DEF HeldAt
  <2> QED BY <1>0, <1>1, <1>4, <1>6, <2>1, HeldElsewhere
<1>10. CountInv'
  <2>1. CountedAt(Ctx(t), e)
    BY <1>1 DEF CountedAt
  <2>2. \A d \in Ctxs : events'[d] = IF d = Ctx(t) THEN events[d] \ {e} ELSE events[d]
    BY <1>1, <1>6, <1>7 DEF HeldAt
  <2>3. /\ Cardinality(Counted') = Cardinality(Counted) - 1
        /\ Cardinality(Counted) \in Nat /\ Cardinality(Counted) > 0
    BY <1>0, <1>1, <1>2, <1>4, <2>1, <2>2, CountedMinus
  <2> QED BY <1>0, <1>3, <2>3 DEF CountInv, PendingExact
<1>11. AddInv'
  BY <1>0, <1>4, <1>6, AddOthers, AddSame
<1>12. WaitInv'
  BY <1>0, <1>3, WaitSame
<1>13. abort' = "none"
  <2>1. op[t].kind = "cancelAll" => events[Ctx(t)] = {}
    BY <1>1, <1>3, <1>7 DEF HeldAt
  <2> QED BY <2>1 DEF CountEnds
<1> QED BY <1>8, <1>9, <1>10, <1>11, <1>12, <1>13 DEF CoreInv

-----------------------------------------------------------------------------
(* The assertions that hold.                                               *)
AssertInv ==
  /\ abort # "cancelAll"
  /\ abort = "addEvent" => \E t \in Threads : LeftBehind(t)
  /\ OneWay => abort # "triggerEvent"

LEMMA AssertTrigger ==
  ASSUME SafeInv, abort = "none", NEW t \in Threads, Trigger(t)
  PROVE  AssertInv'
<1>0. TypeInv /\ HeldAt(t) /\ pc[t] = "trigger"
  BY DEF SafeInv, CoreInv, HeldInv, Trigger
<1>1. abort' = IF First(op[t].todo) \in events[Ctx(t)] THEN abort ELSE "triggerEvent"
  BY DEF Trigger, triggerEvent
<1>2. First(op[t].todo) \in op[t].todo /\ op[t].todo \in SUBSET Events
  BY <1>0, FirstAt, OpAt DEF TypeInv
<1>3. ASSUME OneWay PROVE First(op[t].todo) \in events[Ctx(t)]
  <2>1. CASE op[t].kind # "poll"
    BY <1>0, <1>2, <2>1 DEF HeldAt
  <2>2. CASE op[t].kind = "poll"
    <3>1. PICK y \in op[t].todo : y \in events[Ctx(t)]
      BY <1>0, <1>3, <2>2 DEF HeldAt
    <3>2. y = First(op[t].todo)
      BY <1>2, <1>3 DEF OneWay
    <3> QED BY <3>1, <3>2
  <2> QED BY <2>1, <2>2
<1> QED BY <1>1, <1>3 DEF AssertInv

LEMMA SafeStep == SafeInv /\ AssertInv /\ [Next]_vars => SafeInv' /\ AssertInv'
<1> SUFFICES ASSUME SafeInv, AssertInv, [Next]_vars PROVE SafeInv' /\ AssertInv'
  OBVIOUS
<1>1. TypeInv'
  BY TypeStep DEF SafeInv
<1>2. CASE UNCHANGED vars
  <2>1. UNCHANGED <<pc, op, ctxs, lock, m_pendingEventCount, users, abort>>
    BY <1>2 DEF vars
  <2>3. AssertInv'
    BY <2>1 DEF SafeInv, AssertInv, LeftBehind, Locking, Taken, Ctx, ctxs, users
  <2>2. CoreInv'
    <3>1. CASE abort = "none"
      BY <2>1, <3>1, CoreStill DEF SafeInv
    <3>2. CASE abort # "none"
      BY <2>1, <3>2 DEF SafeInv, CoreInv, CountInv, PendingExact, LockInv, LockAt, Ctx
    <3> QED BY <3>1, <3>2
  <2> QED BY <1>1, <2>2, <2>3 DEF SafeInv
<1>3. CASE abort = "none" /\ Step
  <2>0. abort = "none" /\ CoreInv
    BY <1>3 DEF SafeInv
  <2>1. CASE Environment
    <3>1. PICK fd \in Fds :
            \/ \E k \in Events \cup {"HUP"} : Arrive(fd, k)
            \/ \E e \in Events : Drain(fd, e) \/ Resume(fd, e)
            \/ Close(fd)
      BY <2>1 DEF Environment
    <3>2. ASSUME NEW e \in Events, Resume(fd, e) PROVE CoreInv' /\ abort' = "none"
      BY <2>0, <3>2, CoreResume DEF Resume
    <3>3. ASSUME \/ \E k \in Events \cup {"HUP"} : Arrive(fd, k)
                 \/ \E e \in Events : Drain(fd, e)
          PROVE  CoreInv' /\ abort' = "none"
      <4>1. UNCHANGED <<pc, op, ctxs, lock, m_pendingEventCount, users, abort>>
        BY <3>3 DEF Arrive, Drain
      <4> QED BY <2>0, <4>1, CoreStill
    <3>5. ASSUME Close(fd) PROVE CoreInv' /\ abort' = "none"
      BY <2>0, <3>5, CoreClose DEF Close
    <3>4. CoreInv' /\ abort' = "none"
      BY <3>1, <3>2, <3>3, <3>5
    <3> QED BY <1>1, <3>4 DEF SafeInv, AssertInv
  <2>2. ASSUME NEW t \in Threads, NEW k \in Calls, NEW fd \in Fds, NEW e \in Events,
               Enter(t, k, fd, e)
        PROVE  SafeInv' /\ AssertInv'
    <3>1. CoreInv' /\ abort' = "none"
      BY <2>0, <2>2, CoreEnter DEF Enter
    <3> QED BY <1>1, <3>1 DEF SafeInv, AssertInv
  <2>3. ASSUME NEW t \in Threads, Call(t) PROVE SafeInv' /\ AssertInv'
    <3>1. CASE Found(t) \/ TooSmall(t) \/ NoContext(t) \/ Grow(t)
               \/ EventMissing(t) \/ NothingToCancel(t)
      <4>1. abort' \in {"none", "race"}
        BY <2>0, <3>1 DEF Found, TooSmall, NoContext, Grow, EventMissing, NothingToCancel
      <4>2. CoreInv'
        BY <2>0, <3>1, CoreLookUp
      <4> QED BY <1>1, <4>1, <4>2 DEF SafeInv, AssertInv
    <3>4. CASE AddAsserts(t)
      <4>1. CoreInv' /\ abort' = "addEvent" /\ LeftBehind(t)'
        BY <2>0, <3>4, CoreAddAsserts
      <4> QED BY <1>1, <4>1 DEF SafeInv, AssertInv
    <3>2. CASE AddFails(t) \/ EventLeaves(t) \/ AllLeave(t) \/ DelStores(t)
      <4>1. abort' = "none"
        BY <2>0, <3>2 DEF AddFails, EventLeaves, AllLeave, DelStores
      <4>2. CoreInv'
        BY <2>0, <3>2, CoreAddFails, CoreLeaves, CoreDelStores
      <4> QED BY <1>1, <4>1, <4>2 DEF SafeInv, AssertInv
    <3>3. CASE AddRegisters(t) \/ AddStores(t)
      <4>1. CoreInv' /\ abort' = "none"
        BY <2>0, <3>3, CoreAddRegisters, CoreAddStores DEF AddRegisters
      <4> QED BY <1>1, <4>1 DEF SafeInv, AssertInv
    <3> QED BY <2>3, <3>1, <3>2, <3>3, <3>4 DEF Call
  <2>4. ASSUME NEW t \in Threads, Poll(t) PROVE SafeInv' /\ AssertInv'
    <3>1. UNCHANGED <<pc, op, ctxs, lock, m_pendingEventCount, users, abort>>
      BY <2>4 DEF Poll, EpollWait
    <3>2. CoreInv'
      BY <2>0, <3>1, CoreStill
    <3> QED BY <1>1, <2>0, <3>1, <3>2 DEF SafeInv, AssertInv
  <2>5. ASSUME NEW t \in Threads, Dispatch(t) PROVE SafeInv' /\ AssertInv'
    <3>1. PICK b \in batch[t], c \in Ctxs : EventStale(t, b, c) \/ EventFires(t, b, c)
      BY <2>5 DEF Dispatch
    <3>2. abort' = "none"
      BY <2>0, <3>1 DEF EventStale, EventFires
    <3>3. CASE EventStale(t, b, c)
      <4>1. UNCHANGED <<pc, op, ctxs, lock, m_pendingEventCount, users>>
        BY <3>3 DEF EventStale
      <4> QED BY <1>1, <2>0, <3>2, <4>1, CoreStill DEF SafeInv, AssertInv
    <3>4. CASE EventFires(t, b, c)
      <4>1. CoreInv'
        BY <2>0, <3>4, CoreEventFires
      <4> QED BY <1>1, <3>2, <4>1 DEF SafeInv, AssertInv
    <3> QED BY <3>1, <3>3, <3>4
  <2>6. ASSUME NEW t \in Threads, Wake(t) PROVE SafeInv' /\ AssertInv'
    <3>1. CASE Trigger(t)
      BY <1>1, <2>0, <3>1, CoreTrigger, AssertTrigger DEF SafeInv
    <3>2. CASE CountNext(t)
      <4>1. abort' = "none" /\ CoreInv'
        BY <2>0, <3>2, CoreCountNext DEF CountNext
      <4>2. AssertInv'
        BY <4>1 DEF AssertInv
      <4> QED BY <1>1, <4>1, <4>2 DEF SafeInv
    <3>3. CASE CountEnds(t)
      <4>1. abort' = "none" /\ CoreInv'
        BY <2>0, <3>3, CoreCountEnds
      <4>2. AssertInv'
        BY <4>1 DEF AssertInv
      <4> QED BY <1>1, <4>1, <4>2 DEF SafeInv
    <3> QED BY <2>6, <3>1, <3>2, <3>3 DEF Wake
  <2> QED BY <1>3, <2>1, <2>2, <2>3, <2>4, <2>5, <2>6 DEF Step
<1> QED BY <1>2, <1>3 DEF Next, Done

LEMMA SafeAlways == Spec => [](SafeInv /\ AssertInv)
<1>1. Init => SafeInv /\ AssertInv
  BY SafeInit DEF Init, AssertInv
<1> QED BY <1>1, SafeStep, PTL DEF Spec

-----------------------------------------------------------------------------
(* Every variable has its type, and the size_t m_pendingEventCount never   *)
(* wraps below 0 (iomanager.h:156), for any pool, descriptors and table.    *)
THEOREM IOTypesHold == Spec => []TypeOK
<1>1. SafeInv => TypeOK
  BY DEF SafeInv, CoreInv, CountInv, TypeInv, TypeOK, CtxType
<1> QED BY <1>1, SafeAlways, PTL

(* The counter that IOManager::stopping() reads is the number of events    *)
(* registered or just triggered, at every step of every thread.            *)
THEOREM CounterExact == Spec => []PendingExact
<1>1. SafeInv => PendingExact
  BY DEF SafeInv, CoreInv, CountInv
<1> QED BY <1>1, SafeAlways, PTL

(* Exactly one wake-up is due to a fiber that waits, and none to one that  *)
(* does not, whatever races addEvent, delEvent, cancelEvent, cancelAll and *)
(* the loop of idle() run, on every number that was not closed under a     *)
(* fiber.                                                                  *)
THEOREM WokenOnce == Spec => []OneWakeUp
<1>1. SafeInv => OneWakeUp
  <2> SUFFICES ASSUME SafeInv, abort = "none", NEW fd \in Fds \ left, NEW e \in Events
               PROVE  WakeUps(fd, e) = IF user[fd][e] = "waiting" THEN 1 ELSE 0
    BY DEF OneWakeUp
  <2> DEFINE G == {g \in 1..MaxGen : e \in waiter[<<fd, g>>]}
  <2>1. WaitAt(fd, e) /\ WakeUps(fd, e) = Cardinality(G) + sched[fd][e]
    BY DEF SafeInv, CoreInv, WaitInv, WakeUps
  <2>2. CASE Queued(fd, e) \/ Absent(fd, e)
    <3>1. G = {}
      BY <2>2 DEF Queued, Absent, Numbers
    <3>2. Cardinality(G) = 0
      BY <3>1, FS_EmptySet
    <3>3. sched[fd][e] = IF user[fd][e] = "waiting" THEN 1 ELSE 0
      BY <2>1, <2>2, <3>1 DEF WaitAt, Queued, Registered, Absent, Numbers
    <3> QED BY <2>1, <3>2, <3>3
  <2>3. CASE Registered(fd, e)
    <3>1. PICK g \in 1..MaxGen : G = {g}
      BY <2>3 DEF Registered, Numbers
    <3>2. Cardinality(G) = 1
      BY <3>1, FS_Singleton
    <3>3. sched[fd][e] = 0 /\ user[fd][e] = "waiting"
      BY <2>1, <2>3 DEF WaitAt, Registered, Absent
    <3> QED BY <2>1, <3>2, <3>3
  <2> QED BY <2>1, <2>2, <2>3 DEF WaitAt
<1> QED BY <1>1, SafeAlways, PTL

(* When stopping() reads 0 from the counter, whoever still waits is in the *)
(* run queue already, which it looks at next (iomanager.cc:319-324), unless *)
(* its number was closed under a fiber, where user does not tell the two   *)
(* fibers apart.                                                           *)
THEOREM CounterGuards == Spec => []PendingGuards
<1>1. SafeInv => PendingGuards
  <2> SUFFICES ASSUME SafeInv, abort = "none", m_pendingEventCount = 0,
                      NEW fd \in Fds \ left, NEW e \in Events, user[fd][e] = "waiting"
               PROVE  sched[fd][e] > 0
    BY DEF PendingGuards
  <2>1. WaitInv /\ CountInv
    BY DEF SafeInv, CoreInv
  <2>2. Counted = {}
    BY <2>1, CountedFinite, FS_EmptySet DEF CountInv, PendingExact
  <2>3. \A c \in Ctxs : e \notin events[c]
    BY <2>2, CountedIs DEF CountedAt
  <2>4. \A g \in Numbers : e \notin waiter[<<fd, g>>]
    BY <2>1, <2>3 DEF WaitInv, Ctxs, Numbers
  <2>5. Queued(fd, e)
    BY <2>1, <2>4 DEF WaitInv, WaitAt, Registered
  <2> QED BY <2>5 DEF Queued
<1> QED BY <1>1, SafeAlways, PTL

(* SYLAR_ASSERT of cancelAll (iomanager.cc:301) never fails, and that of   *)
(* addEvent (iomanager.cc:161-166, 185-187) only in the call of a thread   *)
(* that finds its event registered by a fiber under which the number was   *)
(* closed.                                                                 *)
THEOREM CallsDoNotAssert ==
  Spec => [](/\ abort # "cancelAll"
             /\ abort = "addEvent" => \E t \in Threads : LeftBehind(t))
<1>1. AssertInv => /\ abort # "cancelAll"
                   /\ abort = "addEvent" => \E t \in Threads : LeftBehind(t)
  BY DEF AssertInv
<1> QED BY <1>1, SafeAlways, PTL

(* A program that waits for one direction only meets no failing assertion  *)
(* but that of addEvent on a number closed under a fiber (one that waits   *)
(* for both does: iomanager.cc:400 looks for either).                      *)
THEOREM OneWayAsserts ==
  ASSUME OneWay
  PROVE  Spec => []AssertionsHold
<1>1. SafeInv /\ AssertInv => AssertionsHold
  BY OneWay DEF SafeInv, TypeInv, ThreadType, AssertInv, AssertionsHold
<1> QED BY <1>1, SafeAlways, PTL
-----------------------------------------------------------------------------
(* The table of contexts, and the epoll set.                               *)

(* Every descriptor beyond the first table fits into the table that any of *)
(* them makes: one that does not loses its context to a second addEvent,   *)
(* which makes the vector smaller (iomanager.cc:156).                      *)
Near ==
  \A f, g \in Fds : f >= InitSize /\ g >= InitSize => f < (g * 3) \div 2

(* The vector never gets smaller than the constructor made it.             *)
TableInv ==
  /\ m_size >= InitSize
  /\ \A t \in Threads : pc[t] = "grow" => op[t].fd >= InitSize

(* Whoever points to a context, a call, a reported entry, or the epoll     *)
(* set, points to the one in the table.                                    *)
KnownBy(t) ==
  /\ op[t].gen # 0 => op[t].gen = m_fdContexts[op[t].fd]
  /\ \A b \in batch[t] : b.gen = m_fdContexts[b.fd]
EpollKnown(fd) == interest[fd].gen # 0 => interest[fd].gen = m_fdContexts[fd]

ReachInv ==
  /\ TableInv
  /\ \A t \in Threads : KnownBy(t)
  /\ \A fd \in Fds : EpollKnown(fd)
  /\ EventsReachable

LEMMA NoOpGen == NoOp.gen = 0
BY DEF NoOp

LEMMA ReachInit == Init => ReachInv
<1> SUFFICES ASSUME Init PROVE ReachInv
  OBVIOUS
<1>1. TableInv
  BY IOManagerAssumption DEF Init, TableInv
<1>2. \A t \in Threads : KnownBy(t)
  BY NoOpGen DEF Init, KnownBy
<1>3. \A fd \in Fds : EpollKnown(fd)
  BY DEF Init, EpollKnown, NotRegistered
<1>4. EventsReachable
  BY DEF Init, EventsReachable, Ctxs
<1> QED BY <1>1, <1>2, <1>3, <1>4 DEF ReachInv

(* A step of t that leaves the table alone.                                *)
LEMMA ReachFrame ==
  ASSUME ReachInv, UNCHANGED table, NEW t \in Threads, Others(t),
         \A u \in Threads \ {t} : batch'[u] = batch[u],
         KnownBy(t)', pc'[t] = "grow" => op'[t].fd >= InitSize,
         \A fd \in Fds : EpollKnown(fd)',
         EventsReachable'
  PROVE  ReachInv'
<1>1. TableInv'
  BY DEF ReachInv, TableInv, Others, table
<1>2. \A u \in Threads : KnownBy(u)'
  BY DEF ReachInv, KnownBy, Others, table
<1> QED BY <1>1, <1>2 DEF ReachInv

LEMMA EpollKnownSame ==
  ASSUME ReachInv, UNCHANGED table, UNCHANGED interest
  PROVE  \A fd \in Fds : EpollKnown(fd)'
BY DEF ReachInv, EpollKnown, table

LEMMA ReachableSame ==
  ASSUME ReachInv, UNCHANGED table, UNCHANGED events
  PROVE  EventsReachable'
BY DEF ReachInv, EventsReachable, table

(* A step that keeps the contexts of t's call, and none or only fewer      *)
(* entries in its batch.                                                   *)
LEMMA KnownSame ==
  ASSUME ReachInv, UNCHANGED table, NEW t \in Threads,
         op'[t].gen = 0 \/ (op'[t].gen = op[t].gen /\ op'[t].fd = op[t].fd),
         batch'[t] \subseteq batch[t]
  PROVE  KnownBy(t)'
BY DEF ReachInv, KnownBy, table

(* epoll_ctl is called for the context in the table.                       *)
LEMMA EpollKnownCtl ==
  ASSUME TypeInv, ReachInv, UNCHANGED table, NEW fd \in Fds, NEW g, NEW evs,
         g = m_fdContexts[fd], EpollCtl(fd, g, evs)
  PROVE  \A x \in Fds : EpollKnown(x)'
<1> SUFFICES ASSUME NEW x \in Fds PROVE EpollKnown(x)'
  OBVIOUS
<1>1. interest \in [Fds -> [gen : 0..MaxGen, events : SUBSET Events]]
  BY DEF TypeInv, KernelType
<1>2. EpollKnown(x) /\ m_fdContexts' = m_fdContexts
  BY DEF ReachInv, table
<1>3. CASE x # fd
  <2>1. interest'[x] = interest[x]
    BY <1>1, <1>3 DEF EpollCtl
  <2> QED BY <1>2, <2>1 DEF EpollKnown
<1>4. CASE x = fd
  BY <1>1, <1>2, <1>4 DEF EpollKnown, EpollCtl, NotRegistered
<1> QED BY <1>3, <1>4

(* The context that a located call works on is in the table.               *)
LEMMA CtxKnown ==
  ASSUME TypeInv, ReachInv, NEW t \in Threads, pc[t] \in Located
  PROVE  op[t].fd \in Fds /\ op[t].gen = m_fdContexts[op[t].fd] /\ op[t].gen # 0
BY OpAt DEF TypeInv, OpInv, ReachInv, KnownBy

(* Events change in that context only.                                     *)
LEMMA ReachableMoves ==
  ASSUME TypeInv, ReachInv, UNCHANGED table, NEW t \in Threads,
         pc[t] \in Located, NEW S, events' = [events EXCEPT ![Ctx(t)] = S]
  PROVE  EventsReachable'
<1>1. Ctx(t) = <<op[t].fd, m_fdContexts[op[t].fd]>>
  BY CtxKnown DEF Ctx
<1> SUFFICES ASSUME NEW fd \in Fds, NEW g \in 1..MaxGen, events'[<<fd, g>>] # {}
             PROVE  m_fdContexts'[fd] = g
  BY DEF EventsReachable
<1>2. CASE <<fd, g>> = Ctx(t)
  BY <1>1, <1>2 DEF table
<1>3. CASE <<fd, g>> # Ctx(t)
  <2>1. events'[<<fd, g>>] = events[<<fd, g>>]
    BY <1>3 DEF TypeInv, Ctxs
  <2> QED BY <2>1 DEF ReachInv, EventsReachable, table
<1> QED BY <1>2, <1>3

(* Once a descriptor has a context it keeps it, when the descriptors are   *)
(* near to each other.                                                     *)
LEMMA GrowKeeps ==
  ASSUME Near, TypeInv, ReachInv, NEW t \in Threads, Grow(t)
  PROVE  /\ m_size' >= InitSize
         /\ \A fd \in Fds : m_fdContexts[fd] # 0 => m_fdContexts'[fd] = m_fdContexts[fd]
<1> DEFINE f == op[t].fd
           size == (f * 3) \div 2
<1>1. Fds \subseteq Nat /\ InitSize \in Nat /\ InitSize >= 2
  BY IOManagerAssumption
<1>2. f \in Fds /\ f >= InitSize
  BY OpAt DEF TypeInv, ReachInv, TableInv, Grow
<1>3. f < size /\ size \in Nat /\ size >= InitSize
  <2> HIDE DEF f
  <2>1. f \in Nat /\ f >= InitSize /\ InitSize \in Nat /\ InitSize >= 2
    BY <1>1, <1>2
  <2> QED BY <2>1
<1>4. \A fd \in Fds : fd < size
  <2> SUFFICES ASSUME NEW fd \in Fds PROVE fd < size
    OBVIOUS
  <2>1. CASE fd < InitSize
    <3>1. fd \in Nat /\ InitSize \in Nat
      BY <1>1
    <3> HIDE DEF size
    <3> QED BY <1>3, <2>1, <3>1
  <2>2. CASE fd >= InitSize
    BY <1>2, <2>2 DEF Near
  <2> QED BY <1>1, <2>1, <2>2
<1>5. m_size' = size /\ m_fdContexts' = Resized(size)
  BY DEF Grow, contextResize
<1> HIDE DEF size
<1>6. \A fd \in Fds : m_fdContexts[fd] # 0 => Resized(size)[fd] = m_fdContexts[fd]
  BY <1>1, <1>3, <1>4 DEF Resized
<1> QED BY <1>3, <1>5, <1>6

LEMMA ReachGrow ==
  ASSUME Near, TypeInv, ReachInv, NEW t \in Threads, Grow(t)
  PROVE  ReachInv'
<1>0. \A fd \in Fds : m_fdContexts[fd] # 0 => m_fdContexts'[fd] = m_fdContexts[fd]
  BY GrowKeeps
<1>1. Others(t) /\ pc'[t] = "lock" /\ batch' = batch
  BY DEF Grow, TypeInv, ThreadType, Others
<1>2. op'[t].fd = op[t].fd /\ op'[t].gen = m_fdContexts'[op[t].fd]
  BY DEF Grow, TypeInv, ThreadType
<1>3. TableInv'
  BY <1>1, GrowKeeps DEF ReachInv, TableInv, Others
<1>4. ASSUME NEW u \in Threads PROVE \A b \in batch'[u] : b.gen = m_fdContexts'[b.fd]
  <2> SUFFICES ASSUME NEW b \in batch[u] PROVE b.gen = m_fdContexts'[b.fd]
    BY <1>1
  <2>1. b.gen \in 1..MaxGen /\ b.fd \in Fds
    BY DEF TypeInv, ThreadType
  <2>2. b.gen = m_fdContexts[b.fd]
    BY DEF ReachInv, KnownBy
  <2> QED BY <1>0, <2>1, <2>2
<1>5. ASSUME NEW u \in Threads \ {t}
      PROVE  op'[u].gen # 0 => op'[u].gen = m_fdContexts'[op'[u].fd]
  <2>1. op'[u] = op[u] /\ op[u].fd \in Fds
    BY <1>1, OpAt DEF Others, TypeInv
  <2> QED BY <1>0, <2>1 DEF ReachInv, KnownBy
<1>6. \A u \in Threads : KnownBy(u)'
  BY <1>2, <1>4, <1>5 DEF KnownBy
<1>7. \A fd \in Fds : EpollKnown(fd)'
  <2>1. UNCHANGED interest
    BY DEF Grow, kernel
  <2> QED BY <1>0, <2>1 DEF ReachInv, EpollKnown
<1>8. EventsReachable'
  <2>1. UNCHANGED events
    BY DEF Grow, ctxs
  <2>2. \A g \in 1..MaxGen : g # 0
    OBVIOUS
  <2> QED BY <1>0, <2>1, <2>2 DEF ReachInv, EventsReachable
<1> QED BY <1>3, <1>6, <1>7, <1>8 DEF ReachInv

(* The steps that change neither the table, the epoll set nor events.      *)
LEMMA ReachQuiet ==
  ASSUME TypeInv, ReachInv, UNCHANGED <<table, interest, events>>,
         NEW t \in Threads, Others(t), \A u \in Threads \ {t} : batch'[u] = batch[u],
         KnownBy(t)', pc'[t] = "grow" => op'[t].fd >= InitSize
  PROVE  ReachInv'
BY ReachFrame, EpollKnownSame, ReachableSame

LEMMA ReachEnvironment ==
  ASSUME TypeInv, ReachInv, Environment
  PROVE  ReachInv'
<1>1. PICK fd \in Fds :
        \/ \E k \in Events \cup {"HUP"} : Arrive(fd, k)
        \/ \E e \in Events : Drain(fd, e) \/ Resume(fd, e)
        \/ Close(fd)
  BY DEF Environment
<1>2. UNCHANGED <<table, events, pc, op, batch>>
  BY <1>1 DEF Arrive, Drain, Resume, Close, ctxs
<1>3. \A x \in Fds : EpollKnown(x)'
  <2>1. CASE Close(fd)
    <3>1. \A x \in Fds : interest'[x] = interest[x] \/ interest'[x] = NotRegistered
      BY <2>1 DEF Close, TypeInv, KernelType
    <3> QED BY <1>2, <3>1 DEF ReachInv, EpollKnown, NotRegistered, table
  <2>2. CASE ~Close(fd)
    <3>1. UNCHANGED interest
      BY <1>1, <2>2 DEF Arrive, Drain, Resume, kernel
    <3> QED BY <1>2, <3>1, EpollKnownSame
  <2> QED BY <2>1, <2>2
<1>4. EventsReachable'
  BY <1>2, ReachableSame
<1>5. TableInv' /\ \A u \in Threads : KnownBy(u)'
  BY <1>2 DEF ReachInv, TableInv, KnownBy, table
<1> QED BY <1>3, <1>4, <1>5 DEF ReachInv

LEMMA ReachEnter ==
  ASSUME TypeInv, ReachInv, NEW t \in Threads, NEW k \in Calls, NEW fd \in Fds,
         NEW e \in Events, Enter(t, k, fd, e)
  PROVE  ReachInv'
<1> DEFINE o == [NoOp EXCEPT !.kind = k, !.fd = fd, !.ev = e]
<1>1. o.gen = 0
  BY NoOpType, NoOpGen, IOManagerAssumption DEF Ops
<1>2. pc' = [pc EXCEPT ![t] = "reading"] /\ op' = [op EXCEPT ![t] = o]
  BY DEF Enter
<1> HIDE DEF o
<1>3. Others(t) /\ pc'[t] = "reading" /\ op'[t] = o
  BY <1>2, Moves DEF TypeInv
<1>4. UNCHANGED <<table, interest, events, batch>>
  BY DEF Enter, kernel, ctxs
<1>5. KnownBy(t)'
  BY <1>1, <1>3, <1>4, KnownSame
<1> QED BY <1>3, <1>4, <1>5, ReachQuiet

(* What a step of a call or of the loop does to its thread.                *)
LEMMA Clears ==
  ASSUME TypeInv, NEW t \in Threads,
         pc' = [pc EXCEPT ![t] = "free"], op' = [op EXCEPT ![t] = NoOp]
  PROVE  Others(t) /\ pc'[t] = "free" /\ op'[t].gen = 0 /\ op'[t] = NoOp
BY NoOpGen, Moves DEF TypeInv

LEMMA ReachLookUp ==
  ASSUME TypeInv, ReachInv, NEW t \in Threads,
         Found(t) \/ TooSmall(t) \/ NoContext(t) \/ AddFails(t)
         \/ EventMissing(t) \/ NothingToCancel(t)
  PROVE  ReachInv'
<1>1. UNCHANGED <<table, interest, events, batch>>
  BY DEF Found, TooSmall, NoContext, AddFails, EventMissing, NothingToCancel,
         kernel, ctxs
<1>2. CASE Found(t)
  <2>1. Others(t) /\ pc'[t] = "lock"
    BY <1>2 DEF Found, TypeInv, ThreadType, Others
  <2>2. op'[t].fd = op[t].fd /\ op'[t].gen = m_fdContexts[op[t].fd]
    BY <1>2 DEF Found, TypeInv, ThreadType
  <2>3. KnownBy(t)'
    BY <1>1, <2>2 DEF KnownBy, ReachInv, table
  <2> QED BY <1>1, <2>1, <2>3, ReachQuiet
<1>3. CASE TooSmall(t)
  <2>1. Others(t) /\ pc'[t] = "grow" /\ op'[t] = op[t]
    BY <1>3, MovesPc DEF TooSmall, TypeInv
  <2>2. op[t].fd >= InitSize
    <3>1. m_size <= op[t].fd /\ m_size >= InitSize
      BY <1>3 DEF TooSmall, ReachInv, TableInv
    <3>2. m_size \in Nat /\ InitSize \in Nat /\ op[t].fd \in Nat
      BY OpAt, IOManagerAssumption DEF TypeInv, TableType
    <3> QED BY <3>1, <3>2
  <2>3. KnownBy(t)'
    BY <1>1, <2>1, KnownSame
  <2> QED BY <1>1, <2>1, <2>2, <2>3, ReachQuiet
<1>4. CASE NoContext(t) \/ AddFails(t) \/ EventMissing(t) \/ NothingToCancel(t)
  <2>1. Others(t) /\ pc'[t] = "free" /\ op'[t].gen = 0
    BY <1>4, Clears DEF NoContext, AddFails, EventMissing, NothingToCancel, Return
  <2>2. KnownBy(t)'
    BY <1>1, <2>1, KnownSame
  <2> QED BY <1>1, <2>1, <2>2, ReachQuiet
<1> QED BY <1>2, <1>3, <1>4

LEMMA ReachTakes ==
  ASSUME TypeInv, ReachInv, NEW t \in Threads,
         AddRegisters(t) \/ EventLeaves(t) \/ AllLeave(t)
  PROVE  ReachInv'
<1>1. UNCHANGED <<table, events, batch>> /\ pc[t] = "lock"
  BY DEF AddRegisters, EventLeaves, AllLeave, Locking, ctxs
<1>2. Others(t) /\ pc'[t] # "grow"
  BY DEF AddRegisters, EventLeaves, AllLeave, TypeInv, ThreadType, Others
<1>3. op'[t].gen = op[t].gen /\ op'[t].fd = op[t].fd
  BY DEF AddRegisters, EventLeaves, AllLeave, TypeInv, ThreadType
<1>4. \E evs : EpollCtl(op[t].fd, op[t].gen, evs)
  BY DEF AddRegisters, EventLeaves, AllLeave
<1>5. op[t].fd \in Fds /\ op[t].gen = m_fdContexts[op[t].fd]
  BY <1>1, CtxKnown DEF Located
<1>6. \A fd \in Fds : EpollKnown(fd)'
  BY <1>1, <1>4, <1>5, EpollKnownCtl
<1>7. KnownBy(t)'
  BY <1>1, <1>3, KnownSame
<1> QED BY <1>1, <1>2, <1>6, <1>7, ReachFrame, ReachableSame

LEMMA ReachStores ==
  ASSUME TypeInv, ReachInv, NEW t \in Threads, AddStores(t) \/ DelStores(t)
  PROVE  ReachInv'
<1>1. UNCHANGED <<table, interest, batch>> /\ pc[t] \in Located
  BY DEF AddStores, DelStores, kernel, Located, Holding
<1>2. Others(t) /\ pc'[t] = "free" /\ op'[t].gen = 0
  BY Clears DEF AddStores, DelStores, Return
<1>3. PICK S : events' = [events EXCEPT ![Ctx(t)] = S]
  BY DEF AddStores, DelStores
<1>4. EventsReachable'
  BY <1>1, <1>3, ReachableMoves
<1>5. KnownBy(t)'
  BY <1>1, <1>2, KnownSame
<1> QED BY <1>1, <1>2, <1>4, <1>5, ReachFrame, EpollKnownSame

LEMMA ReachWait ==
  ASSUME TypeInv, ReachInv, NEW t \in Threads, NEW fds \in SUBSET rdlist,
         EpollWait(t, fds)
  PROVE  ReachInv'
<1>1. UNCHANGED <<table, interest, events, pc, op>>
  BY DEF EpollWait, ctxs
<1>2. Others(t) /\ \A u \in Threads \ {t} : batch'[u] = batch[u]
  BY <1>1 DEF EpollWait, Others, TypeInv, ThreadType
<1>3. batch'[t] = {b \in {Entry(fd) : fd \in fds} : b.mask # {}}
  BY DEF EpollWait, TypeInv, ThreadType
<1>4. ASSUME NEW b \in batch'[t] PROVE b.gen = m_fdContexts[b.fd]
  <2>1. PICK fd \in fds : b = Entry(fd)
    BY <1>3, <1>4
  <2>2. b.fd = fd /\ b.gen = interest[fd].gen
    BY <2>1 DEF Entry
  <2>3. fd \in Fds /\ interest[fd].gen # 0
    BY DEF TypeInv, KernelType
  <2> QED BY <2>2, <2>3 DEF ReachInv, EpollKnown
<1>5. KnownBy(t)'
  BY <1>1, <1>4 DEF KnownBy, ReachInv, table
<1>6. pc'[t] = "grow" => op'[t].fd >= InitSize
  BY <1>1 DEF ReachInv, TableInv
<1> QED BY <1>1, <1>2, <1>5, <1>6, ReachQuiet

(* An entry of a batch is for the context in the table.                    *)
LEMMA BatchKnown ==
  ASSUME TypeInv, ReachInv, NEW t \in Threads, NEW b \in batch[t]
  PROVE  /\ b.fd \in Fds /\ b.gen \in 1..MaxGen /\ b.mask \in Masks
         /\ b.gen = m_fdContexts[b.fd]
BY DEF TypeInv, ThreadType, ReachInv, KnownBy

LEMMA ReachDispatch ==
  ASSUME TypeInv, ReachInv, NEW t \in Threads, NEW b \in batch[t], NEW c \in Ctxs,
         EventStale(t, b, c) \/ EventFires(t, b, c)
  PROVE  ReachInv'
<1>1. UNCHANGED <<table, events>>
  BY DEF EventStale, EventFires, ctxs
<1>2. batch'[t] \subseteq batch[t] /\ \A u \in Threads \ {t} : batch'[u] = batch[u]
  BY DEF EventStale, EventFires, Polling, TypeInv, ThreadType
<1>3. CASE EventStale(t, b, c)
  <2>1. UNCHANGED <<interest, pc, op>>
    BY <1>3 DEF EventStale, kernel
  <2>2. KnownBy(t)' /\ Others(t)
    BY <1>1, <1>2, <2>1, KnownSame DEF Others
  <2>3. pc'[t] = "grow" => op'[t].fd >= InitSize
    BY <2>1 DEF ReachInv, TableInv
  <2> QED BY <1>1, <1>2, <2>1, <2>2, <2>3, ReachQuiet
<1>4. CASE EventFires(t, b, c)
  <2> DEFINE real == RealEvents(b, events[c])
             o == Polled(NoOp, b.fd, b.gen, real)
  <2>1. pc' = [pc EXCEPT ![t] = "trigger"] /\ op' = [op EXCEPT ![t] = o]
    BY <1>4 DEF EventFires, Polled
  <2>2. o.gen = b.gen /\ o.fd = b.fd
    BY NoOpType DEF Polled, Ops
  <2>3. EpollCtl(b.fd, b.gen, LeftEvents(events[c], real))
    BY <1>4 DEF EventFires
  <2> HIDE DEF o, real
  <2>4. Others(t) /\ pc'[t] = "trigger" /\ op'[t] = o
    BY <2>1, Moves DEF TypeInv
  <2>5. KnownBy(t)'
    BY <1>1, <1>2, <2>2, <2>4, BatchKnown DEF ReachInv, KnownBy, table
  <2>6. \A fd \in Fds : EpollKnown(fd)'
    BY <1>1, <2>3, BatchKnown, EpollKnownCtl
  <2> QED BY <1>1, <1>2, <2>4, <2>5, <2>6, ReachFrame, ReachableSame
<1> QED BY <1>3, <1>4

LEMMA ReachWake ==
  ASSUME TypeInv, ReachInv, NEW t \in Threads, Wake(t)
  PROVE  ReachInv'
<1>1. UNCHANGED <<table, interest, batch>> /\ pc[t] \in Located
  BY DEF Wake, Trigger, CountNext, CountEnds, kernel, Located, Holding
<1>2. EventsReachable'
  <2>1. CASE Trigger(t)
    <3>1. PICK S : events' = [events EXCEPT ![Ctx(t)] = S]
      BY <2>1 DEF Trigger, triggerEvent
    <3> QED BY <1>1, <3>1, ReachableMoves
  <2>2. CASE CountNext(t) \/ CountEnds(t)
    <3>1. UNCHANGED events
      BY <2>2 DEF CountNext, CountEnds, ctxs
    <3> QED BY <1>1, <3>1, ReachableSame
  <2> QED BY <2>1, <2>2 DEF Wake
<1>3. /\ Others(t) /\ pc'[t] # "grow"
      /\ op'[t].gen = 0 \/ (op'[t].gen = op[t].gen /\ op'[t].fd = op[t].fd)
  <2>1. CASE Trigger(t)
    BY <2>1, MovesPc DEF Trigger, TypeInv
  <2>2. CASE CountNext(t)
    <3>1. Others(t) /\ pc'[t] = "trigger"
      BY <2>2 DEF CountNext, TypeInv, ThreadType, Others
    <3>2. op'[t].gen = op[t].gen /\ op'[t].fd = op[t].fd
      BY <2>2 DEF CountNext, TypeInv, ThreadType
    <3> QED BY <3>1, <3>2
  <2>3. CASE CountEnds(t)
    BY <2>3, Clears DEF CountEnds, Return
  <2> QED BY <2>1, <2>2, <2>3 DEF Wake
<1>4. KnownBy(t)'
  BY <1>1, <1>3, KnownSame
<1> QED BY <1>1, <1>2, <1>3, <1>4, ReachFrame, EpollKnownSame

LEMMA ReachStep ==
  ASSUME Near
  PROVE  TypeInv /\ ReachInv /\ [Next]_vars => ReachInv'
<1> SUFFICES ASSUME TypeInv, ReachInv, [Next]_vars PROVE ReachInv'
  OBVIOUS
<1>1. CASE UNCHANGED vars
  BY <1>1 DEF vars, table, kernel, ctxs, ReachInv, TableInv, KnownBy, EpollKnown,
              EventsReachable
<1>2. CASE Step
  <2>1. CASE Environment
    BY <2>1, ReachEnvironment
  <2>2. ASSUME NEW t \in Threads,
               \/ \E k \in Calls, fd \in Fds, e \in Events : Enter(t, k, fd, e)
               \/ Call(t) \/ Poll(t) \/ Dispatch(t) \/ Wake(t)
        PROVE  ReachInv'
    <3>1. CASE \E k \in Calls, fd \in Fds, e \in Events : Enter(t, k, fd, e)
      BY <3>1, ReachEnter
    <3>6. CASE AddAsserts(t)
      <4>1. UNCHANGED <<table, kernel, ctxs, pc, op, batch>>
        BY <3>6 DEF AddAsserts
      <4> QED BY <4>1 DEF table, kernel, ctxs, ReachInv, TableInv, KnownBy,
                  EpollKnown, EventsReachable
    <3>2. CASE Call(t)
      BY <3>2, <3>6, ReachLookUp, ReachGrow, ReachTakes, ReachStores DEF Call
    <3>3. CASE Poll(t)
      BY <3>3, ReachWait DEF Poll
    <3>4. CASE Dispatch(t)
      BY <3>4, ReachDispatch DEF Dispatch
    <3>5. CASE Wake(t)
      BY <3>5, ReachWake
    <3> QED BY <2>2, <3>1, <3>2, <3>3, <3>4, <3>5
  <2> QED BY <1>2, <2>1, <2>2 DEF Step
<1> QED BY <1>1, <1>2 DEF Next, Done

LEMMA ReachAlways ==
  ASSUME Near
  PROVE  Spec => [](SafeInv /\ AssertInv /\ ReachInv)
<1>1. SafeInv => TypeInv
  BY DEF SafeInv
<1>2. TypeInv /\ ReachInv /\ [Next]_vars => ReachInv'
  BY ReachStep
<1> QED BY <1>1, <1>2, ReachInit, SafeAlways, PTL DEF Spec

(* While the descriptors beyond the first table are near to each other,    *)
(* every registered event is in the context that delEvent, cancelEvent and *)
(* cancelAll look up, however addEvent, contextResize and the stale        *)
(* results of epoll_wait overlap, and whatever is closed.                  *)
THEOREM EventsFound ==
  ASSUME Near
  PROVE  Spec => []EventsReachable
<1>1. ReachInv => EventsReachable
  BY DEF ReachInv
<1> QED BY <1>1, ReachAlways, PTL

-----------------------------------------------------------------------------
(* No descriptor is closed behind the back of the epoll set.               *)
NoClose == "close" \notin Uses

(* The mutex of a context is held by a thread that is past epoll_ctl.      *)
HolderOf(c) ==
  /\ lock[c] \in Threads /\ pc[lock[c]] \in Holding /\ Ctx(lock[c]) = c
HolderInv == \A c \in Ctxs : lock[c] # Null => HolderOf(c)

(* What will be registered when t releases the mutex.                      *)
Intent(t) ==
  CASE pc[t] = "added" -> events[Ctx(t)] \cup {op[t].ev}
    [] pc[t] = "deleted" -> events[Ctx(t)] \ {op[t].ev}
    [] OTHER -> events[Ctx(t)] \ op[t].todo

Registration(g, evs) ==
  IF evs = {} THEN NotRegistered ELSE [gen |-> g, events |-> evs]

(* The epoll set is ahead of events by what the holder has still to store. *)
Agrees(fd, g) ==
  /\ lock[<<fd, g>>] = Null => interest[fd] = Registration(g, events[<<fd, g>>])
  /\ \A u \in Threads :
       lock[<<fd, g>>] = u => interest[fd] = Registration(g, Intent(u))
AgreeAt(fd) ==
  \A g \in 0..MaxGen :
    m_fdContexts[fd] = g =>
      IF g = 0 THEN interest[fd] = NotRegistered ELSE Agrees(fd, g)
AgreeInv == HolderInv /\ \A fd \in Fds : AgreeAt(fd)

LEMMA AgreeInit == Init => AgreeInv
<1> SUFFICES ASSUME Init PROVE AgreeInv
  OBVIOUS
<1>1. HolderInv
  BY DEF Init, HolderInv
<1>2. ASSUME NEW fd \in Fds PROVE AgreeAt(fd)
  <2>1. interest[fd] = NotRegistered
    BY DEF Init
  <2>2. ASSUME NEW g \in 0..MaxGen, m_fdContexts[fd] = g, g # 0 PROVE Agrees(fd, g)
    <3>1. <<fd, g>> \in Ctxs
      BY <2>2, IOManagerAssumption DEF Ctxs
    <3>2. lock[<<fd, g>>] = Null /\ events[<<fd, g>>] = {} /\ Null \notin Threads
      BY <3>1, IOManagerAssumption DEF Init
    <3> QED BY <2>1, <3>2 DEF Agrees, Registration
  <2> QED BY <2>1, <2>2 DEF AgreeAt
<1> QED BY <1>1, <1>2 DEF AgreeInv

LEMMA CurrentCtx ==
  ASSUME TypeInv, NEW fd \in Fds, m_fdContexts[fd] # 0
  PROVE  <<fd, m_fdContexts[fd]>> \in Ctxs
BY IOManagerAssumption DEF TypeInv, TableType, Ctxs

LEMMA IntentSame ==
  ASSUME NEW u \in Threads, pc'[u] = pc[u], op'[u] = op[u],
         events'[Ctx(u)] = events[Ctx(u)]
  PROVE  Intent(u)' = Intent(u)
<1>1. Ctx(u)' = Ctx(u)
  BY SameCtx
<1> QED BY <1>1 DEF Intent

(* A step of t does not touch the context of fd.                           *)
LEMMA AgreeElse ==
  ASSUME TypeInv, AgreeInv, UNCHANGED table, NEW t \in Threads, Others(t),
         NEW fd \in Fds, interest'[fd] = interest[fd],
         m_fdContexts[fd] # 0 =>
           LET c == <<fd, m_fdContexts[fd]>> IN
           lock'[c] = lock[c] /\ events'[c] = events[c] /\ lock[c] # t
  PROVE  AgreeAt(fd)'
<1> SUFFICES ASSUME NEW g \in 0..MaxGen, m_fdContexts'[fd] = g
             PROVE  IF g = 0 THEN interest'[fd] = NotRegistered ELSE Agrees(fd, g)'
  BY DEF AgreeAt, NotRegistered
<1>1. m_fdContexts[fd] = g /\ AgreeAt(fd)
  BY DEF AgreeInv, table
<1>2. CASE g = 0
  BY <1>1, <1>2 DEF AgreeAt
<1>3. CASE g # 0
  <2> DEFINE c == <<fd, g>>
  <2>1. c \in Ctxs /\ lock'[c] = lock[c] /\ events'[c] = events[c] /\ lock[c] # t
    BY <1>1, <1>3, CurrentCtx
  <2>2. Agrees(fd, g)
    BY <1>1, <1>3 DEF AgreeAt
  <2>3. ASSUME NEW u \in Threads, lock[c] = u PROVE Intent(u)' = Intent(u)
    <3>1. HolderOf(c)
      BY <2>1, <2>3, IOManagerAssumption DEF AgreeInv, HolderInv
    <3> QED BY <2>1, <2>3, <3>1, IntentSame DEF Others, HolderOf
  <2> QED BY <1>3, <2>1, <2>2, <2>3 DEF Agrees, Registration, NotRegistered
<1> QED BY <1>2, <1>3

(* The holders that a step of t leaves alone.                              *)
LEMMA HolderElse ==
  ASSUME HolderInv, NEW t \in Threads, Others(t), NEW c \in Ctxs,
         lock'[c] = lock[c], lock[c] # t, lock[c] # Null
  PROVE  HolderOf(c)'
<1>1. HolderOf(c)
  BY DEF HolderInv
<1>2. PICK u \in Threads \ {t} : lock[c] = u /\ Ctx(u) = c /\ pc[u] \in Holding
  BY <1>1 DEF HolderOf
<1>3. pc'[u] = pc[u] /\ Ctx(u)' = Ctx(u)
  BY SameCtx DEF Others
<1> QED BY <1>2, <1>3 DEF HolderOf

LEMMA NotHolder ==
  ASSUME HolderInv, NEW t \in Threads, pc[t] \notin Holding, NEW c \in Ctxs
  PROVE  lock[c] # t
<1> SUFFICES ASSUME lock[c] = t PROVE FALSE
  OBVIOUS
<1>1. t # Null
  BY IOManagerAssumption
<1> QED BY <1>1 DEF HolderInv, HolderOf

(* A step of a thread that holds no mutex and takes none.                  *)
LEMMA AgreeQuiet ==
  ASSUME TypeInv, AgreeInv, NEW t \in Threads, Others(t), pc[t] \notin Holding,
         UNCHANGED <<table, interest, events, lock>>
  PROVE  AgreeInv'
<1>1. \A c \in Ctxs : lock[c] # t
  BY NotHolder DEF AgreeInv
<1>2. HolderInv'
  BY <1>1, HolderElse DEF AgreeInv, HolderInv
<1>3. ASSUME NEW fd \in Fds PROVE AgreeAt(fd)'
  BY <1>1, CurrentCtx, AgreeElse
<1> QED BY <1>2, <1>3 DEF AgreeInv

(* A step of t that registers evs and takes the mutex.                     *)
LEMMA AgreeTakes ==
  ASSUME TypeInv, AgreeInv, UNCHANGED table, UNCHANGED events,
         NEW t \in Threads, Others(t), pc[t] \notin Holding, pc'[t] \in Holding,
         NEW fd \in Fds, m_fdContexts[fd] # 0, NEW evs,
         Ctx(t)' = <<fd, m_fdContexts[fd]>>,
         lock' = [lock EXCEPT ![<<fd, m_fdContexts[fd]>>] = t],
         EpollCtl(fd, m_fdContexts[fd], evs), Intent(t)' = evs
  PROVE  AgreeInv'
<1> DEFINE g == m_fdContexts[fd]
           c == <<fd, g>>
<1>1. \A d \in Ctxs : lock[d] # t
  BY NotHolder DEF AgreeInv
<1>2. c \in Ctxs
  BY CurrentCtx
<1>3. lock'[c] = t /\ \A d \in Ctxs \ {c} : lock'[d] = lock[d]
  BY <1>2 DEF TypeInv
<1>4. HolderInv'
  <2> SUFFICES ASSUME NEW d \in Ctxs, lock'[d] # Null PROVE HolderOf(d)'
    BY DEF HolderInv
  <2>1. CASE d = c
    BY <1>3, <2>1 DEF HolderOf
  <2>2. CASE d # c
    BY <1>1, <1>3, <2>2, HolderElse DEF AgreeInv
  <2> QED BY <2>1, <2>2
<1>5. ASSUME NEW x \in Fds PROVE AgreeAt(x)'
  <2>1. CASE x = fd
    <3>1. interest'[fd] = Registration(g, evs)
      BY DEF EpollCtl, Registration, TypeInv, KernelType
    <3>2. t # Null /\ m_fdContexts' = m_fdContexts
      BY IOManagerAssumption DEF table
    <3>3. ASSUME NEW h \in 0..MaxGen, h = g PROVE Agrees(fd, h)'
      BY <1>3, <3>1, <3>2, <3>3 DEF Agrees, Registration, NotRegistered
    <3> QED BY <2>1, <3>2, <3>3 DEF AgreeAt
  <2>2. CASE x # fd
    <3>1. interest'[x] = interest[x]
      BY <2>2 DEF EpollCtl, TypeInv, KernelType
    <3>2. m_fdContexts[x] # 0 => /\ <<x, m_fdContexts[x]>> \in Ctxs
                                 /\ <<x, m_fdContexts[x]>> # c
      BY <2>2, CurrentCtx
    <3> QED BY <1>1, <1>3, <3>1, <3>2, AgreeElse
  <2> QED BY <2>1, <2>2
<1> QED BY <1>4, <1>5 DEF AgreeInv

(* A step of t inside the mutex, or the one that releases it: what remains *)
(* to be stored is the same, or has been stored.                           *)
LEMMA AgreeHeld ==
  ASSUME TypeInv, LockInv, ReachInv, AgreeInv, UNCHANGED <<table, interest>>,
         NEW t \in Threads, Others(t), pc[t] \in Holding,
         \A d \in Ctxs \ {Ctx(t)} : events'[d] = events[d],
         \/ /\ lock' = lock /\ pc'[t] \in Holding /\ Ctx(t)' = Ctx(t)
            /\ Intent(t)' = Intent(t)
         \/ lock' = [lock EXCEPT ![Ctx(t)] = Null] /\ events'[Ctx(t)] = Intent(t)
  PROVE  AgreeInv'
<1> DEFINE fd == op[t].fd
           g == op[t].gen
           c == Ctx(t)
<1>1. fd \in Fds /\ g = m_fdContexts[fd] /\ g # 0 /\ c \in Ctxs /\ c = <<fd, g>>
  BY CtxKnown, CtxType1 DEF Located, Ctx
<1>2. lock[c] = t /\ t # Null
  BY IOManagerAssumption DEF LockInv, LockAt
<1>3. \A d \in Ctxs \ {c} : lock'[d] = lock[d] /\ lock[d] # t
  <2> SUFFICES ASSUME NEW d \in Ctxs \ {c} PROVE lock'[d] = lock[d] /\ lock[d] # t
    OBVIOUS
  <2>1. lock'[d] = lock[d]
    BY DEF TypeInv
  <2>2. lock[d] # t
    BY <1>2 DEF AgreeInv, HolderInv, HolderOf
  <2> QED BY <2>1, <2>2
<1>4. HolderInv'
  <2> SUFFICES ASSUME NEW d \in Ctxs, lock'[d] # Null PROVE HolderOf(d)'
    BY DEF HolderInv
  <2>1. CASE d = c
    <3>1. lock' = lock /\ pc'[t] \in Holding /\ Ctx(t)' = c
      BY <1>1, <2>1 DEF TypeInv
    <3> QED BY <1>2, <2>1, <3>1 DEF HolderOf
  <2>2. CASE d # c
    BY <1>3, <2>2, HolderElse DEF AgreeInv
  <2> QED BY <2>1, <2>2
<1>5. ASSUME NEW x \in Fds PROVE AgreeAt(x)'
  <2>0. m_fdContexts' = m_fdContexts /\ interest' = interest
    BY DEF table
  <2>1. CASE x = fd
    <3>1. interest[fd] = Registration(g, Intent(t))
      <4>1. g \in 0..MaxGen
        BY OpAt DEF TypeInv
      <4>2. Agrees(fd, g)
        BY <1>1, <4>1 DEF AgreeInv, AgreeAt
      <4> QED BY <1>1, <1>2, <4>2 DEF Agrees
    <3> SUFFICES ASSUME NEW h \in 0..MaxGen, h = g PROVE Agrees(x, h)'
      BY <1>1, <2>0, <2>1 DEF AgreeAt
    <3>2. <<x, h>> = c
      BY <1>1, <2>1
    <3>3. interest'[x] = Registration(h, Intent(t))
      BY <2>0, <2>1, <3>1
    <3>4. CASE lock' = lock /\ Intent(t)' = Intent(t)
      BY <1>2, <3>2, <3>3, <3>4 DEF Agrees, Registration, NotRegistered
    <3>5. CASE lock' = [lock EXCEPT ![c] = Null] /\ events'[c] = Intent(t)
      <4>1. lock'[c] = Null /\ Null \notin Threads
        BY <1>1, <3>5, IOManagerAssumption DEF TypeInv
      <4> QED BY <3>2, <3>3, <3>5, <4>1 DEF Agrees, Registration, NotRegistered
    <3> QED BY <3>4, <3>5
  <2>2. CASE x # fd
    <3>1. m_fdContexts[x] # 0 => <<x, m_fdContexts[x]>> \in Ctxs \ {c}
      BY <1>1, <2>2, CurrentCtx
    <3> QED BY <1>3, <2>0, <3>1, AgreeElse
  <2> QED BY <2>1, <2>2
<1> QED BY <1>4, <1>5 DEF AgreeInv

LEMMA AgreeGrow ==
  ASSUME Near, TypeInv, ReachInv, AgreeInv, NEW t \in Threads, Grow(t), TypeInv'
  PROVE  AgreeInv'
<1>1. Others(t) /\ pc[t] \notin Holding /\ UNCHANGED <<interest, events, lock>>
  BY DEF Grow, TypeInv, ThreadType, Others, Holding, kernel, ctxs
<1>2. \A c \in Ctxs : lock[c] # t
  BY <1>1, NotHolder DEF AgreeInv
<1>3. HolderInv'
  BY <1>1, <1>2, HolderElse DEF AgreeInv, HolderInv
<1>4. ASSUME NEW fd \in Fds PROVE AgreeAt(fd)'
  <2> SUFFICES ASSUME NEW h \in 0..MaxGen, m_fdContexts'[fd] = h
               PROVE  IF h = 0 THEN interest'[fd] = NotRegistered ELSE Agrees(fd, h)'
    BY DEF AgreeAt, NotRegistered
  <2>1. AgreeAt(fd) /\ (m_fdContexts[fd] # 0 => m_fdContexts[fd] = h)
    BY GrowKeeps DEF AgreeInv
  <2>2. CASE m_fdContexts[fd] # 0
    <3> DEFINE c == <<fd, h>>
    <3>1. c \in Ctxs /\ Agrees(fd, h) /\ h # 0
      BY <2>1, <2>2, CurrentCtx DEF AgreeAt
    <3>2. ASSUME NEW u \in Threads, lock[c] = u PROVE Intent(u)' = Intent(u)
      BY <1>1, <1>2, <3>1, <3>2, IntentSame DEF Others
    <3> QED BY <1>1, <3>1, <3>2 DEF Agrees, Registration, NotRegistered
  <2>3. CASE m_fdContexts[fd] = 0
    <3>1. interest[fd] = NotRegistered
      BY <2>1, <2>3, IOManagerAssumption DEF AgreeAt
    <3>2. CASE h = 0
      BY <1>1, <3>1, <3>2
    <3>3. CASE h # 0
      <4>1. <<fd, h>> \in Ctxs /\ h \in 1..MaxGen
        BY <3>3, IOManagerAssumption DEF Ctxs
      <4>2. events[<<fd, h>>] = {}
        BY <2>3, <3>3, <4>1 DEF ReachInv, EventsReachable
      <4>3. lock[<<fd, h>>] = Null
        <5> SUFFICES ASSUME lock[<<fd, h>>] # Null PROVE FALSE
          OBVIOUS
        <5>1. PICK u \in Threads : pc[u] \in Holding /\ Ctx(u) = <<fd, h>>
          BY <4>1 DEF AgreeInv, HolderInv, HolderOf
        <5>2. op[u].fd = fd /\ op[u].gen = m_fdContexts[op[u].fd] /\ op[u].gen # 0
          BY <5>1, CtxKnown DEF Located, Ctx
        <5> QED BY <2>3, <5>2
      <4> QED BY <1>1, <3>1, <3>3, <4>2, <4>3, IOManagerAssumption
              DEF Agrees, Registration, NotRegistered
    <3> QED BY <3>2, <3>3
  <2> QED BY <2>2, <2>3
<1> QED BY <1>3, <1>4 DEF AgreeInv

LEMMA AgreeSame ==
  ASSUME AgreeInv, UNCHANGED <<table, interest, events, lock, pc, op>>
  PROVE  AgreeInv'
<1>1. \A u \in Threads : Intent(u)' = Intent(u)
  BY IntentSame
<1>2. HolderInv'
  BY DEF AgreeInv, HolderInv, HolderOf, Ctx
<1>3. ASSUME NEW fd \in Fds, NEW g \in 0..MaxGen, Agrees(fd, g) PROVE Agrees(fd, g)'
  BY <1>1, <1>3 DEF Agrees, Registration, NotRegistered
<1>4. \A fd \in Fds : AgreeAt(fd)'
  BY <1>3 DEF AgreeInv, AgreeAt, NotRegistered, table
<1> QED BY <1>2, <1>4 DEF AgreeInv

LEMMA AgreeEnvironment ==
  ASSUME NoClose, TypeInv, AgreeInv, Environment
  PROVE  AgreeInv'
<1>1. UNCHANGED <<table, interest, events, lock, pc, op>>
  BY DEF Environment, NoClose, Arrive, Drain, Resume, Close, kernel, ctxs
<1> QED BY <1>1, AgreeSame

LEMMA AgreeLookUp ==
  ASSUME TypeInv, AgreeInv, NEW t \in Threads,
         Found(t) \/ TooSmall(t) \/ NoContext(t) \/ AddFails(t)
         \/ EventMissing(t) \/ NothingToCancel(t)
  PROVE  AgreeInv'
<1>1. UNCHANGED <<table, interest, events, lock>> /\ pc[t] \notin Holding
  BY DEF Found, TooSmall, NoContext, AddFails, EventMissing, NothingToCancel,
         Locking, Holding, kernel, ctxs
<1>2. Others(t)
  BY DEF Found, TooSmall, NoContext, AddFails, EventMissing, NothingToCancel,
         Return, Others, TypeInv, ThreadType
<1> QED BY <1>1, <1>2, AgreeQuiet

LEMMA AgreeEnter ==
  ASSUME TypeInv, AgreeInv, NEW t \in Threads, NEW k \in Calls, NEW fd \in Fds,
         NEW e \in Events, Enter(t, k, fd, e)
  PROVE  AgreeInv'
<1>1. UNCHANGED <<table, interest, events, lock>> /\ pc[t] \notin Holding
  BY DEF Enter, Holding, kernel, ctxs
<1>2. Others(t)
  BY DEF Enter, Others, TypeInv, ThreadType
<1> QED BY <1>1, <1>2, AgreeQuiet

LEMMA AgreePoll ==
  ASSUME TypeInv, AgreeInv, NEW t \in Threads, Poll(t)
  PROVE  AgreeInv'
<1>1. UNCHANGED <<table, interest, events, lock, pc, op>> /\ pc[t] = "free"
  BY DEF Poll, EpollWait, ctxs
<1> QED BY <1>1, AgreeQuiet DEF Others, Holding

(* addEvent, delEvent and cancelEvent, cancelAll: up to epoll_ctl.         *)
LEMMA AgreeRegisters ==
  ASSUME TypeInv, ReachInv, AgreeInv, NEW t \in Threads,
         AddRegisters(t) \/ EventLeaves(t) \/ AllLeave(t)
  PROVE  AgreeInv'
<1> DEFINE fd == op[t].fd
           g == op[t].gen
           c == Ctx(t)
<1>1. UNCHANGED table /\ UNCHANGED events /\ pc[t] = "lock"
  BY DEF AddRegisters, EventLeaves, AllLeave, Locking, ctxs
<1>2. fd \in Fds /\ g = m_fdContexts[fd] /\ g # 0 /\ c = <<fd, g>>
  BY <1>1, CtxKnown DEF Located, Ctx
<1>3. Others(t) /\ pc[t] \notin Holding /\ lock' = [lock EXCEPT ![c] = t]
  BY <1>1 DEF AddRegisters, EventLeaves, AllLeave, Hold, TypeInv, ThreadType, Others,
              Holding
<1>4. CASE AddRegisters(t)
  <2>1. pc'[t] = "added" /\ op' = op /\ Ctx(t)' = c
    BY <1>4 DEF AddRegisters, TypeInv, ThreadType, Ctx
  <2>2. EpollCtl(fd, g, events[c] \cup {op[t].ev})
    BY <1>4 DEF AddRegisters, AddMask
  <2>3. Intent(t)' = events[c] \cup {op[t].ev}
    BY <1>1, <2>1 DEF Intent
  <2> QED BY <1>1, <1>2, <1>3, <2>1, <2>2, <2>3, AgreeTakes DEF Holding
<1>5. CASE EventLeaves(t)
  <2>1. /\ op'[t].fd = fd /\ op'[t].gen = g /\ op'[t].ev = op[t].ev
        /\ op'[t].todo = {op[t].ev} /\ pc'[t] \in {"deleted", "trigger"}
    BY <1>5 DEF EventLeaves, TypeInv, ThreadType
  <2>2. Ctx(t)' = c
    BY <2>1 DEF Ctx
  <2>3. EpollCtl(fd, g, events[c] \ {op[t].ev})
    BY <1>5 DEF EventLeaves
  <2>4. Intent(t)' = events[c] \ {op[t].ev}
    BY <1>1, <2>1, <2>2 DEF Intent
  <2>5. pc'[t] \in Holding
    BY <2>1 DEF Holding
  <2> QED BY <1>1, <1>2, <1>3, <2>2, <2>3, <2>4, <2>5, AgreeTakes
<1>6. CASE AllLeave(t)
  <2>1. /\ op'[t].fd = fd /\ op'[t].gen = g
        /\ op'[t].todo = events[c] /\ pc'[t] = "trigger"
    BY <1>6 DEF AllLeave, TypeInv, ThreadType
  <2>2. Ctx(t)' = c
    BY <2>1 DEF Ctx
  <2>3. EpollCtl(fd, g, {})
    BY <1>6 DEF AllLeave
  <2>4. Intent(t)' = {}
    BY <1>1, <2>1, <2>2 DEF Intent
  <2>5. pc'[t] \in Holding
    BY <2>1 DEF Holding
  <2> QED BY <1>1, <1>2, <1>3, <2>2, <2>3, <2>4, <2>5, AgreeTakes
<1> QED BY <1>4, <1>5, <1>6

LEMMA AgreeDispatch ==
  ASSUME TypeInv, ReachInv, AgreeInv, NEW t \in Threads, NEW b \in batch[t],
         NEW c \in Ctxs, EventStale(t, b, c) \/ EventFires(t, b, c)
  PROVE  AgreeInv'
<1>1. UNCHANGED table /\ UNCHANGED events /\ pc[t] = "free" /\ c = <<b.fd, b.gen>>
  BY DEF EventStale, EventFires, Polling, ctxs
<1>2. CASE EventStale(t, b, c)
  <2>1. UNCHANGED <<interest, lock, pc, op>>
    BY <1>2 DEF EventStale, kernel
  <2> QED BY <1>1, <2>1, AgreeQuiet DEF Others, Holding
<1>3. CASE EventFires(t, b, c)
  <2> DEFINE real == RealEvents(b, events[c])
             o == Polled(NoOp, b.fd, b.gen, real)
  <2>1. pc' = [pc EXCEPT ![t] = "trigger"] /\ op' = [op EXCEPT ![t] = o]
    BY <1>3 DEF EventFires, Polled
  <2>2. o.gen = b.gen /\ o.fd = b.fd /\ o.todo = real
    BY NoOpType DEF Polled, Ops
  <2>3. EpollCtl(b.fd, b.gen, events[c] \ real) /\ lock' = [lock EXCEPT ![c] = t]
    BY <1>3 DEF EventFires, LeftEvents
  <2> HIDE DEF o, real
  <2>4. Others(t) /\ pc'[t] = "trigger" /\ op'[t] = o
    BY <2>1, Moves DEF TypeInv
  <2>5. Ctx(t)' = c
    BY <1>1, <2>2, <2>4 DEF Ctx
  <2>6. Intent(t)' = events[c] \ real
    BY <1>1, <2>2, <2>4, <2>5 DEF Intent
  <2>7. b.fd \in Fds /\ b.gen = m_fdContexts[b.fd] /\ b.gen # 0
    BY BatchKnown
  <2>8. pc[t] \notin Holding /\ pc'[t] \in Holding
    BY <1>1, <2>4 DEF Holding
  <2> QED BY <1>1, <2>3, <2>4, <2>5, <2>6, <2>7, <2>8, AgreeTakes
<1> QED BY <1>2, <1>3

(* The stores that end addEvent and delEvent.                              *)
LEMMA AgreeStores ==
  ASSUME TypeInv, LockInv, ReachInv, AgreeInv, NEW t \in Threads,
         AddStores(t) \/ DelStores(t)
  PROVE  AgreeInv'
<1> DEFINE c == Ctx(t)
<1>1. /\ UNCHANGED <<table, interest>> /\ pc[t] \in {"added", "deleted"}
      /\ lock' = [lock EXCEPT ![c] = Null]
  BY DEF AddStores, DelStores, kernel, Unlock
<1>2. Others(t) /\ pc[t] \in Holding /\ c \in Ctxs
  BY <1>1, Clears, CtxType1 DEF AddStores, DelStores, Return, Holding, Located
<1>3. events'[c] = Intent(t) /\ \A d \in Ctxs \ {c} : events'[d] = events[d]
  <2>1. CASE AddStores(t)
    BY <1>2, <2>1 DEF AddStores, Intent, TypeInv
  <2>2. CASE DelStores(t)
    BY <1>2, <2>2 DEF DelStores, Intent, TypeInv
  <2> QED BY <2>1, <2>2
<1> QED BY <1>1, <1>2, <1>3, AgreeHeld

(* What is triggered was taken out of the epoll set before.                *)
LEMMA AgreeWake ==
  ASSUME TypeInv, LockInv, HeldInv, ReachInv, AgreeInv, NEW t \in Threads, Wake(t)
  PROVE  AgreeInv'
<1> DEFINE c == Ctx(t)
           e == First(op[t].todo)
<1>1. UNCHANGED <<table, interest>> /\ pc[t] \in {"trigger", "count"}
  BY DEF Wake, Trigger, CountNext, CountEnds, kernel
<1>2. pc[t] \in Holding /\ c \in Ctxs /\ e \in op[t].todo
  <2>1. pc[t] \in Holding /\ c \in Ctxs
    BY <1>1, CtxType1 DEF Holding, Located
  <2>2. op[t].todo # {} /\ op[t].todo \in SUBSET Events
    BY <1>1, OpAt DEF TypeInv, OpInv
  <2> QED BY <2>1, <2>2, FirstType, IOManagerAssumption
<1>3. Intent(t) = events[c] \ op[t].todo
  BY <1>1 DEF Intent
<1>4. CASE Trigger(t)
  <2>1. Others(t) /\ pc'[t] = "count" /\ op'[t] = op[t] /\ lock' = lock
    BY <1>4, MovesPc DEF Trigger, TypeInv
  <2>2. events'[c] = events[c] \ {e} /\ \A d \in Ctxs \ {c} : events'[d] = events[d]
    BY <1>2, <1>4 DEF Trigger, triggerEvent, TypeInv
  <2>3. Ctx(t)' = c
    BY <2>1, SameCtx
  <2>4. Intent(t)' = events'[c] \ op[t].todo
    BY <2>1, <2>3 DEF Intent
  <2>5. Intent(t)' = Intent(t) /\ pc'[t] \in Holding
    BY <1>2, <1>3, <2>1, <2>2, <2>4 DEF Holding
  <2> QED BY <1>1, <1>2, <2>1, <2>2, <2>3, <2>5, AgreeHeld
<1>5. CASE CountNext(t)
  <2>1. /\ Others(t) /\ pc'[t] = "trigger" /\ lock' = lock /\ events' = events
        /\ pc[t] = "count"
    BY <1>5 DEF CountNext, TypeInv, ThreadType, Others, ctxs
  <2>2. /\ op'[t].fd = op[t].fd /\ op'[t].gen = op[t].gen
        /\ op'[t].todo = op[t].todo \ {e}
    BY <1>5 DEF CountNext, TypeInv, ThreadType
  <2>3. Ctx(t)' = c
    BY <2>2 DEF Ctx
  <2>4. e \notin events[c]
    BY <2>1 DEF HeldInv, HeldAt
  <2>5. Intent(t)' = events[c] \ (op[t].todo \ {e})
    BY <2>1, <2>2, <2>3 DEF Intent
  <2>6. Intent(t)' = Intent(t) /\ pc'[t] \in Holding
    BY <1>3, <2>1, <2>4, <2>5 DEF Holding
  <2> QED BY <1>1, <1>2, <2>1, <2>3, <2>6, AgreeHeld
<1>6. CASE CountEnds(t)
  <2>1. events' = events /\ pc[t] = "count" /\ lock' = [lock EXCEPT ![c] = Null]
    BY <1>6 DEF CountEnds, ctxs, Unlock
  <2>2. Others(t)
    BY <1>6, Clears DEF CountEnds, Return
  <2>3. e \notin events[c] /\ op[t].todo \ {e} = {}
    BY <1>6, <2>1 DEF HeldInv, HeldAt, CountEnds
  <2>4. events'[c] = Intent(t)
    BY <1>3, <2>1, <2>3
  <2> QED BY <1>1, <1>2, <2>1, <2>2, <2>4, AgreeHeld
<1> QED BY <1>4, <1>5, <1>6 DEF Wake

LEMMA AgreeStep ==
  ASSUME Near, NoClose
  PROVE  SafeInv /\ ReachInv /\ AgreeInv /\ [Next]_vars => AgreeInv'
<1> SUFFICES ASSUME SafeInv, ReachInv, AgreeInv, [Next]_vars PROVE AgreeInv'
  OBVIOUS
<1>0. TypeInv /\ LockInv /\ TypeInv'
  BY TypeStep DEF SafeInv, CoreInv
<1>1. CASE UNCHANGED vars
  <2>1. UNCHANGED <<table, interest, events, lock, pc, op>>
    BY <1>1 DEF vars, kernel, ctxs
  <2> QED BY <2>1, AgreeSame
<1>2. CASE abort = "none" /\ Step
  <2>0. HeldInv
    BY <1>2 DEF SafeInv, CoreInv
  <2>1. CASE Environment
    BY <1>0, <2>1, AgreeEnvironment
  <2>2. ASSUME NEW t \in Threads,
               \/ \E k \in Calls, fd \in Fds, e \in Events : Enter(t, k, fd, e)
               \/ Call(t) \/ Poll(t) \/ Dispatch(t) \/ Wake(t)
        PROVE  AgreeInv'
    <3>1. CASE \E k \in Calls, fd \in Fds, e \in Events : Enter(t, k, fd, e)
      BY <1>0, <3>1, AgreeEnter
    <3>6. CASE AddAsserts(t)
      <4>1. UNCHANGED <<table, interest, events, lock, pc, op>>
        BY <3>6 DEF AddAsserts, kernel, ctxs
      <4> QED BY <4>1, AgreeSame
    <3>2. CASE Call(t)
      BY <1>0, <3>2, <3>6, AgreeLookUp, AgreeGrow, AgreeRegisters, AgreeStores DEF Call
    <3>3. CASE Poll(t)
      BY <1>0, <3>3, AgreePoll
    <3>4. CASE Dispatch(t)
      BY <1>0, <3>4, AgreeDispatch DEF Dispatch
    <3>5. CASE Wake(t)
      BY <1>0, <2>0, <3>5, AgreeWake
    <3> QED BY <2>2, <3>1, <3>2, <3>3, <3>4, <3>5
  <2> QED BY <1>2, <2>1, <2>2 DEF Step
<1> QED BY <1>1, <1>2 DEF Next, Done

(* While nobody closes a descriptor with events registered, and the table  *)
(* does not shrink, the epoll set has for every descriptor what            *)
(* FdContext::events says whenever its mutex is free: no epoll_ctl is      *)
(* missing after a race of addEvent, delEvent, cancelEvent, cancelAll and  *)
(* the loop of idle(), and none is undone.                                 *)
THEOREM EpollFollows ==
  ASSUME Near, NoClose
  PROVE  Spec => []EpollAgrees
<1>1. TypeInv /\ AgreeInv => EpollAgrees
  <2> SUFFICES ASSUME TypeInv, AgreeInv, NEW fd \in Fds, NEW g \in 1..MaxGen,
                      lock[<<fd, g>>] = Null, m_fdContexts[fd] = g
               PROVE  interest[fd] = IF events[<<fd, g>>] = {} THEN NotRegistered
                                     ELSE [gen |-> g, events |-> events[<<fd, g>>]]
    BY DEF EpollAgrees
  <2>1. g # 0
    OBVIOUS
  <2>2. Agrees(fd, g)
    BY <2>1, IOManagerAssumption DEF AgreeInv, AgreeAt
  <2> QED BY <2>2 DEF Agrees, Registration
<1>2. SafeInv => TypeInv
  BY DEF SafeInv
<1>3. SafeInv /\ ReachInv /\ AgreeInv /\ [Next]_vars => AgreeInv'
  BY AgreeStep
<1>4. Spec => [](SafeInv /\ AssertInv /\ ReachInv)
  BY ReachAlways
<1> QED BY <1>1, <1>2, <1>3, <1>4, AgreeInit, PTL DEF Spec
=============================================================================
