-------------------------- MODULE FdManagerProofs --------------------------
(***************************************************************************)
(* The table of FdManager follows the descriptors, and its flags are those *)
(* that the program set, for any number of threads, descriptors and        *)
(* sockets.                                                                *)
(***************************************************************************)
EXTENDS FdManager, TLAPS

Makers == {"socket", "accept"}
Users  == {"fcntl", "ioctl", "setsockopt", "do_io"}
Gens   == 0 .. MaxSockets

FdTypes ==
  /\ m_size \in Nat /\ m_size >= 2
  /\ m_datas \in [Fds -> Gens]
  /\ ctx \in [1 .. MaxSockets ->
                [gen : Gens, user : BOOLEAN, timeout : BOOLEAN]]
  /\ sock \in [Fds -> [gen : Gens, nonblock : BOOLEAN, cleared : BOOLEAN]]
  /\ user \in [Fds -> [nonblock : BOOLEAN, timeout : BOOLEAN,
                       managed : BOOLEAN]]
  /\ opened \in Gens
  /\ left \subseteq Fds
CallTypes ==
  /\ pc \in [Threads -> {"free", "get", "reading", "wrlock", "wait", "apply",
                         "close_f"}]
  /\ op \in [Threads -> [kind : Makers \cup Users \cup {"close", "none"},
                         fd : Int, flag : BOOLEAN, got : Gens]]

(* Which call a thread is in, and on what, at each place.                  *)
Places ==
  \A t \in Threads :
    /\ pc[t] = "free" <=> op[t].kind = "none"
    /\ pc[t] # "free" => op[t].fd \in Fds /\ sock[op[t].fd].gen # 0
    /\ pc[t] = "get" => op[t].kind \in Makers
    /\ pc[t] = "apply" => op[t].kind \in Users \cup {"close"}
    /\ pc[t] \in {"wrlock", "wait"} => op[t].kind \in Makers \cup {"close"}
    /\ pc[t] = "close_f" => op[t].kind = "close"

(* A call that makes or closes a descriptor is the only one on it.         *)
Alone ==
  \A t, u \in Threads :
    op[t].kind \in Makers \cup {"close"} /\ op[u].kind # "none"
      /\ op[u].fd = op[t].fd => t = u

(* Sockets and contexts are numbered apart: a number belongs to one        *)
(* descriptor, and a new socket has a number that no context has.          *)
Numbers ==
  /\ \A fd \in Fds : sock[fd].gen <= opened /\ m_datas[fd] <= opened
  /\ \A fd, e \in Fds :
       fd # e =>
         /\ sock[fd].gen # 0 => sock[fd].gen # sock[e].gen
         /\ m_datas[fd] # 0 => m_datas[fd] # m_datas[e]
         /\ m_datas[fd] # 0 => m_datas[fd] # sock[e].gen

(* A stored context is inside the table and, unless the descriptor was     *)
(* closed without hooks, that of the descriptor's socket.                  *)
Stored ==
  \A fd \in Fds :
    /\ m_datas[fd] # 0 => fd < m_size /\ ctx[m_datas[fd]].gen = m_datas[fd]
    /\ fd \notin left => m_datas[fd] \in {0, sock[fd].gen}
    /\ fd \in left => m_datas[fd] # 0 /\ m_datas[fd] # sock[fd].gen

(* What a call knows of the table: nobody changes the entry meanwhile.     *)
Known ==
  \A t \in Threads :
    /\ op[t].kind \in Makers =>
         user[op[t].fd] = NoUser /\ (op[t].fd \in left \/ m_datas[op[t].fd] = 0)
    /\ pc[t] \in {"wrlock", "wait"} /\ op[t].kind \in Makers =>
         m_datas[op[t].fd] = 0
    /\ pc[t] = "apply" => op[t].got = m_datas[op[t].fd]
    /\ pc[t] \in {"wrlock", "wait"} /\ op[t].kind = "close" =>
         op[t].got = m_datas[op[t].fd] /\ op[t].got # 0
    /\ pc[t] = "close_f" => m_datas[op[t].fd] = 0

(* What the program was given back stays known to the table.               *)
Managed ==
  \A fd \in Fds :
    sock[fd].gen # 0 /\ user[fd].managed /\ ~Closing(fd) => m_datas[fd] # 0

(* The flags of a context that belongs to the socket.                      *)
Flags ==
  \A fd \in Fds : m_datas[fd] # 0 /\ m_datas[fd] = sock[fd].gen =>
    /\ ctx[m_datas[fd]].user = user[fd].nonblock
    /\ ctx[m_datas[fd]].timeout = user[fd].timeout
    /\ \/ ctx[m_datas[fd]].user = TRUE \/ sock[fd].nonblock = TRUE
       \/ sock[fd].cleared = TRUE

FdInv == /\ FdTypes /\ CallTypes /\ Places /\ Alone /\ Numbers /\ Stored
         /\ Known /\ Managed /\ Flags

-----------------------------------------------------------------------------
(* socket() and accept(): a number that nobody uses, a fresh socket.       *)
LEMMA InvOpens ==
  ASSUME FdInv, NEW t \in Threads, NEW fd \in Fds, NEW k \in Makers, Opens(t, k, fd)
  PROVE  FdInv'
<1> USE FdAssumption DEF FdInv, Gens, Makers, Users, Opens, Begins, NewSock,
         NoUser, table, lockv, world, Goto, Return
<1>a. opened' \in Gens /\ opened' = opened + 1 /\ opened' > 0
  BY DEF FdTypes
<1>1. FdTypes'
  BY <1>a DEF FdTypes
<1>2. CallTypes'
  BY DEF CallTypes
<1>3. Places'
  BY <1>a DEF FdTypes, CallTypes, Places, Alone
<1>4. Alone'
  BY <1>a DEF CallTypes, Places, Alone
<1>5. Numbers'
  <2>1. \A e \in Fds : sock[e].gen <= opened /\ m_datas[e] <= opened
                       /\ sock[e].gen \in Nat /\ m_datas[e] \in Nat
    BY DEF FdTypes, Numbers
  <2>2. sock'[fd].gen = opened' /\ \A e \in Fds : e # fd => sock'[e] = sock[e]
    BY <1>a DEF FdTypes
  <2>3. \A e \in Fds : e # fd => m_datas[e] # sock'[fd].gen
                                    /\ sock[e].gen # sock'[fd].gen
    BY <1>a, <2>1, <2>2 DEF FdTypes
  <2>4. \A e \in Fds : sock'[e].gen <= opened' /\ m_datas[e] <= opened'
    BY <1>a, <2>1, <2>2 DEF FdTypes
  <2> QED BY <1>a, <2>1, <2>2, <2>3, <2>4, SMTT(30) DEF Numbers, FdTypes
<1>6. Stored'
  BY <1>a DEF FdTypes, Numbers, Stored, Known
<1>7. Known'
  BY <1>a DEF FdTypes, CallTypes, Places, Alone, Stored, Known
<1>8. Managed'
  BY <1>a DEF FdTypes, CallTypes, Places, Managed, Closing, In
<1>9. Flags'
  <2>1. m_datas[fd] # sock'[fd].gen
    BY <1>a DEF FdTypes, Numbers
  <2>2. \A e \in Fds : e # fd => sock'[e] = sock[e] /\ user'[e] = user[e]
    BY DEF FdTypes
  <2> QED BY <2>1, <2>2, ZenonT(30) DEF Flags
<1> QED BY <1>1, <1>2, <1>3, <1>4, <1>5, <1>6, <1>7, <1>8, <1>9

(* A call on an open descriptor; close() only when nobody else is in one.  *)
LEMMA InvCalls ==
  ASSUME FdInv, NEW t \in Threads, NEW fd \in Fds, NEW k \in Users \cup {"close"}, NEW b \in BOOLEAN,
         Calls(t, k, fd, b), k = "close" => ~Busy(fd)
  PROVE  FdInv'
<1> USE FdAssumption DEF FdInv, Gens, Makers, Users, Calls, Begins, ReadLock,
         In, Busy, table, lockv, world, Goto, Return
<1>1. FdTypes'
  BY DEF FdTypes
<1>2. CallTypes'
  BY DEF CallTypes
<1>3. Places'
  BY DEF CallTypes, Places
<1>4. Alone'
  BY DEF CallTypes, Places, Alone
<1>5. Numbers'
  BY DEF Numbers
<1>6. Stored'
  BY DEF Stored
<1>7. Known'
  BY DEF CallTypes, Known
<1>8. Managed'
  BY DEF FdTypes, CallTypes, Places, Managed, Closing, In
<1>9. Flags'
  BY DEF Flags
<1> QED BY <1>1, <1>2, <1>3, <1>4, <1>5, <1>6, <1>7, <1>8, <1>9

(* close() without hooks leaves the context to the next socket.            *)
LEMMA InvCloseUnhooked ==
  ASSUME FdInv, NEW t \in Threads, NEW fd \in Fds, closeUnhooked(t, fd)
  PROVE  FdInv'
<1> USE FdAssumption DEF FdInv, Gens, Makers, Users, closeUnhooked, Busy,
         NoSock, NewSock, table, lockv, world, Goto, Return
<1>1. FdTypes'
  BY DEF FdTypes
<1>2. CallTypes'
  BY DEF CallTypes
<1>3. Places'
  BY DEF CallTypes, Places
<1>4. Alone'
  BY DEF CallTypes, Alone
<1>5. Numbers'
  BY DEF FdTypes, Numbers
<1>6. Stored'
  BY DEF FdTypes, Stored
<1>7. Known'
  BY DEF CallTypes, Known
<1>8. Managed'
  BY DEF Managed, Closing, In
<1>9. Flags'
  BY DEF Flags
<1> QED BY <1>1, <1>2, <1>3, <1>4, <1>5, <1>6, <1>7, <1>8, <1>9

(* The steps of get().                                                     *)
LEMMA InvReads ==
  ASSUME FdInv, NEW t \in Threads, Reads(t)
  PROVE  FdInv'
<1> USE FdAssumption DEF FdInv, Gens, Makers, Users, Reads, ReadLock, table,
         lockv, world, Goto, Return
<1>1. FdTypes'
  BY DEF FdTypes
<1>2. CallTypes'
  BY DEF CallTypes
<1>3. Places'
  BY DEF CallTypes, Places
<1>4. Alone'
  BY DEF CallTypes, Alone
<1>5. Numbers'
  BY DEF Numbers
<1>6. Stored'
  BY DEF Stored
<1>7. Known'
  BY DEF CallTypes, Known
<1>8. Managed'
  BY DEF Managed, Closing, In
<1>9. Flags'
  BY DEF Flags
<1> QED BY <1>1, <1>2, <1>3, <1>4, <1>5, <1>6, <1>7, <1>8, <1>9

LEMMA InvGot ==
  ASSUME FdInv, NEW t \in Threads, pc[t] = "reading", ~AutoCreate(t), Goto(t, "apply"),
         op' = [op EXCEPT ![t].got = m_datas[op[t].fd]],
         UNCHANGED <<table, world>>
  PROVE  FdInv'
<1> USE FdAssumption DEF FdInv, Gens, Makers, Users, AutoCreate, table,
         lockv, world, Goto, Return
<1>a. op[t].fd \in Fds /\ m_datas[op[t].fd] \in Gens
  BY DEF FdTypes, CallTypes, Places
<1>1. FdTypes'
  BY <1>a DEF FdTypes
<1>2. CallTypes'
  BY <1>a DEF CallTypes
<1>3. Places'
  BY <1>a DEF CallTypes, Places
<1>4. Alone'
  BY <1>a DEF CallTypes, Alone
<1>5. Numbers'
  BY <1>a DEF Numbers
<1>6. Stored'
  BY <1>a DEF Stored
<1>7. Known'
  BY <1>a DEF CallTypes, Known
<1>8. Managed'
  BY <1>a DEF Managed, Closing, In
<1>9. Flags'
  BY <1>a DEF Flags
<1> QED BY <1>1, <1>2, <1>3, <1>4, <1>5, <1>6, <1>7, <1>8, <1>9

LEMMA InvInherits ==
  ASSUME FdInv, NEW t \in Threads, pc[t] = "reading", AutoCreate(t), Return(t),
         m_datas[op[t].fd] # 0,
         user' = [user EXCEPT ![op[t].fd].managed = TRUE],
         UNCHANGED <<table, sock, opened, left>>
  PROVE  FdInv'
<1> USE FdAssumption DEF FdInv, Gens, Makers, Users, AutoCreate, NoOp,
         NoUser, table, lockv, world, Goto, Return
<1>a. op[t].fd \in Fds
  BY DEF FdTypes, CallTypes, Places
<1>1. FdTypes'
  BY <1>a, ZenonT(30) DEF FdTypes
<1>2. CallTypes'
  BY <1>a DEF CallTypes
<1>3. Places'
  BY <1>a DEF CallTypes, Places
<1>4. Alone'
  BY <1>a DEF CallTypes, Alone
<1>5. Numbers'
  BY <1>a DEF Numbers
<1>6. Stored'
  BY <1>a DEF Stored
<1>7. Known'
  BY <1>a DEF CallTypes, Places, Alone, Known
<1>8. Managed'
  BY <1>a DEF Managed, Closing, In
<1>9. Flags'
  BY <1>a DEF Flags
<1> QED BY <1>1, <1>2, <1>3, <1>4, <1>5, <1>6, <1>7, <1>8, <1>9

LEMMA InvGetReturns ==
  ASSUME FdInv, NEW t \in Threads, GetReturns(t)
  PROVE  FdInv'
<1>1. Found(op[t].fd) = m_datas[op[t].fd]
  BY FdAssumption DEF FdInv, FdTypes, CallTypes, Places, Stored, Found,
     GetReturns
<1>2. CASE AutoCreate(t)
  BY <1>1, <1>2, InvInherits DEF GetReturns, table
<1>3. CASE ~AutoCreate(t)
  BY <1>1, <1>3, InvGot DEF GetReturns, table, world
<1> QED BY <1>2, <1>3

LEMMA InvGetMisses ==
  ASSUME FdInv, NEW t \in Threads, GetMisses(t)
  PROVE  FdInv'
<1> USE FdAssumption DEF FdInv, Gens, Makers, Users, GetMisses, Found,
         AutoCreate, ReadUnlock, table, lockv, world, Goto, Return
<1>1. FdTypes'
  BY DEF FdTypes
<1>2. CallTypes'
  BY DEF CallTypes
<1>3. Places'
  BY DEF CallTypes, Places
<1>4. Alone'
  BY DEF CallTypes, Alone
<1>5. Numbers'
  BY DEF Numbers
<1>6. Stored'
  BY DEF Stored
<1>7. Known'
  BY DEF FdTypes, CallTypes, Places, Alone, Stored, Known
<1>8. Managed'
  BY DEF Managed, Closing, In
<1>9. Flags'
  BY DEF Flags
<1> QED BY <1>1, <1>2, <1>3, <1>4, <1>5, <1>6, <1>7, <1>8, <1>9

LEMMA InvWaits ==
  ASSUME FdInv, NEW t \in Threads, Waits(t)
  PROVE  FdInv'
<1> USE FdAssumption DEF FdInv, Gens, Makers, Users, Waits, table, lockv,
         world, Goto, Return
<1>1. FdTypes'
  BY DEF FdTypes
<1>2. CallTypes'
  BY DEF CallTypes
<1>3. Places'
  BY DEF CallTypes, Places
<1>4. Alone'
  BY DEF CallTypes, Alone
<1>5. Numbers'
  BY DEF Numbers
<1>6. Stored'
  BY DEF Stored
<1>7. Known'
  BY DEF CallTypes, Known
<1>8. Managed'
  BY DEF Managed, Closing, In
<1>9. Flags'
  BY DEF Flags
<1> QED BY <1>1, <1>2, <1>3, <1>4, <1>5, <1>6, <1>7, <1>8, <1>9

LEMMA InvCreates ==
  ASSUME FdInv, NEW t \in Threads, Creates(t)
  PROVE  FdInv'
<1> USE FdAssumption DEF FdInv, Gens, Makers, Users, Creates, WriteGranted,
         AutoCreate, Inited, NewCtx, NoUser, NoOp, table, lockv, world, Goto,
         Return
<1>a. op[t].fd \in Fds /\ sock[op[t].fd].gen \in 1 .. MaxSockets
  BY DEF FdTypes, CallTypes, Places
<1>b. m_size' \in Nat /\ m_size' >= m_size /\ m_size' > op[t].fd
  <2> DEFINE d == op[t].fd
  <2>1. d \in Nat /\ m_size \in Nat /\ m_size >= 2 /\ m_size' = Resized(d)
    BY <1>a DEF FdTypes
  <2> HIDE DEF d
  <2>2. d >= 2 => (d * 3) \div 2 \in Nat /\ (d * 3) \div 2 > d
    BY <2>1
  <2> QED BY <2>1, <2>2 DEF Resized, d
<1>1. FdTypes'
  <2>1. ctx' \in [1 .. MaxSockets ->
                    [gen : Gens, user : BOOLEAN, timeout : BOOLEAN]]
    BY <1>a DEF FdTypes
  <2>2. sock' \in [Fds -> [gen : Gens, nonblock : BOOLEAN, cleared : BOOLEAN]]
    BY <1>a, ZenonT(30) DEF FdTypes
  <2>3. user' \in [Fds -> [nonblock : BOOLEAN, timeout : BOOLEAN,
                          managed : BOOLEAN]]
    BY <1>a DEF FdTypes
  <2>4. m_datas' \in [Fds -> Gens]
    BY <1>a DEF FdTypes
  <2>5. opened' \in Gens /\ left' \subseteq Fds /\ m_size >= 2 /\ m_size \in Nat
    BY DEF FdTypes
  <2> HIDE DEF Creates
  <2> QED BY <1>b, <2>1, <2>2, <2>3, <2>4, <2>5 DEF FdTypes
<1>2. CallTypes'
  BY <1>a, <1>b DEF CallTypes
<1>3. Places'
  BY <1>a, <1>b DEF CallTypes, Places
<1>4. Alone'
  BY <1>a, <1>b DEF CallTypes, Alone
<1>c. /\ \A e \in Fds : sock'[e].gen = sock[e].gen
      /\ \A e \in Fds : e # op[t].fd => m_datas'[e] = m_datas[e]
      /\ m_datas'[op[t].fd] = sock[op[t].fd].gen
      /\ m_datas[op[t].fd] = 0
      /\ opened' = opened /\ left' = left
  <2>1. \A e \in Fds : sock'[e].gen = sock[e].gen
    BY <1>a DEF FdTypes
  <2>2. m_datas[op[t].fd] = 0
    BY DEF Known
  <2> QED BY <1>a, <2>1, <2>2 DEF FdTypes
<1>d. \A e \in Fds : e # op[t].fd =>
        /\ sock[op[t].fd].gen # sock[e].gen
        /\ m_datas[e] # 0 => m_datas[e] # sock[op[t].fd].gen
  <2> HIDE DEF Creates
  <2>1. sock[op[t].fd].gen # 0
    BY <1>a
  <2> QED BY <1>a, <2>1, Zenon DEF Numbers
<1>5. Numbers'
  <2> HIDE DEF Creates
  <2>1. \A e \in Fds : m_datas'[e] <= opened'
    BY <1>a, <1>c DEF Numbers
  <2>2. \A e, f \in Fds : e # f =>
          /\ m_datas'[e] # 0 => m_datas'[e] # m_datas'[f]
          /\ m_datas'[e] # 0 => m_datas'[e] # sock'[f].gen
    <3> SUFFICES ASSUME NEW e \in Fds, NEW f \in Fds, e # f, m_datas'[e] # 0
                 PROVE  m_datas'[e] # m_datas'[f] /\ m_datas'[e] # sock'[f].gen
      OBVIOUS
    <3>1. CASE e = op[t].fd
      BY <1>a, <1>c, <1>d, <3>1
    <3>2. CASE e # op[t].fd
      BY <1>a, <1>c, <1>d, <3>2 DEF Numbers
    <3> QED BY <3>1, <3>2
  <2> QED BY <1>c, <2>1, <2>2 DEF Numbers
<1>6. Stored'
  <2>1. /\ ctx'[sock[op[t].fd].gen].gen = sock[op[t].fd].gen
        /\ \A i \in 1 .. MaxSockets :
             i # sock[op[t].fd].gen => ctx'[i] = ctx[i]
    BY <1>a DEF FdTypes
  <2> HIDE DEF Creates
  <2>2. \A e \in Fds : e # op[t].fd /\ m_datas[e] # 0 =>
          m_datas[e] \in 1 .. MaxSockets /\ m_datas[e] # sock[op[t].fd].gen
    BY <1>d DEF FdTypes
  <2>3. \A e \in Fds : e < m_size => e < m_size'
    BY <1>b DEF FdTypes
  <2>4. op[t].fd \notin left
    BY <1>a, <1>c DEF Stored
  <2> SUFFICES ASSUME NEW e \in Fds
               PROVE  /\ m_datas'[e] # 0 =>
                           e < m_size' /\ ctx'[m_datas'[e]].gen = m_datas'[e]
                      /\ e \notin left' => m_datas'[e] \in {0, sock'[e].gen}
                      /\ e \in left' =>
                           m_datas'[e] # 0 /\ m_datas'[e] # sock'[e].gen
    BY DEF Stored
  <2>5. CASE e = op[t].fd
    BY <1>a, <1>b, <1>c, <2>1, <2>4, <2>5
  <2>6. CASE e # op[t].fd
    BY <1>c, <2>1, <2>2, <2>3, <2>6 DEF Stored
  <2> QED BY <2>5, <2>6
<1>7. Known'
  BY <1>a, <1>b DEF CallTypes, Places, Alone, Known
<1>8. Managed'
  BY <1>a, <1>b DEF FdTypes, CallTypes, Places, Managed, Closing, In
<1>9. Flags'
  <2> DEFINE d == op[t].fd
             g == sock[op[t].fd].gen
  <2>1. /\ m_datas'[d] = g /\ sock'[d].gen = g /\ ctx'[g] = NewCtx(g)
        /\ sock'[d].nonblock = TRUE
    BY <1>a DEF FdTypes
  <2>2. user'[d].nonblock = FALSE /\ user'[d].timeout = FALSE
    BY <1>a DEF FdTypes, Known
  <2>3. \A e \in Fds : e # d =>
          /\ m_datas'[e] = m_datas[e] /\ sock'[e] = sock[e]
          /\ user'[e] = user[e]
          /\ (m_datas[e] # 0 => ctx'[m_datas[e]] = ctx[m_datas[e]])
    BY <1>a DEF FdTypes, Numbers
  <2> HIDE DEF d, g
  <2>4. ctx'[g].user = FALSE /\ ctx'[g].timeout = FALSE
    BY <2>1
  <2> SUFFICES ASSUME NEW e \in Fds, m_datas'[e] # 0, m_datas'[e] = sock'[e].gen
               PROVE  /\ ctx'[m_datas'[e]].user = user'[e].nonblock
                      /\ ctx'[m_datas'[e]].timeout = user'[e].timeout
                      /\ \/ ctx'[m_datas'[e]].user = TRUE
                         \/ sock'[e].nonblock = TRUE \/ sock'[e].cleared = TRUE
    BY DEF Flags
  <2>5. CASE e = d
    BY <2>1, <2>2, <2>4, <2>5
  <2>6. CASE e # d
    <3>1. m_datas'[e] = m_datas[e] /\ sock'[e] = sock[e] /\ user'[e] = user[e]
          /\ ctx'[m_datas[e]] = ctx[m_datas[e]]
      BY <2>3, <2>6
    <3>2. /\ ctx[m_datas[e]].user = user[e].nonblock
          /\ ctx[m_datas[e]].timeout = user[e].timeout
          /\ \/ ctx[m_datas[e]].user = TRUE
             \/ sock[e].nonblock = TRUE \/ sock[e].cleared = TRUE
      BY <3>1 DEF Flags
    <3> QED BY <3>1, <3>2, ZenonT(30)
  <2> QED BY <2>5, <2>6
<1> QED BY <1>1, <1>2, <1>3, <1>4, <1>5, <1>6, <1>7, <1>8, <1>9

(* The calls that set flags act on the context that they got, and on no     *)
(* other.                                                                   *)
LEMMA InvSets ==
  ASSUME FdInv, NEW t \in Threads, pc[t] = "apply", op[t].kind \in Users,
         Return(t),
         NEW fd \in Fds, fd = op[t].fd, NEW c \in Gens, c = op[t].got,
         FdTypes', UNCHANGED <<m_size, m_datas, opened, left>>,
         \A e \in Fds : /\ sock'[e].gen = sock[e].gen
                        /\ user'[e].managed = user[e].managed
                        /\ e # fd => sock'[e] = sock[e] /\ user'[e] = user[e],
         \A i \in 1 .. MaxSockets : /\ ctx'[i].gen = ctx[i].gen
                                    /\ i # c => ctx'[i] = ctx[i],
         c # 0 /\ c = sock[fd].gen =>
           /\ ctx'[c].user = user'[fd].nonblock
           /\ ctx'[c].timeout = user'[fd].timeout
           /\ \/ ctx'[c].user = TRUE \/ sock'[fd].nonblock = TRUE
              \/ sock'[fd].cleared = TRUE
  PROVE  FdInv'
<1> USE FdAssumption DEF FdInv, Gens, Makers, Users, Return, Goto, NoOp
<1>1. FdTypes'
  OBVIOUS
<1>2. CallTypes'
  BY DEF CallTypes
<1>3. Places'
  BY DEF CallTypes, Places
<1>4. Alone'
  BY DEF CallTypes, Alone
<1>5. Numbers'
  BY DEF Numbers
<1>6. Stored'
  <2>1. \A e \in Fds : m_datas[e] # 0 => m_datas[e] \in 1 .. MaxSockets
    BY DEF FdTypes
  <2>2. \A e \in Fds : m_datas[e] # 0 =>
          ctx'[m_datas[e]].gen = ctx[m_datas[e]].gen
    BY <2>1
  <2>3. \A e \in Fds : sock'[e].gen = sock[e].gen
    OBVIOUS
  <2> QED BY <2>2, <2>3 DEF Stored
<1>7. Known'
  <2>1. \A u \in Threads : op'[u].kind \in Makers =>
          op'[u] = op[u] /\ op[u].fd # fd /\ op[u].fd \in Fds
    BY DEF CallTypes, Places, Alone
  <2>2. \A u \in Threads : op'[u].kind \in Makers =>
          user'[op[u].fd] = user[op[u].fd]
    BY <2>1
  <2>3. \A u \in Threads : pc'[u] # "free" => op'[u] = op[u] /\ pc'[u] = pc[u]
    BY DEF CallTypes
  <2> QED BY <2>1, <2>2, <2>3 DEF Known
<1>8. Managed'
  <2>1. \A e \in Fds : Closing(e) => Closing(e)'
    BY DEF Closing, In, CallTypes
  <2> QED BY <2>1 DEF Managed
<1>9. Flags'
  <2> SUFFICES ASSUME NEW e \in Fds, m_datas[e] # 0, m_datas[e] = sock[e].gen
               PROVE  /\ ctx'[m_datas[e]].user = user'[e].nonblock
                      /\ ctx'[m_datas[e]].timeout = user'[e].timeout
                      /\ \/ ctx'[m_datas[e]].user = TRUE
                         \/ sock'[e].nonblock = TRUE \/ sock'[e].cleared = TRUE
    BY ZenonT(30) DEF Flags
  <2>1. CASE e = fd
    <3>1. m_datas[e] = c
      BY <2>1 DEF Known
    <3>2. c # 0 /\ c = sock[fd].gen
      BY <2>1, <3>1
    <3>3. /\ ctx'[c].user = user'[fd].nonblock
          /\ ctx'[c].timeout = user'[fd].timeout
          /\ \/ ctx'[c].user = TRUE \/ sock'[fd].nonblock = TRUE
             \/ sock'[fd].cleared = TRUE
      BY <3>2, Zenon
    <3> QED BY <2>1, <3>1, <3>3
  <2>2. CASE e # fd
    <3>1. m_datas[e] \in 1 .. MaxSockets /\ m_datas[e] # c
      BY <2>2, SMTT(30) DEF Known, Numbers, FdTypes
    <3>2. ctx'[m_datas[e]] = ctx[m_datas[e]] /\ sock'[e] = sock[e]
          /\ user'[e] = user[e]
      BY <2>2, <3>1
    <3> QED BY <3>2 DEF Flags
  <2> QED BY <2>1, <2>2
<1> QED BY <1>1, <1>2, <1>3, <1>4, <1>5, <1>6, <1>7, <1>8, <1>9

(* What an assignment to one field does.                                   *)
LEMMA CtxUser ==
  ASSUME FdTypes, NEW c \in 1 .. MaxSockets, NEW b \in BOOLEAN,
         ctx' = [ctx EXCEPT ![c].user = b]
  PROVE  /\ ctx' \in [1 .. MaxSockets ->
                      [gen : Gens, user : BOOLEAN, timeout : BOOLEAN]]
         /\ \A i \in 1 .. MaxSockets : /\ ctx'[i].gen = ctx[i].gen
                                       /\ i # c => ctx'[i] = ctx[i]
         /\ ctx'[c].user = b /\ ctx'[c].timeout = ctx[c].timeout
BY DEF FdTypes
LEMMA CtxTimeout ==
  ASSUME FdTypes, NEW c \in 1 .. MaxSockets,
         ctx' = [ctx EXCEPT ![c].timeout = TRUE]
  PROVE  /\ ctx' \in [1 .. MaxSockets ->
                      [gen : Gens, user : BOOLEAN, timeout : BOOLEAN]]
         /\ \A i \in 1 .. MaxSockets : /\ ctx'[i].gen = ctx[i].gen
                                       /\ i # c => ctx'[i] = ctx[i]
         /\ ctx'[c].timeout = TRUE /\ ctx'[c].user = ctx[c].user
BY DEF FdTypes
LEMMA SockFlags ==
  ASSUME FdTypes, NEW fd \in Fds, NEW x \in BOOLEAN, NEW y \in BOOLEAN,
         sock' = [sock EXCEPT ![fd].nonblock = x, ![fd].cleared = y]
  PROVE  /\ sock' \in [Fds -> [gen : Gens, nonblock : BOOLEAN,
                               cleared : BOOLEAN]]
         /\ \A e \in Fds : /\ sock'[e].gen = sock[e].gen
                           /\ e # fd => sock'[e] = sock[e]
         /\ sock'[fd].nonblock = x /\ sock'[fd].cleared = y
BY ZenonT(30) DEF FdTypes
LEMMA UserFlag ==
  ASSUME FdTypes, NEW fd \in Fds, NEW b \in BOOLEAN,
         user' = [user EXCEPT ![fd].nonblock = b]
  PROVE  /\ user' \in [Fds -> [nonblock : BOOLEAN, timeout : BOOLEAN,
                               managed : BOOLEAN]]
         /\ \A e \in Fds : /\ user'[e].managed = user[e].managed
                           /\ e # fd => user'[e] = user[e]
         /\ user'[fd].nonblock = b /\ user'[fd].timeout = user[fd].timeout
BY DEF FdTypes
LEMMA UserTimeout ==
  ASSUME FdTypes, NEW fd \in Fds,
         user' = [user EXCEPT ![fd].timeout = TRUE]
  PROVE  /\ user' \in [Fds -> [nonblock : BOOLEAN, timeout : BOOLEAN,
                               managed : BOOLEAN]]
         /\ \A e \in Fds : /\ user'[e].managed = user[e].managed
                           /\ e # fd => user'[e] = user[e]
         /\ user'[fd].timeout = TRUE /\ user'[fd].nonblock = user[fd].nonblock
BY DEF FdTypes

(* What a thread that applies has in its hands.                            *)
LEMMA InHand ==
  ASSUME FdInv, NEW t \in Threads, pc[t] = "apply"
  PROVE  /\ op[t].fd \in Fds /\ op[t].got \in Gens /\ op[t].flag \in BOOLEAN
         /\ op[t].got = m_datas[op[t].fd]
         /\ op[t].got # 0 => op[t].got \in 1 .. MaxSockets
         /\ op[t].got # 0 /\ op[t].got = sock[op[t].fd].gen =>
              /\ ctx[op[t].got].user = user[op[t].fd].nonblock
              /\ ctx[op[t].got].timeout = user[op[t].fd].timeout
              /\ \/ ctx[op[t].got].user = TRUE
                 \/ sock[op[t].fd].nonblock = TRUE
                 \/ sock[op[t].fd].cleared = TRUE
BY FdAssumption DEF FdInv, FdTypes, CallTypes, Places, Known, Flags, Gens

LEMMA InvFcntl ==
  ASSUME FdInv, NEW t \in Threads, fcntlSets(t)
  PROVE  FdInv'
<1> DEFINE fd == op[t].fd
           c == op[t].got
<1>1. FdTypes /\ pc[t] = "apply" /\ op[t].kind \in Users /\ Return(t)
      /\ UNCHANGED <<m_size, m_datas, opened, left>>
  BY DEF FdInv, fcntlSets, Applies, Users
<1>2. /\ fd \in Fds /\ c \in Gens /\ op[t].flag \in BOOLEAN
      /\ c # 0 => c \in 1 .. MaxSockets
  BY <1>1, InHand
<1>3. /\ ctx' \in [1 .. MaxSockets ->
                     [gen : Gens, user : BOOLEAN, timeout : BOOLEAN]]
      /\ \A i \in 1 .. MaxSockets : /\ ctx'[i].gen = ctx[i].gen
                                    /\ i # c => ctx'[i] = ctx[i]
  BY <1>1, <1>2, CtxUser DEF fcntlSets, SetUser, FdTypes
<1>4. /\ sock' \in [Fds -> [gen : Gens, nonblock : BOOLEAN, cleared : BOOLEAN]]
      /\ \A e \in Fds : /\ sock'[e].gen = sock[e].gen
                        /\ e # fd => sock'[e] = sock[e]
  BY <1>1, <1>2, SockFlags DEF fcntlSets, FlagForKernel, FdTypes
<1>5. /\ user' \in [Fds -> [nonblock : BOOLEAN, timeout : BOOLEAN,
                            managed : BOOLEAN]]
      /\ \A e \in Fds : /\ user'[e].managed = user[e].managed
                        /\ e # fd => user'[e] = user[e]
  BY <1>1, <1>2, UserFlag DEF fcntlSets, FdTypes
<1>6. c # 0 /\ c = sock[fd].gen =>
        /\ ctx'[c].user = user'[fd].nonblock
        /\ ctx'[c].timeout = user'[fd].timeout
        /\ \/ ctx'[c].user = TRUE \/ sock'[fd].nonblock = TRUE
           \/ sock'[fd].cleared = TRUE
  <2> SUFFICES ASSUME c # 0, c = sock[fd].gen
               PROVE  /\ ctx'[c].user = user'[fd].nonblock
                      /\ ctx'[c].timeout = user'[fd].timeout
                      /\ \/ sock'[fd].nonblock = TRUE
                         \/ sock'[fd].cleared = TRUE
    OBVIOUS
  <2>1. ctx'[c].user = op[t].flag /\ ctx'[c].timeout = ctx[c].timeout
    BY <1>1, <1>2, CtxUser DEF fcntlSets, SetUser
  <2>2. user'[fd].nonblock = op[t].flag /\ user'[fd].timeout = user[fd].timeout
    BY <1>1, <1>2, UserFlag DEF fcntlSets
  <2>3. sock'[fd].nonblock = TRUE
    BY <1>1, <1>2, SockFlags DEF fcntlSets, FlagForKernel
  <2>4. ctx[c].timeout = user[fd].timeout
    BY <1>1, InHand
  <2> QED BY <1>2, <2>1, <2>2, <2>3, <2>4
<1>7. FdTypes'
  BY <1>1, <1>3, <1>4, <1>5 DEF FdTypes
<1>8. fd = op[t].fd /\ c = op[t].got
  OBVIOUS
<1>9. \A e \in Fds : /\ sock'[e].gen = sock[e].gen
                     /\ user'[e].managed = user[e].managed
                     /\ e # fd => sock'[e] = sock[e] /\ user'[e] = user[e]
  BY <1>4, <1>5
<1> HIDE DEF fd, c
<1> QED BY <1>1, <1>2, <1>3, <1>6, <1>7, <1>8, <1>9, InvSets, ZenonT(30)

LEMMA InvIoctl ==
  ASSUME FdInv, NEW t \in Threads, ioctlSets(t)
  PROVE  FdInv'
<1> DEFINE fd == op[t].fd
           c == op[t].got
<1>1. FdTypes /\ pc[t] = "apply" /\ op[t].kind \in Users /\ Return(t)
      /\ UNCHANGED <<m_size, m_datas, opened, left>>
  BY DEF FdInv, ioctlSets, Applies, Users
<1>2. /\ fd \in Fds /\ c \in Gens /\ op[t].flag \in BOOLEAN
      /\ c # 0 => c \in 1 .. MaxSockets
  BY <1>1, InHand
<1>3. /\ ctx' \in [1 .. MaxSockets ->
                     [gen : Gens, user : BOOLEAN, timeout : BOOLEAN]]
      /\ \A i \in 1 .. MaxSockets : /\ ctx'[i].gen = ctx[i].gen
                                    /\ i # c => ctx'[i] = ctx[i]
  BY <1>1, <1>2, CtxUser DEF ioctlSets, SetUser, FdTypes
<1>4. /\ sock' \in [Fds -> [gen : Gens, nonblock : BOOLEAN, cleared : BOOLEAN]]
      /\ \A e \in Fds : /\ sock'[e].gen = sock[e].gen
                        /\ e # fd => sock'[e] = sock[e]
  BY <1>1, <1>2, SockFlags DEF ioctlSets, FdTypes
<1>5. /\ user' \in [Fds -> [nonblock : BOOLEAN, timeout : BOOLEAN,
                            managed : BOOLEAN]]
      /\ \A e \in Fds : /\ user'[e].managed = user[e].managed
                        /\ e # fd => user'[e] = user[e]
  BY <1>1, <1>2, UserFlag DEF ioctlSets, FdTypes
<1>6. c # 0 /\ c = sock[fd].gen =>
        /\ ctx'[c].user = user'[fd].nonblock
        /\ ctx'[c].timeout = user'[fd].timeout
        /\ \/ ctx'[c].user = TRUE \/ sock'[fd].nonblock = TRUE
           \/ sock'[fd].cleared = TRUE
  <2> SUFFICES ASSUME c # 0, c = sock[fd].gen
               PROVE  /\ ctx'[c].user = user'[fd].nonblock
                      /\ ctx'[c].timeout = user'[fd].timeout
                      /\ \/ sock'[fd].nonblock = TRUE
                         \/ sock'[fd].cleared = TRUE
    OBVIOUS
  <2>1. ctx'[c].user = op[t].flag /\ ctx'[c].timeout = ctx[c].timeout
    BY <1>1, <1>2, CtxUser DEF ioctlSets, SetUser
  <2>2. user'[fd].nonblock = op[t].flag /\ user'[fd].timeout = user[fd].timeout
    BY <1>1, <1>2, UserFlag DEF ioctlSets
  <2>3. sock'[fd].nonblock = op[t].flag /\ sock'[fd].cleared = ~op[t].flag
    BY <1>1, <1>2, SockFlags DEF ioctlSets
  <2>4. ctx[c].timeout = user[fd].timeout
    BY <1>1, InHand
  <2> QED BY <1>2, <2>1, <2>2, <2>3, <2>4
<1>7. FdTypes'
  BY <1>1, <1>3, <1>4, <1>5 DEF FdTypes
<1>8. fd = op[t].fd /\ c = op[t].got
  OBVIOUS
<1>9. \A e \in Fds : /\ sock'[e].gen = sock[e].gen
                     /\ user'[e].managed = user[e].managed
                     /\ e # fd => sock'[e] = sock[e] /\ user'[e] = user[e]
  BY <1>4, <1>5
<1> HIDE DEF fd, c
<1> QED BY <1>1, <1>2, <1>3, <1>6, <1>7, <1>8, <1>9, InvSets, ZenonT(30)

LEMMA InvSetsockopt ==
  ASSUME FdInv, NEW t \in Threads, setsockoptSets(t)
  PROVE  FdInv'
<1> DEFINE fd == op[t].fd
           c == op[t].got
<1>1. FdTypes /\ pc[t] = "apply" /\ op[t].kind \in Users /\ Return(t)
      /\ UNCHANGED <<m_size, m_datas, opened, left>>
  BY DEF FdInv, setsockoptSets, Applies, Users
<1>2. /\ fd \in Fds /\ c \in Gens /\ op[t].flag \in BOOLEAN
      /\ c # 0 => c \in 1 .. MaxSockets
  BY <1>1, InHand
<1>3. /\ ctx' \in [1 .. MaxSockets ->
                     [gen : Gens, user : BOOLEAN, timeout : BOOLEAN]]
      /\ \A i \in 1 .. MaxSockets : /\ ctx'[i].gen = ctx[i].gen
                                    /\ i # c => ctx'[i] = ctx[i]
  BY <1>1, <1>2, CtxTimeout DEF setsockoptSets, FdTypes
<1>4. /\ sock' \in [Fds -> [gen : Gens, nonblock : BOOLEAN, cleared : BOOLEAN]]
      /\ \A e \in Fds : /\ sock'[e].gen = sock[e].gen
                        /\ e # fd => sock'[e] = sock[e]
  BY <1>1, <1>2 DEF setsockoptSets, FdTypes
<1>5. /\ user' \in [Fds -> [nonblock : BOOLEAN, timeout : BOOLEAN,
                            managed : BOOLEAN]]
      /\ \A e \in Fds : /\ user'[e].managed = user[e].managed
                        /\ e # fd => user'[e] = user[e]
  BY <1>1, <1>2, UserTimeout DEF setsockoptSets, FdTypes
<1>6. c # 0 /\ c = sock[fd].gen =>
        /\ ctx'[c].user = user'[fd].nonblock
        /\ ctx'[c].timeout = user'[fd].timeout
        /\ \/ ctx'[c].user = TRUE \/ sock'[fd].nonblock = TRUE
           \/ sock'[fd].cleared = TRUE
  <2> SUFFICES ASSUME c # 0, c = sock[fd].gen
               PROVE  /\ ctx'[c].user = user'[fd].nonblock
                      /\ ctx'[c].timeout = user'[fd].timeout
                      /\ \/ ctx'[c].user = TRUE \/ sock'[fd].nonblock = TRUE
                         \/ sock'[fd].cleared = TRUE
    OBVIOUS
  <2>1. ctx'[c].timeout = TRUE /\ ctx'[c].user = ctx[c].user
    BY <1>1, <1>2, CtxTimeout DEF setsockoptSets
  <2>2. user'[fd].timeout = TRUE /\ user'[fd].nonblock = user[fd].nonblock
    BY <1>1, <1>2, UserTimeout DEF setsockoptSets
  <2>3. /\ ctx[c].user = user[fd].nonblock
        /\ \/ ctx[c].user = TRUE \/ sock[fd].nonblock = TRUE
           \/ sock[fd].cleared = TRUE
    BY <1>1, InHand
  <2>4. sock' = sock
    BY DEF setsockoptSets
  <2> QED BY <2>1, <2>2, <2>3, <2>4
<1>7. FdTypes'
  BY <1>1, <1>3, <1>4, <1>5 DEF FdTypes
<1>8. fd = op[t].fd /\ c = op[t].got
  OBVIOUS
<1>9. \A e \in Fds : /\ sock'[e].gen = sock[e].gen
                     /\ user'[e].managed = user[e].managed
                     /\ e # fd => sock'[e] = sock[e] /\ user'[e] = user[e]
  BY <1>4, <1>5
<1> HIDE DEF fd, c
<1> QED BY <1>1, <1>2, <1>3, <1>6, <1>7, <1>8, <1>9, InvSets, ZenonT(30)

LEMMA InvIoStarts ==
  ASSUME FdInv, NEW t \in Threads, IoStarts(t)
  PROVE  FdInv'
<1> USE FdAssumption DEF FdInv, Gens, Makers, Users, IoStarts, Applies, NoOp,
         table, lockv, world, Goto, Return
<1>1. FdTypes'
  BY DEF FdTypes
<1>2. CallTypes'
  BY DEF CallTypes
<1>3. Places'
  BY DEF CallTypes, Places
<1>4. Alone'
  BY DEF CallTypes, Alone
<1>5. Numbers'
  BY DEF Numbers
<1>6. Stored'
  BY DEF Stored
<1>7. Known'
  BY DEF CallTypes, Known
<1>8. Managed'
  BY DEF Managed, Closing, In
<1>9. Flags'
  BY DEF Flags
<1> QED BY <1>1, <1>2, <1>3, <1>4, <1>5, <1>6, <1>7, <1>8, <1>9

(* The steps of close().                                                   *)
LEMMA InvCloseBegins ==
  ASSUME FdInv, NEW t \in Threads, CloseBegins(t)
  PROVE  FdInv'
<1> USE FdAssumption DEF FdInv, Gens, Makers, Users, CloseBegins, Applies,
         CloseSteps, table, lockv, world, Goto, Return
<1>1. FdTypes'
  BY DEF FdTypes
<1>2. CallTypes'
  BY DEF CallTypes
<1>3. Places'
  BY DEF CallTypes, Places
<1>4. Alone'
  BY DEF CallTypes, Alone
<1>5. Numbers'
  BY DEF Numbers
<1>6. Stored'
  BY DEF Stored
<1>7. Known'
  BY DEF CallTypes, Known
<1>8. Managed'
  BY DEF Managed, Closing, In
<1>9. Flags'
  BY DEF Flags
<1> QED BY <1>1, <1>2, <1>3, <1>4, <1>5, <1>6, <1>7, <1>8, <1>9

LEMMA InvDeletes ==
  ASSUME FdInv, NEW t \in Threads, Deletes(t)
  PROVE  FdInv'
<1> USE FdAssumption DEF FdInv, Gens, Makers, Users, Deletes, WriteGranted,
         table, lockv, world, Goto, Return
<1>a. op[t].fd \in Fds /\ m_datas' = [m_datas EXCEPT ![op[t].fd] = 0]
  BY DEF FdTypes, CallTypes, Places, Known, Stored
<1>b. pc' = [pc EXCEPT ![t] = "close_f"] /\ UNCHANGED op
  BY DEF Known, CloseSteps, NextStep, After
<1>1. FdTypes'
  <2>1. m_datas' \in [Fds -> Gens]
    BY <1>a DEF FdTypes
  <2>2. left' \subseteq Fds
    BY DEF FdTypes
  <2> QED BY <2>1, <2>2 DEF FdTypes
<1>2. CallTypes'
  BY <1>a, <1>b DEF CallTypes
<1>3. Places'
  BY <1>a, <1>b DEF CallTypes, Places
<1>4. Alone'
  BY <1>a, <1>b DEF CallTypes, Alone
<1>5. Numbers'
  BY <1>a, <1>b DEF FdTypes, Numbers
<1>6. Stored'
  BY <1>a, <1>b DEF FdTypes, Stored
<1>7. Known'
  BY <1>a, <1>b DEF FdTypes, CallTypes, Places, Alone, Known
<1>8. Managed'
  BY <1>a, <1>b DEF Managed, Closing, In
<1>9. Flags'
  BY <1>a, <1>b DEF Flags
<1> QED BY <1>1, <1>2, <1>3, <1>4, <1>5, <1>6, <1>7, <1>8, <1>9

LEMMA InvCloseF ==
  ASSUME FdInv, NEW t \in Threads, close_f(t)
  PROVE  FdInv'
<1> USE FdAssumption DEF FdInv, Gens, Makers, Users, close_f, NoSock,
         NewSock, NoOp, table, lockv, world, Goto, Return
<1>a. op[t].fd \in Fds
  BY DEF Places
<1>b. Return(t)
  BY DEF CloseSteps, NextStep, After
<1>1. FdTypes'
  BY <1>a, <1>b DEF FdTypes
<1>2. CallTypes'
  BY <1>a, <1>b DEF CallTypes
<1>3. Places'
  BY <1>a, <1>b DEF FdTypes, CallTypes, Places, Alone
<1>4. Alone'
  BY <1>a, <1>b DEF CallTypes, Alone
<1>5. Numbers'
  BY <1>a, <1>b DEF FdTypes, Numbers
<1>6. Stored'
  BY <1>a, <1>b DEF FdTypes, Numbers, Stored, Known
<1>7. Known'
  BY <1>a, <1>b DEF CallTypes, Known
<1>8. Managed'
  BY <1>a, <1>b DEF FdTypes, CallTypes, Places, Managed, Closing, In
<1>9. Flags'
  <2>1. \A e \in Fds : sock'[e] = sock[e] \/ sock'[e].gen = 0
    BY <1>a DEF FdTypes
  <2> QED BY <2>1 DEF Flags
<1> QED BY <1>1, <1>2, <1>3, <1>4, <1>5, <1>6, <1>7, <1>8, <1>9

LEMMA FdInit == Init => FdInv
<1> SUFFICES ASSUME Init PROVE FdInv
  OBVIOUS
<1> USE FdAssumption DEF Init, Gens, NoOp, NoSock, NewSock, NoUser, NewCtx
<1>1. FdTypes
  BY DEF FdTypes
<1>2. CallTypes
  BY DEF CallTypes, Makers, Users
<1>3. Places /\ Alone /\ Known
  BY DEF Places, Alone, Known, Makers
<1>4. Numbers /\ Stored /\ Managed /\ Flags
  BY DEF Numbers, Stored, Managed, Flags
<1> QED BY <1>1, <1>2, <1>3, <1>4 DEF FdInv

LEMMA FdNext == FdInv /\ [Next]_vars => FdInv'
<1> SUFFICES ASSUME FdInv, [Next]_vars PROVE FdInv'
  OBVIOUS
<1>1. ASSUME NEW t \in Threads, Step(t) PROVE FdInv'
  BY <1>1, InvReads, InvGetReturns, InvGetMisses, InvWaits, InvCreates,
     InvFcntl, InvIoctl, InvSetsockopt, InvIoStarts, InvCloseBegins,
     InvDeletes, InvCloseF DEF Step
<1>2. ASSUME NEW t \in Threads, NEW fd \in Fds, Starts(t, fd) PROVE FdInv'
  <2>1. CASE socket(t, fd) \/ accept(t, fd)
    BY <2>1, InvOpens DEF socket, accept, Makers
  <2>2. CASE close(t, fd)
    BY <2>2, InvCalls DEF close
  <2>3. CASE closeUnhooked(t, fd)
    BY <2>3, InvCloseUnhooked
  <2>4. CASE \E b \in BOOLEAN : setfl(t, fd, b) \/ ioctl(t, fd, b)
    BY <2>4, InvCalls DEF setfl, ioctl, Users
  <2>5. CASE setsockopt(t, fd) \/ do_io(t, fd)
    BY <2>5, InvCalls DEF setsockopt, do_io, Users
  <2> QED BY <1>2, <2>1, <2>2, <2>3, <2>4, <2>5 DEF Starts
<1>3. CASE UNCHANGED vars
  BY <1>3 DEF vars, table, world, FdInv, FdTypes, CallTypes, Places, Alone,
     Numbers, Stored, Known, Managed, Flags, Closing, In
<1> QED BY <1>1, <1>2, <1>3 DEF Next

-----------------------------------------------------------------------------
(* The table follows the descriptors (fd_manager.cc:79 to 106): whatever   *)
(* threads open, close and configure at once, a socket that the program    *)
(* was given has the context made for it, inside m_datas, and a closed     *)
(* number has none, apart from numbers that were closed without hooks.     *)
THEOREM TableFollows == Spec => []TableExact
<1>1. FdInv => TableExact
  BY FdAssumption DEF FdInv, FdTypes, Stored, Managed, TableExact, Current
<1> QED BY <1>1, FdInit, FdNext, PTL DEF Spec

(* do_io (hook.cc:103) never blocks a thread in the system call, unless    *)
(* the program cleared the flag by ioctl or the context is that of an      *)
(* earlier socket.                                                         *)
THEOREM IoNeverBlocks == Spec => []NeverBlocks
<1>1. FdInv => NeverBlocks
  <2> SUFFICES ASSUME FdInv, NEW t \in Threads, Applies(t, "do_io"),
                      op[t].got # 0, ctx[op[t].got].gen = sock[op[t].fd].gen
               PROVE  \/ ctx[op[t].got].user \/ sock[op[t].fd].nonblock
                      \/ sock[op[t].fd].cleared
    BY DEF NeverBlocks
  <2>1. op[t].got = sock[op[t].fd].gen
    BY InHand DEF FdInv, Stored, Applies
  <2> QED BY <2>1, InHand DEF Applies
<1> QED BY <1>1, FdInit, FdNext, PTL DEF Spec

(* The flag and the time-out that a context keeps are those that the       *)
(* program set last on the socket (fd_manager.cc:55 to 70, hook.cc:350 to  *)
(* 472), not those of an earlier socket of that number.                    *)
THEOREM FlagsKept == Spec => []UserFlagKept
<1>1. FdInv => UserFlagKept
  BY DEF FdInv, Stored, Flags, UserFlagKept, Current
<1> QED BY <1>1, FdInit, FdNext, PTL DEF Spec
=============================================================================
