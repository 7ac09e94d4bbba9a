----------------------------- MODULE FdManager -----------------------------
(***************************************************************************)
(* FdManager, the table of FdCtx (fd_manager.cc), with the hooked calls    *)
(* that keep it and use its flags (hook.cc): socket, accept, close, fcntl, *)
(* ioctl, setsockopt and the first lines of do_io.                         *)
(*                                                                         *)
(* The table is under an RWMutex.  get() releases its read lock by hand    *)
(* before it takes the write lock, and the destructor of the ReadLock      *)
(* releases it once more (thread.h:68), so the lock is modelled down to    *)
(* glibc's reader count.  A read section is two steps, a write section     *)
(* one.  A thread does not close a descriptor while another one is in a    *)
(* call on it: programs that do are racy by themselves (Hook is about the  *)
(* calls that wait inside the library).                                    *)
(***************************************************************************)
EXTENDS Integers, FiniteSets

CONSTANTS
  Threads,      \* the threads that make calls
  Unhooked,     \* those among them with t_hook_enable = false
  Fds,          \* descriptor numbers
  MaxSockets,   \* bound: sockets opened in a run
  InitSize,     \* m_datas.resize(64)
  Null

ASSUME FdAssumption ==
  /\ Unhooked \subseteq Threads /\ Null \notin Threads
  /\ Fds \subseteq Nat /\ MaxSockets \in Nat
  /\ InitSize \in Nat /\ InitSize >= 2   \* or resize(fd * 1.5) is too small

VARIABLES
  m_size,     \* m_datas.size()
  m_datas,    \* the context of each descriptor, 0 for a null pointer
  ctx,        \* the FdCtx objects, numbered as they are made
  m_readers,  \* glibc's count of readers of m_mutex
  m_wr,       \* the thread with the WRLOCKED bit, waiting or in its section
  m_phase,    \* the lock is in a write phase, which m_wr or nobody owns
  sock,       \* the kernel's socket behind each descriptor
  opened,     \* sockets opened so far
  user,       \* history: what the program set on the socket through the hooks
  left,       \* history: descriptors closed behind the back of the table
  pc, op      \* the call each thread is in

lockv == <<m_readers, m_wr, m_phase>>
table == <<m_size, m_datas, ctx>>
world == <<sock, opened, user, left>>
vars  == <<table, lockv, world, pc, op>>

-----------------------------------------------------------------------------
(* pthread_rwlock_t: see IOManager for the count below 0.                  *)
RdLock(n) == IF n <= -2 THEN n ELSE n + 1
RdUnlock(n) == IF n <= -2 THEN n ELSE n - 1

\* rdlock: waits only while the write phase belongs to somebody, and ends one
\* that belongs to nobody; a count that overflows is an error at once.
ReadLock ==
  /\ \/ m_readers <= -2 /\ UNCHANGED m_phase
     \/ m_readers > -2 /\ (m_phase => m_wr = Null) /\ m_phase' = FALSE
  /\ m_readers' = RdLock(m_readers)
  /\ UNCHANGED m_wr
\* unlock by a reader: the one that brings the count to 0 hands over.
ReadUnlock ==
  /\ m_readers' = RdUnlock(m_readers)
  /\ m_phase' = (m_phase \/ (m_wr # Null /\ m_readers = 1))
  /\ UNCHANGED m_wr
\* wrlock is granted at once when there are no readers or the write phase has
\* not ended, or after the hand-over to the thread that waits.
WriteGranted(t) ==
  \/ pc[t] = "wrlock" /\ m_wr = Null /\ (m_readers = 0 \/ m_phase)
  \/ pc[t] = "wait" /\ m_wr = t /\ m_phase
\* unlock by the writer: the write phase goes on unless there are readers.
WriteUnlock == m_wr' = Null /\ m_phase' = (m_readers = 0)

-----------------------------------------------------------------------------
NoOp == [kind |-> "none", fd |-> 0, flag |-> FALSE, got |-> 0]
NewSock(g) == [gen |-> g, nonblock |-> FALSE, cleared |-> FALSE]
NoSock == NewSock(0)
NoUser == [nonblock |-> FALSE, timeout |-> FALSE, managed |-> FALSE]
\* FdCtx::FdCtx
NewCtx(g) == [gen |-> g, user |-> FALSE, timeout |-> FALSE]

\* FdManager::FdManager
Init ==
  /\ m_size = InitSize
  /\ m_datas = [fd \in Fds |-> 0]
  /\ ctx = [i \in 1 .. MaxSockets |-> NewCtx(0)]
  /\ m_readers = 0 /\ m_wr = Null /\ m_phase = FALSE
  /\ sock = [fd \in Fds |-> NoSock]
  /\ opened = 0
  /\ user = [fd \in Fds |-> NoUser]
  /\ left = {}
  /\ pc = [t \in Threads |-> "free"]
  /\ op = [t \in Threads |-> NoOp]

Goto(t, l) == pc' = [pc EXCEPT ![t] = l]
Return(t) == Goto(t, "free") /\ op' = [op EXCEPT ![t] = NoOp]
Busy(fd) == \E t \in Threads : pc[t] # "free" /\ op[t].fd = fd
In(kinds, fd) == \E t \in Threads : op[t].kind \in kinds /\ op[t].fd = fd
Closing(fd) == In({"close"}, fd)

Begins(t, k, fd, b) ==
  /\ pc[t] = "free"
  /\ op' = [op EXCEPT ![t] = [kind |-> k, fd |-> fd, flag |-> b, got |-> 0]]

\* socket() and accept(): a new descriptor, and get(fd, true).  Only socket()
\* asks whether the thread is hooked.
Opens(t, k, fd) ==
  /\ Begins(t, k, fd, FALSE)
  /\ sock[fd].gen = 0 /\ opened < MaxSockets
  /\ opened' = opened + 1
  /\ sock' = [sock EXCEPT ![fd] = NewSock(opened + 1)]
  /\ user' = [user EXCEPT ![fd] = NoUser]
  /\ Goto(t, "get")
  /\ UNCHANGED <<table, lockv, left>>
socket(t, fd) == t \notin Unhooked /\ Opens(t, "socket", fd)
accept(t, fd) == Opens(t, "accept", fd)

\* A call on an open descriptor that asks the table for its context, under a
\* ReadLock.  The number is known when socket() or accept() has returned.
Calls(t, k, fd, b) ==
  /\ Begins(t, k, fd, b)
  /\ sock[fd].gen # 0 /\ ~In({"close", "socket", "accept"}, fd)
  /\ ReadLock
  /\ Goto(t, "reading")
  /\ UNCHANGED <<table, world>>
setfl(t, fd, b) == Calls(t, "fcntl", fd, b)
ioctl(t, fd, b) == Calls(t, "ioctl", fd, b)
setsockopt(t, fd) == t \notin Unhooked /\ Calls(t, "setsockopt", fd, TRUE)
do_io(t, fd) == t \notin Unhooked /\ Calls(t, "do_io", fd, FALSE)
close(t, fd) == t \notin Unhooked /\ ~Busy(fd) /\ Calls(t, "close", fd, FALSE)

\* close() of a thread without hooks: close_f alone.
closeUnhooked(t, fd) ==
  /\ pc[t] = "free" /\ t \in Unhooked
  /\ sock[fd].gen # 0 /\ ~Busy(fd)
  /\ sock' = [sock EXCEPT ![fd] = NoSock]
  /\ left' = IF m_datas[fd] # 0 THEN left \cup {fd} ELSE left
  /\ UNCHANGED <<table, lockv, opened, user, pc, op>>

-----------------------------------------------------------------------------
\* FdManager::get of socket() and accept(): ReadLock lock(m_mutex).
Reads(t) ==
  /\ pc[t] = "get"
  /\ ReadLock
  /\ Goto(t, "reading")
  /\ UNCHANGED <<table, world, op>>

AutoCreate(t) == op[t].kind \in {"socket", "accept"}
Found(fd) == IF m_size <= fd THEN 0 ELSE m_datas[fd]

\* get() returns a context or a null pointer, its lock still held.
GetReturns(t) ==
  LET c == Found(op[t].fd) IN
  /\ pc[t] = "reading"
  /\ c # 0 \/ ~AutoCreate(t)
  /\ ReadUnlock
  /\ IF AutoCreate(t)
     THEN /\ user' = [user EXCEPT ![op[t].fd].managed = TRUE]
          /\ Return(t)
     ELSE /\ op' = [op EXCEPT ![t].got = c]
          /\ Goto(t, "apply")
          /\ UNCHANGED user
  /\ UNCHANGED <<table, sock, opened, left>>

\* get(fd, true) finds nothing: lock.unlock().
GetMisses(t) ==
  /\ pc[t] = "reading"
  /\ Found(op[t].fd) = 0 /\ AutoCreate(t)
  /\ ReadUnlock
  /\ Goto(t, "wrlock")
  /\ UNCHANGED <<table, world, op>>

\* wrlock is not granted: the thread waits, the first one for the readers.
Waits(t) ==
  /\ pc[t] = "wrlock" /\ m_wr = Null /\ m_readers # 0 /\ ~m_phase
  /\ m_wr' = t
  /\ Goto(t, "wait")
  /\ UNCHANGED <<table, m_readers, m_phase, world, op>>

\* m_datas.resize(fd * 1.5)
Resized(fd) == IF fd >= m_size THEN (fd * 3) \div 2 ELSE m_size

\* FdCtx::init makes the socket non-blocking.
Inited(s) == [s EXCEPT !.nonblock = TRUE]

\* get(): a new FdCtx under the write lock; then the destructors unlock the
\* write lock and, once more, the read lock.
Creates(t) ==
  LET fd == op[t].fd  g == sock[fd].gen IN
  /\ WriteGranted(t) /\ AutoCreate(t)
  /\ m_size' = Resized(fd)
  /\ m_datas' = [m_datas EXCEPT ![fd] = g]
  /\ ctx' = [ctx EXCEPT ![g] = NewCtx(g)]
  /\ sock' = [sock EXCEPT ![fd] = Inited(@)]
  /\ user' = [user EXCEPT ![fd].managed = TRUE]
  /\ WriteUnlock /\ m_readers' = RdUnlock(m_readers)
  /\ Return(t)
  /\ UNCHANGED <<opened, left>>

-----------------------------------------------------------------------------
\* What the calls do with the context they got; got = 0 is a descriptor that
\* the table does not know, whose call goes to the kernel as it is.
Applies(t, k) == pc[t] = "apply" /\ op[t].kind = k

\* Mutation: the flag is not noted when it clears.
SetUserOnly(c, b) == IF c = 0 \/ ~b THEN UNCHANGED ctx
                     ELSE ctx' = [ctx EXCEPT ![c].user = b]
SetUser(c, b) == IF c = 0 THEN UNCHANGED ctx
                 ELSE ctx' = [ctx EXCEPT ![c].user = b]

\* Mutation: the flag that the program asked for goes to the kernel.
FlagForKernelAsked(c, b) == b
\* fcntl, F_SETFL: arg |= O_NONBLOCK for a socket of the table.
FlagForKernel(c, b) == c # 0 \/ b

fcntlSets(t) ==
  LET fd == op[t].fd  b == op[t].flag  c == op[t].got IN
  /\ Applies(t, "fcntl")
  /\ SetUser(c, b)
  /\ sock' = [sock EXCEPT ![fd].nonblock = FlagForKernel(c, b),
                          ![fd].cleared = FALSE]
  /\ user' = [user EXCEPT ![fd].nonblock = b]
  /\ Return(t)
  /\ UNCHANGED <<m_size, m_datas, lockv, opened, left>>

\* ioctl, FIONBIO: the program's flag goes to the kernel unchanged.
ioctlSets(t) ==
  LET fd == op[t].fd  b == op[t].flag  c == op[t].got IN
  /\ Applies(t, "ioctl")
  /\ SetUser(c, b)
  /\ sock' = [sock EXCEPT ![fd].nonblock = b, ![fd].cleared = ~b]
  /\ user' = [user EXCEPT ![fd].nonblock = b]
  /\ Return(t)
  /\ UNCHANGED <<m_size, m_datas, lockv, opened, left>>

\* setsockopt with SO_RCVTIMEO or SO_SNDTIMEO.
setsockoptSets(t) ==
  LET c == op[t].got IN
  /\ Applies(t, "setsockopt")
  /\ ctx' = IF c = 0 THEN ctx ELSE [ctx EXCEPT ![c].timeout = TRUE]
  /\ user' = IF c = 0 THEN user
             ELSE [user EXCEPT ![op[t].fd].timeout = TRUE]
  /\ Return(t)
  /\ UNCHANGED <<m_size, m_datas, lockv, sock, opened, left>>

\* do_io calls fun(fd, ...): the step after it is Hook's matter.
IoStarts(t) ==
  /\ Applies(t, "do_io")
  /\ Return(t)
  /\ UNCHANGED <<table, lockv, world>>

\* Mutation: the context is not deleted.
CloseStepsKeep(c) == [first |-> "close_f", then |-> "end"]
\* close(): with a context, FdManager::del and then close_f.
CloseSteps(c) == IF c = 0 THEN [first |-> "close_f", then |-> "end"]
                 ELSE [first |-> "wrlock", then |-> "close_f"]

After(t, step) == IF step = "end" THEN Return(t)
                  ELSE Goto(t, step) /\ UNCHANGED op
NextStep(t, step) == LET s == CloseSteps(op[t].got) IN
                     IF s.first = step THEN s.then ELSE "end"

CloseBegins(t) ==
  /\ Applies(t, "close")
  /\ Goto(t, CloseSteps(op[t].got).first)
  /\ UNCHANGED <<table, lockv, world, op>>

\* FdManager::del under the write lock.
Deletes(t) ==
  LET fd == op[t].fd IN
  /\ WriteGranted(t) /\ op[t].kind = "close"
  /\ m_datas' = IF m_size <= fd THEN m_datas ELSE [m_datas EXCEPT ![fd] = 0]
  /\ left' = left \ {fd}
  /\ WriteUnlock /\ UNCHANGED m_readers
  /\ After(t, NextStep(t, "wrlock"))
  /\ UNCHANGED <<m_size, ctx, sock, opened, user>>

close_f(t) ==
  /\ pc[t] = "close_f"
  /\ sock' = [sock EXCEPT ![op[t].fd] = NoSock]
  /\ After(t, NextStep(t, "close_f"))
  /\ UNCHANGED <<table, lockv, opened, user, left>>

-----------------------------------------------------------------------------
Step(t) ==
  \/ Reads(t) \/ GetReturns(t) \/ GetMisses(t) \/ Waits(t) \/ Creates(t)
  \/ fcntlSets(t) \/ ioctlSets(t) \/ setsockoptSets(t) \/ IoStarts(t)
  \/ CloseBegins(t) \/ Deletes(t) \/ close_f(t)

Starts(t, fd) ==
  \/ socket(t, fd) \/ accept(t, fd) \/ close(t, fd) \/ closeUnhooked(t, fd)
  \/ \E b \in BOOLEAN : setfl(t, fd, b) \/ ioctl(t, fd, b)
  \/ setsockopt(t, fd) \/ do_io(t, fd)

Next == \E t \in Threads : Step(t) \/ \E fd \in Fds : Starts(t, fd)

Spec == Init /\ [][Next]_vars
\* The threads of a pool go on with a call they have begun.
FairSpec == Spec /\ \A t \in Threads : WF_vars(Step(t))

-----------------------------------------------------------------------------
Current(fd) == m_datas[fd] # 0 /\ ctx[m_datas[fd]].gen = sock[fd].gen

\* The table follows the descriptors: a socket that socket() or accept() has
\* returned has the context made for it, and a closed one has none, unless a
\* thread without hooks closed a descriptor, whose context then stays and
\* passes to the next socket of that number (fd_manager.cc:85).  A context
\* is stored only where m_datas has a place.
TableExact ==
  \A fd \in Fds \ left :
    /\ m_datas[fd] # 0 => fd < m_size
    /\ sock[fd].gen # 0 /\ user[fd].managed /\ ~Closing(fd) => Current(fd)
    /\ sock[fd].gen = 0 /\ ~Busy(fd) => m_datas[fd] = 0

\* do_io is about to call the system: the kernel's socket does not block the
\* thread, whatever the program set with F_SETFL, unless the program cleared
\* the flag with ioctl, or the context is that of an earlier socket.
NeverBlocks ==
  \A t \in Threads :
    LET c == op[t].got  fd == op[t].fd IN
    Applies(t, "do_io") /\ c # 0 =>
      \/ ctx[c].user \/ sock[fd].nonblock \/ sock[fd].cleared
      \/ ctx[c].gen # sock[fd].gen

\* F_GETFL answers with the flag that the program set last on this socket, and
\* do_io uses the time-out that it set, not those of an earlier socket.
UserFlagKept ==
  \A fd \in Fds : sock[fd].gen # 0 /\ Current(fd) =>
    /\ ctx[m_datas[fd]].user = user[fd].nonblock
    /\ ctx[m_datas[fd]].timeout = user[fd].timeout

\* A thread that closes a descriptor through the hooks comes back.
CloseReturns ==
  \A t \in Threads : (op[t].kind = "close") ~> (op[t].kind # "close")
=============================================================================
