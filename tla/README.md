# A TLA+ model of sylar

`sylar` is a C++ server framework built on stackful coroutines: an N:M
scheduler runs fibers on a pool of threads, an epoll reactor and a timer set
wake the fibers that wait, and hooks turn blocking system calls into such
waits. This directory holds TLA+ modules for its core, the TLC runs that check
them on small instances, and TLAPS proofs of the properties that matter most,
for every number of threads, fibers and tasks. Around the core stand the HTTP
parsers, the descriptor table, the hooked system calls and the byte buffer.

## 1. The system

| component (under `src/sylar/`) | state | operations | hard because |
|---|---|---|---|
| `fiber.{h,cc}` | `m_state`, `m_cb`, saved context | construct, `reset`, `swapIn`, `swapOut`, `YieldToReady`, `YieldToHold`, `MainFunc`, destruct | `m_state` is a plain field that other threads read; it changes before the context does |
| `scheduler.{h,cc}` | `m_fibers`, `m_stopping`, `m_autoStop`, two thread counters | `schedule`, `start`, `stop`, `run`, `stopping`, `idle` | threads interleave between the mutex sections, and inside of them once `start()` has unlocked twice; shutdown is decided by each thread alone |
| `iomanager.{h,cc}` | `m_fdContexts`, `m_pendingEventCount`, the epoll set, the tickle pipe | `addEvent`, `delEvent`, `cancelEvent`, `cancelAll`, `idle`, `stopping`, `tickle` | results of `epoll_wait` are used after the fd's registration may have changed |
| `timer.{h,cc}` | `m_timers`, `m_tickled`, `m_previouseTime` | `addTimer`, `cancel`, `refresh`, `reset`, `getNextTimer`, `listExpiredCb` | an ordered set keyed by a field that `reset` changes; the clock may step back |
| `thread.{h,cc}` | mutexes, rwlocks, scoped locks, semaphore | lock, unlock, `Thread` start-up and join | the destructor of a scoped lock unlocks whether or not it is still locked |
| `hook.{h,cc}`, `fd_manager.{h,cc}` | per-fd flags and timeouts, `timer_info` of a call in progress | `sleep`, `connect`, `read`, `write`, `close`, `fcntl`, `ioctl`, `setsockopt` | an I/O event races its timeout |
| `config.{h,cc}` | named variables with change listeners | `Lookup`, `setValue`, `LoadFromYaml` | listeners run inside a lock |
| `log.{h,cc}` | loggers, appenders, formatters | `log`, `reopen`, pattern parsing | appenders are shared between loggers and threads |
| `bytearray.{h,cc}` | a list of blocks, position, size | fixed-width, varint and string codecs, buffers, files | block boundaries, zigzag and length limits |
| `socket.{h,cc}`, `address.{h,cc}` | socket life cycle, addresses | `bind`, `listen`, `accept`, `connect`, mask arithmetic | order of calls |
| `http/` | two generated machines (349 and 123 states), positions in the buffer, requests and responses | `execute` with callbacks, print, header maps | a head comes in buffers cut anywhere, and positions are kept across calls |
| `util*` | nothing | strings, files, codecs | boundaries |

The calls between them: a task calls `schedule`, an event or a timer holds the
pointer of a fiber and schedules it, `run` switches to it, the hooks register
the event and yield. Everything above `Scheduler` relies on three promises of
`Scheduler`: a fiber runs on one thread at a time, no scheduled task is lost,
and `stop()` returns after everything has run.

What makes each part correct, and is worth stating:

* `Fiber`, `Scheduler`: a fiber is executed by one thread at a time; its
  function is entered once; no scheduled task is dropped; the two counters are
  exact at every step, because `stopping()` decides on one of them; `stop()`
  returns, and only when everything has run; no assertion fails.
* `IOManager`: a fiber that waits for an event is woken exactly once, whoever
  comes first; the pending counter is exact; the epoll set and
  `FdContext::events` agree; a registered event can be found again; no edge of
  the edge-triggered set is lost; no assertion fails.
* `TimerManager`: the set stays ordered while `reset` changes the key; a new
  front timer tickles the sleeping thread; a timer fires once, and never after
  a successful `cancel`.
* Hooks: a call ends by its event or by its time-out and by no second;
  afterwards neither a timer nor an event of it is left behind.
* `FdManager`: one `FdCtx` per open descriptor; the user sees his own
  `O_NONBLOCK` and never the one of the framework.
* HTTP parsers: the callbacks come in the order of the message and with the
  whole text of each part; nothing that was not stored is used; the caller can
  tell when the head is complete.
* `ConfigVar`: listeners see every change once and in the order of the stores.
* `ByteArray`: what is written is read back, across block boundaries and at
  the limits of the types; it is one tape of bytes.
* All together: when every thread of a pool has left, no task, timer or event is
  left behind, and until then what is queued is run.

## 2. Modules

| module | what it is |
|---|---|
| `Scheduler` | `fiber.{h,cc}` and `scheduler.{h,cc}` together |
| `TaskPool` | the abstract specification of what a scheduler promises |
| `MCScheduler` | the instances for TLC |
| `SchedulerProofs` | types and exact counters whatever `start()` unlocks; fiber exclusion, the assertions, no task lost, `stop()` drains, until sections of `m_mutex` overlap; that they do not without a worker; proved |
| `SchedulerPool` | functions are entered once, and `TaskPool` is implemented, until sections of `m_mutex` overlap, proved |
| `IOManager` | the event half of `iomanager.{h,cc}` |
| `MCIOManager` | the instances for TLC |
| `IOManagerProofs` | types, one wake-up, exact counter, assertions, events found, the epoll set agrees, proved |
| `Timer` | `timer.{h,cc}` and the sleep of `IOManager::idle()` |
| `MCTimer` | the instances for TLC |
| `TimerProofs` | the order of the set, one end per timer, `cancel()` finds it, nobody oversleeps, proved |
| `IdleLoop` | `run()`, `idle()`, `tickle()`, `stopping()` and `stop()` together |
| `IdleLoopProofs` | nothing is left behind, the exact counter of events, proved |
| `FdManager` | `fd_manager.{h,cc}` and the hooked calls that keep the table |
| `MCFdManager` | the instance for TLC |
| `FdManagerProofs` | the table follows the sockets, flags kept, no blocking call, proved |
| `Hook` | the hooked calls that wait, against time-outs and `close()` |
| `MCHook` | the instance for TLC |
| `HookProofs` | one wake-up per wait, who is stranded, whose time-out, what `connect` reads, proved |
| `RequestMachine` | the machine of `http11_parser.cc` |
| `ResponseMachine` | the machine of `httpclient_parser.cc` |
| `HttpParser` | `http_parser.{h,cc}` over both machines |
| `ByteArray` | `bytearray.{h,cc}` |
| `ByteTape` | the abstract specification of a byte array |
| `MCByteArray` | the instance for TLC |
| `ByteArrayProofs` | no null pointer, values read back, views exact, `ByteTape` is implemented, proved |

Definitions keep the names of the code. Operators whose comment begins with
"Mutation" are wrong variants of the definition that follows them; they show
that a property notices the mistake and are used by no specification.

### 2.1 `Scheduler`

The two classes are one module because the interesting state is between them:
`run()` reads and writes `Fiber::m_state` of fibers that run elsewhere.

A section under `m_mutex` is one action; every other step that another thread
can see (the store of `m_state`, `swapcontext`, the atomic counters) is an
action of its own. A pool thread is at one of these places:

| `pc[t]` | place in `run()` |
|---|---|
| `off`, `exited` | before and after `run()` |
| `pick` | about to lock `m_mutex` and scan `m_fibers` |
| `run` | an entry is in `ft` and counted in `m_activeThreadCount` |
| `exec` | inside the function of the fiber |
| `holding` | the fiber gave its pointer to an event or timer, and has not yielded |
| `leaving`, `ending` | `m_state` is stored, the context is not saved yet |
| `back` | `swapIn()` returned, the counter is not yet taken down |
| `settle` | the counter is down, the fiber is not yet rescheduled or dropped |
| `nofiber` | nothing eligible was found |
| `idle`, `idleback` | in the idle fiber; it switched back, still counted as idle |

The owner moves through `created`, `starting` (the workers run, and `start()`
has unlocked `m_mutex` by hand), `started`, `stopping`, `root` (inside
`m_rootFiber->call()`), `join` and `stopped`. What the function of a task does
is the environment's choice within the constant `Behaviours`: yield
(`"ready"`), register and hold (`"hold"`), schedule another task (`"spawn"`),
throw (`"throw"`). Pointers are counted: a fiber that nothing refers to any
more is destroyed, with the assertion of `~Fiber`, and becomes `FREE`. A
suspended `MainFunc` holds a pointer to its own fiber, which `Referenced`
includes. `abort` names the assertion that ended the process.

**The second unlock of `start()`.** `start()` calls `lock.unlock()`
(scheduler.cc:71), and the destructor of `ScopedLockImpl` unlocks again when it
returns (thread.h:36), which is `StartReturns`. A default mutex of glibc does
not check who unlocks it: it is free afterwards, or a worker that was inside
loses it. That worker is `robbed`, with the list as it was when it lost the
lock; its own unlock at the end of its section is then one too many and may rob
the next (`UnlocksAgain`). `torn` says that two sections have overlapped: a
thread entered one (`Section`) while another was robbed in its own. From then on
the list, which two threads rewrite without a lock, may hand out an entry again
that the other has taken (`TakesAgain`), lose what was pushed behind the node
that is erased (`Unlinks`), or lead to freed memory (`ListBreaks`, which ends
the process as `abort = "race"`). These are the outcomes of a `std::list` that
the properties can tell apart. A thread in `schedule()`, which a function, an
event or the owner calls, is the one that enters and never the one that was
robbed; and the sections of `stop()`, which only read the list or swap
`m_threads`, neither rob nor are robbed (section 6).

`TaskPool` says what a user of the scheduler sees: a task is new, ready,
running or done, at most as many run as there are threads, and the pool closes
when nothing is left. `ImplementsTaskPool` maps the state of `Scheduler` to it,
step by step until `torn`.

### 2.2 `IOManager`

A thread is free, in one of `addEvent`, `delEvent`, `cancelEvent`, `cancelAll`,
or in the loop of `idle()` over the result of `epoll_wait`:

| `pc[t]` | place |
|---|---|
| `free` | in no call; with a non-empty `batch[t]`, between two entries of the loop |
| `reading` | holds the read lock of `m_mutex` |
| `grow` | `addEvent` found the vector too small and waits for the write lock |
| `lock` | waits for the mutex of the `FdContext` |
| `added`, `deleted` | holds it; `epoll_ctl` succeeded, the rest is not stored |
| `trigger`, `count` | holds it; next is `triggerEvent`, or `--m_pendingEventCount` |

An `FdContext` is a pair of its descriptor and a number, because
`contextResize` can drop one and construct another for the same descriptor.
`waiter[c]` are the `EventContext`s that hold a pointer, `sched` the run-queue
entries of those who wait; `user` is what the fibers do. Modelled from their
use: the epoll set (`interest`, and the ready list `rdlist`), the readiness of
descriptors (`ready`), and the lock `m_mutex`, whose count `readers` goes below
zero the way glibc's does when a read lock is released twice, and which stays
in the write phase (`writing`) after a writer that nobody waited for. The ready
list and a batch are sets: the entries of one `epoll_wait` are for different
descriptors.

A closed descriptor's number is at once used again: `Close` makes its `user`
idle, while the `FdContext` keeps the event and the pointer of a fiber that
still waited, and `left` remembers the number. The fiber of the next descriptor
knows nothing of the other one and calls `addEvent` as any other; the call looks
at `FdContext::events` first, as the code does (iomanager.cc:161), and asserts
(`AddAsserts`), and only then calls `epoll_ctl`, which may fail (`AddFails`).
On a number in `left` an entry of the run queue may belong to either fiber, so
that `OneWakeUp`, `PendingGuards` and `WaiterWoken`, which follow one fiber,
leave these numbers out; the counter and the assertions do not. `MaxWoken`
bounds the entries that such a number can collect.

### 2.3 `Timer`

Users add, cancel, refresh and reset timers; pollers are pool threads in
`IOManager::idle()`. A section under `m_mutex` is one action. `addTimer(val)`
looks at `begin()` and at `m_tickled` after it released the lock, and `reset()`
changes `m_ms` and `m_next` between two sections; there every step is an action:

| `pc[u]` | place of a user |
|---|---|
| `idle` | in no call |
| `insert` | `addTimer(val)` before its lock; the timer is in no set |
| `front` | inserted; about to compare with `begin()` and read `m_tickled` |
| `store`, `tickle` | about to set `m_tickled`; about to tickle |
| `reset` | between the two halves of `reset()`; the timer is in no set |

| `at[p]` | place of a poller |
|---|---|
| `away` | in `run()`, with a task or looking for one |
| `next` | in `idle()`, about to call `stopping()`, which calls `getNextTimer()` |
| `sleep` | in `epoll_wait`, with `left[p]` of the time-out `asked[p]` to go |
| `peek`, `collect` | in `listExpiredCb`, before the read lock; before the write lock |

A `std::set` is searched by the field `m_next` of its elements, which code could
change while an element is inside. So the model keeps `key[t]`, the value the
tree was built with, apart from `m_next[t]`: `find()` succeeds when they agree.
`fired` and `cancelled` count how often a timer that does not recur was collected
and how often `cancel()` returned true for it. `Tick` is time for the clock and
for the sleepers; `SetBack` is the clock alone. The pipe is edge-triggered: a
flag that a write sets and a report clears. Calls that return false change
nothing and are not steps. What the functions of timers do, and events of
other descriptors that end a sleep early, are not in this module.

### 2.4 `IdleLoop`

The three modules above are about one class each. `IdleLoop` composes what
they promise, to ask how the pool works and stops as a whole: `run()` with its
queue and counters, `idle()` from `stopping()` to `swapOut()`, `tickle()`, and
`stop()`. Tasks, timers and events are numbers; a task may schedule another,
add a timer, wait for an event, yield or end. `stopping()` is three steps
(`NextTimer`, `ReadPending`, `ReadQueue`), since each of its reads has its own
lock or none, and so is what `idle()` does with what it collected: an expired
function is in no set and in no queue between `Expired` and `ScheduleCbs`. The
owner asks the same question in `stop()` before it calls `m_rootFiber` (the
places `stop next`, `stop pending`, `stop queue`). Time is left out:
`epoll_wait` may return at any moment, which its time-out of at most 3 s
justifies.

### 2.5 `FdManager`

The table `m_datas` of `FdCtx` under its `RWMutex`, with the calls that create
(`socket`, `accept`), delete (`close`) and use a context (`fcntl`, `ioctl`,
`setsockopt`, the head of `do_io`). `sock` is the kernel's socket behind a
number, with a generation, so that a context can be told from one of an
earlier socket; `user` is what the program set. Threads in `Unhooked` have
`t_hook_enable = false`: their `close()` bypasses the table. The lock is the
one of `IOManager`, with glibc's reader count below zero and its write phase.

### 2.6 `Hook`

`do_io`, `connect_with_timeout`, the sleeps and `close()` on one descriptor
number, over the promises of `IOManager` and `TimerManager`. Fibers, the
time-outs they started (`tm`) and the events (`waiter`, `interest`) interleave
step by step:

| `pc[f]` | place |
|---|---|
| `idle` | in no call |
| `fun` | about to make the system call |
| `arm`, `add` | before `addConditionTimer`; before `addEvent` |
| `held` | yielded, until an entry of the run queue resumes it |
| `sockopt` | `connect` asks for `SO_ERROR` |
| `del`, `close_f` | in `close()`, before `FdMgr::del`; before `close_f` |

A timer is armed, queued, in its callback between `cancelled = ETIMEDOUT` and
`cancelEvent`, or over; it carries the number of the call it serves, which is
what `winfo.lock()` tells. `missed` and `late` mark the two windows described
in section 4.

### 2.7 The HTTP parsers

`RequestMachine` and `ResponseMachine` are the generated machines, state by
state under the numbers of the code: a row gives, for a state, the edges
`<<bytes, state, actions>>`. Bytes are abstracted to the classes that the code
tells apart (46 and 33). The second copy of the grammar of IP literals, 175
states further on, is the first one with an offset, as it is in the code.

`HttpParser` runs either machine the way `execute()` does, one buffer a call. A
position in the buffer is abstracted to the event after which it was recorded,
to `reset` or `unset`, or to `earlier` when the buffer it points into is gone;
this is what decides whether a callback gets the text it should. `Execute`
starts a call, `Byte` and `BadByte` consume a byte, `BufferEnd` returns; the
head may be cut anywhere, and a call may come after the end of the head
(`again`) or after an error (`failed`). In the error state the request parser
returns at once. The response parser's switch has no case for that state and
falls to the label that stores state 2 (httpclient_parser.cc:3165), so the model
goes there: `hasError()` is false again. The response parser also asserts that a
NUL follows the buffer (httpclient_parser.cc:111); `nul` says whether the caller
saw to that. `heard` has the events of one step in their order, so that a part
told twice in a row shows. The message objects keep only the part stored last
and where its text came from.

### 2.8 `ByteArray`

Blocks are numbered along the list, `m_cur` is the number of a block or `null`,
and a turn of a copying loop is a step. The public functions are `Writes` and
`Reads` of the bytes they produce or want; those that only look (`toString`,
`getReadBuffers`, `writeToFile`, ...) are operators that give the cells they
hand out. A byte has `GroupBits + 1` bits, and integers `Width`, so that
overflow and the number of bytes of a variable-length integer are those of the
code at a smaller scale. `ByteTape` is what a user expects, a sequence with a
position; `ByteTapeSpec` maps the blocks to it.

## 3. Runs

| run | checks | instance |
|---|---|---|
| `pool` | one thread per fiber, no task lost, `stop()` drains, refinement of `TaskPool`; all until sections overlap | 2 workers, 3 tasks, 3 fibers, symmetric |
| `hold` | a function is entered once, only `~Fiber` can assert | 1 worker, 2 tasks that hold, throw, yield, spawn |
| `caller` | `stop()` returns, tasks complete; or sections have overlapped | `use_caller`, 1 worker and the owner, tasks pinned to either, fairness |
| `io_two` | exact counter, one wake-up, counter guards the waiters, the epoll set agrees, a ready waiter is woken | 2 threads, 1 descriptor, both events, every call, hang-up, fairness |
| `io_oneway` | no assertion but at an event left behind, every registered event is found | 2 threads, READ on two descriptors beyond the table, closed at any time |
| `timer` | the set in order, `cancel()` finds what it erases, one end per timer, nobody oversleeps, what is due is collected | 2 users, 1 poller, 2 timers, fairness |
| `idle` | nothing is left when all threads have left, `stop()` ends, the queue is served | 2 workers and the caller, 3 pieces of work, fairness |
| `fd` | the table follows the sockets, `do_io` does not block a thread, flags and time-outs are those the program set | 2 hooked threads and one without hooks, numbers 5 and 64, 2 sockets |
| `hook` | one wake-up per wait, who can be stranded, `connect` tells the truth, no foreign time-out, a timed call returns | 2 fibers, 3 calls, 2 sockets under one number, fairness |
| `http` | parts whole, in order and once, the head complete, no uninitialised position, assertions | both machines, every byte class, any cuts, calls after the end and after an error, with and without the NUL |
| `bytearray` | no null pointer, values read back, views exact, refinement of `ByteTape` | 3 blocks of 2 bytes of 2 bits, integers of 3 bits |
| `fd_blocks` | *violated*: `close()` returns | 1 thread, 1 number, fairness |

The inductive invariants of the proofs, and the type invariants, the exact
counters and `NoAbort`, which follow from them for every instance, have no run
of their own; `MCScheduler`, `MCIOManager` and `MCTimer` give access to them.

**Bounds.** Two threads are what every race in `run()`, `idle()` and the four
calls needs: each of them is between one thread's window and another thread's
step. Three tasks let one be queued while two run; a third fiber lets each
thread keep a spare `cb_fiber` while another fiber is suspended. `MaxYields = 1`
allows a suspension and a resumption by another thread; more repeats it, as the
proofs confirm for the safety properties. In `IOManager` both events of one
descriptor share an `FdContext` and its mutex, contexts of different
descriptors share only the vector and the counter; so one descriptor with both
events covers the races inside a context, and two descriptors, 40 and 50, beyond
the first size of 32 cover the vector: both threads may find it too small, and the
second one then resizes it on a size that is no longer true. 40 asks for 60 and 50
for 75, so that each has room in what the other asks for; section 4 says what
happens when it has not. `MaxGen` bounds how many contexts are constructed for a
descriptor: 1 where none is dropped. `MaxWoken = 1` keeps a fiber from `addEvent`
while an entry for an earlier descriptor of its number is in the run queue.
`MaxEvents` is the code's 256.

In `timer` two users and one poller are the three parties of `m_tickled`: one
tickled, one adds a new front, and the thread clears the flag. The clock starts
at 1 and stops at 2, or goes back to 0 once; delays are 1 and 2, so that timers
are due at the same time, at different times, and not at all. `MaxTimeout = 2`,
`Hour = 1`, `IntHalf = 8` and `Wrap = 64` put the cap and the rollover within
reach and keep the wrap of `m_previouseTime - Hour` at 0. `MCScenarios` are
three state spaces in one run: users who cancel, refresh and reset; recurring
timers with signals; and a clock that is set back. `Alone = TRUE` says that no
two calls on one timer overlap; section 4 says what happens otherwise.

In `idle` three pieces of work are what the longest hand-over needs: a task
yields, is taken by a thread that was about to leave, and waits for an event.
The numbers 5 and 64 of `fd` are inside and just beyond the first size of
`m_datas`; with two sockets a number is used again. In `hook` one fiber reads
and connects, with a second call for the time-out of the first to come late,
while the other one reads, sleeps and closes. `http` has no bound: buffers have
any length, and the state space is finite because positions are abstracted. In
`bytearray` a string of three bytes spans blocks from every position, and the
written number is, read as signed, the smallest, whose zigzag code is the
largest word and takes three bytes.

**Fairness.** `Scheduler`: each pool thread keeps running (weak fairness of
`Runs(t)`, the scheduler of the operating system), which includes that a task
goes on to its end; and the owner's `stop()` goes on once it was called. Nobody
is obliged to call `schedule`, `start` or `stop`. `IOManager`: a thread inside
a call or inside the loop of `idle()` goes on, and gets a mutex that becomes
free again and again (strong fairness, since others may take it in between);
and a descriptor on the ready list is reported (strong fairness: threads return
to `epoll_wait` and the list is first in, first out). The last one assumes that
the run queue is empty from time to time: a thread polls only when it finds
nothing to run. Readiness, hang-up, close and the calls themselves are not
fair. `Timer`: time passes, and a poller goes on (weak fairness; a task it runs
ends, and it comes back to `idle()`); users and signals owe nothing.
`IdleLoop`: threads go on, tasks end, timers become due, and peers answer (weak
fairness); the owner need not call `stop()`. `epoll_wait` returns, because its
time-out is never more than 3 s: with a wait that only a tickle ends both of its
liveness properties fail. `Hook`: a fiber that can go on does, and time-outs are
collected and run; nothing is assumed of the network. `FdManager`: a thread goes
on with a call that it began.

Deadlock is checked in the runs of `Scheduler`, `IOManager` and `Timer`. In the
first two a stopped pool and a failed assertion stutter; `Timer` ends at an
`erase(end())`, which its run does not reach. The other modules really stop: a
pool that has left, an assertion or a null pointer, or the bound on calls,
sockets or blocks.

## 4. Findings

`fd_blocks` shows where the program departs from what its comments say: a read
lock that was released by hand is released again by its destructor
(thread.h:68); with glibc the reader count falls below zero and no write lock is
granted any more, except to a `wrlock` that directly follows a write phase.
`FdManager::get` does so whenever it creates a context, so the
first hooked `close()` of a socket waits for ever in `FdManager::del`. The same
holds for `addEvent` on a descriptor beyond the end of `m_fdContexts`
(`AddReturns` of `IOManager`).

What the other modules show without a run of its own, each by a property that
the module states or by an exception that a property names:

* `start()` releases `m_mutex` twice (scheduler.cc:71 and 78), and a worker that
  is inside its scan of `m_fibers` by then loses it. The properties of `pool` and
  `caller` say `torn` for what happens once a second thread is inside too.
  Without that exception TLC finds `OneThreadPerFiber` violated in 8 states (two
  workers take one fiber), `TaskNotLost` in 6 and `StopDrains` in 20 (an entry
  pushed beside the erased one is unlinked), and `RunOnce` in 8 with two workers
  (one callback is begun twice, which is no step of `TaskPool`). One worker loses
  tasks in the same way, when the owner schedules during its scan, but runs none
  twice: `RunOnce` and `OnlyDestructorFails` hold in `hold` without an exception.
  A pool of the caller alone is safe (`CallerAlone`).
* `OneThreadPerFiber` fails with two workers and `"hold"` among `Behaviours`,
  sections overlapping or not:
  `YieldToHold` stores `HOLD` before the context is saved (fiber.cc:186),
  although the fiber's pointer is already with an event or a timer. A wake-up in
  between lets a second thread resume a running stack. With one worker this
  cannot happen (`hold`), nor without `YieldToHold` (theorem `FiberExclusion`).
* `NoAbort` fails with `"throw"`: the handlers of `MainFunc` store `EXEC` and not
  `EXCEPT` (fiber.cc:206), so that the fiber of a callback that threw fails the
  assertion of its destructor. Nothing else goes wrong
  (`OnlyDestructorAsserts`).
* `TriggerAsserts` fails with both events of a descriptor: `idle()` skips a
  reported entry only when all of its events are gone (iomanager.cc:400); when
  one of two is, `triggerEvent` asserts. With one direction per descriptor it
  cannot (`OneWayAsserts`).
* `addEvent` asserts that the event is not registered yet (iomanager.cc:161). It
  is, when the number was closed under a fiber that waited there or was on its
  way, by a `close()` without hooks or in the window of hook.cc:343, and a fiber
  of the number's next descriptor adds the same event: the kernel has forgotten
  the registration, the `FdContext` has not. The process ends there before
  `epoll_ctl` is asked. `AssertionsHold` allows this case (`LeftBehind`) and no
  other.
* `EventsReachable` fails with two descriptors beyond the table of which one does
  not fit into the table that the other makes, 40 and 70 for example: `addEvent`
  does not look at the size again under the write lock (iomanager.cc:156), and a
  second `contextResize` makes the vector smaller and loses the context of a
  registered event.
* `IdleLoop`: a thread whose idle fiber has seen `stopping()` looks at the queue
  once more (scheduler.cc:154) and may take a task that another thread
  rescheduled in the window of scheduler.cc:183. If that task waits for an event
  the thread leaves without asking again, and the others may have read the
  counter before: all threads leave and the waiting fiber is never resumed.
  iomanager.h:145 calls `stopping()` the test of whether the pool may stop.
  `NothingLeft` excepts this case (`late`) and no other.
* `IdleLoop`: nobody tickles a thread that sleeps while the last task ends, or
  one that is between its last look at the queue and `++m_idleThreadCount`; it
  comes back after the time-out of `epoll_wait`, up to 3 s later.
* `FdManager`: `ioctl(FIONBIO, 0)` clears the kernel's flag (hook.cc:451), which
  `F_SETFL` takes care not to do, and later calls of `do_io` block the thread;
  a `close()` by a thread without hooks leaves the context for the next socket of
  that number. `NeverBlocks` and `TableExact` name both. `m_isClosed` is never
  set.
* `Hook`: a time-out that fires between `addConditionTimer` and `addEvent` marks
  the call and cancels nothing; the fiber then waits for the event alone
  (`missed`). A fiber that registers while `close()` is between `cancelAll` and
  `close_f` is left with a registration the kernel has forgotten (`late`); the
  number's next user trips the assertion of `addEvent`, the one that
  `AssertionsHold` of `IOManager` allows. `NoForeignTimeout` is about the mark
  `ETIMEDOUT`: a callback that runs `cancelEvent` late may still wake the next
  call on the descriptor early, without the mark. A `connect` that
  `close()` or a late time-out woke, or whose `addEvent` failed, returns 0 while
  the connection is still being made, because `SO_ERROR` is 0 then (hook.cc:269).
* HTTP: what does not hold of a head that is cut into several buffers
  (`WholeInOneCall` is about one): the positions are reset at each call, so a
  part that began in an earlier buffer is cut, a header whose name was there is
  dropped, and a version that was is rejected or taken for 1.1. `query_start`
  and `body_start` are not reset; a call after the end with a shorter buffer
  fails the assertion on `body_start` (`AbortsOnlyAfterEnd`), and before that
  the request machine goes on with another header, because its final state has
  edges. A response parser called again after an error reads on as if the size
  of a chunk came next (httpclient_parser.cc:3165), and `hasError()` no longer
  tells; a buffer for it without a NUL behind its end fails the assertion at
  httpclient_parser.cc:111. The comment at http_parser.cc:166 promises -1 on an
  error, which `execute()` never returns.
* HTTP: `httpclient_parser_is_finished` compares with the first of four final
  states, 120 (httpclient_parser.cc:3335). A chunk's line ends there; a head whose
  last lines are certain headers ends in 121, 122 or 123, and `finish()` then
  gives 0 although http_parser.h:118 calls it the test of whether parsing is
  complete. `DoneIsFinished` states the contrary and fails for
  `Kinds = {"response"}`, in state 122. In the error state `isFinished()` is -1,
  which is true as a condition.
* HTTP grammar: `HTTP_CTL` is written as a difference and is `{0, 127}`, and
  `6( h16 ":" )` is read as the byte 0x06, so that a full IPv6 literal is no
  target of a request. The machines are modelled as they are.
* `ByteArray`: an empty read at the end of the last block follows a null pointer
  (bytearray.cc:385); `read()` at a position outside of the current block,
  buffers asked for ahead of the position and a file written from inside a block
  with less than a block left are wrong (416, 588, 471). `OnlyEmptyReadCrashes`
  and `ViewsExact` leave out exactly these.

A task that another task schedules for one worker by
name can be stranded. A worker leaves `run()` once it saw `stopping()`, which
is true for a moment while a fiber is between `--m_activeThreadCount` and its
rescheduling (scheduler.cc:183-185); a task spawned afterwards for that worker
has nobody to run it. With `SpawnPins = {w1}` TLC finds `StopReturns` violated
for two workers, and `StopDrains` for three workers and `MaxYields = 2`. The
assumption `NoSpawnPin` of the proofs is there for this reason.

In `Timer`:

* With `Alone = FALSE` TLC finds `ErasesWhatItFound` violated. `reset()` has
  taken the timer out and released the lock (timer.cc:86); `cancel()` finds its
  function still there, `find()` returns `end()`, and `end()` is erased
  (timer.cc:47). `refresh()` and `reset()` compare with `end()`, `cancel()` does
  not.
* With `Alone = FALSE` also `NoOversleep`. A timer that one user inserts by
  `reset()` hides, until another user cancels it, that a second new timer is the
  earliest: the first call sees its iterator gone, the second saw somebody else
  in front, and neither tickles. timer.h:141 says that the function is called
  when a new timer is inserted at the front. The thread wakes up at its own
  time-out, 3 s at most.
* A signal makes `epoll_wait` start again with the whole time-out
  (iomanager.cc:360), and a timer more than 2^31 ms ahead makes it wait without
  one (iomanager.cc:353, `(int)next_timeout` is negative). `late` and the bound
  on the delays keep both out of the properties.
* After the clock was set back `refresh()` may put a timer in front of the
  others and does not tickle; `NoOversleep` is stated for a clock that was not.

## 5. Proofs

All theorems are for every value of the constants that satisfies the
assumption its module names (`SchedulerAssumption`, `IOManagerAssumption`,
`TimerAssumption`, `IdleLoopAssumption`, `FdAssumption`, `HookAssumption`,
`ByteArrayAssumption`): any finite number of threads, any fibers, tasks,
descriptors, sizes, widths and bounds. A theorem that needs more has it as a
hypothesis. `PowersAssumption` of `ByteArray` assumes nothing of the program: it
is `b ^ (n + 1) = b * b ^ n` for the powers that the integers need, a law that
none of the provers knows and that TLC evaluates with the other assumptions.

**Scheduler.** The invariants are a tower; each level is inductive relative to
the ones below, and each has one lemma per action. The first level holds of every
step, those after sections of `m_mutex` have overlapped included: `RaceInv` says
that what a robbed thread may still find in its list were entries, so that
`TakesAgain` and `Unlinks` keep the types and the counts. The levels above are
proved until then. `CleanStep` is a step that is none of `Astray`; each level has
a lemma that such a step keeps it, and `Untorn` that a step to a state without
overlap is one. The invariant is therefore `torn \/ I`, and `torn` never becomes
false again. Theorem `CallerAlone` says when nothing overlaps: without a worker
nobody is inside when `start()` unlocks again.

* `TypeInv` (`SchedulerProofs`): types, what a thread's locals hold at each
  program counter (`Hands`), who is off (`AllOff`), and the exact counters.
  The counters must be part of it: that a decrement stays in `Nat` follows only
  from the thread being counted. Theorems `TypeCorrect`, `CountsExact`.
* `FiberInv`: `Exclusive` (a fiber that is executed, in a
  thread's hand or queued has one such place), `Phases` (how `m_state`, the
  saved context and the program counter go together) and `Aborts`.
  `OneThreadPerFiber` alone is not inductive, since a second queue entry for a
  running fiber would break it a step later; and such an entry is what an overlap
  makes. Assumes `NoHold`
  (`"hold" \notin Behaviours`), which section 4 shows to be needed. Theorems
  `FiberExclusion`, `OnlyDestructorAsserts`; with `"throw" \notin Behaviours`
  also `NoAssertionFails`.
* `LocatedInv`: every unfinished task is in the queue or in
  a thread's hand (`AllLocated`); that an entry is a fiber or a function and
  never both (`Single`) is what makes taking it up keep the task in sight.
  Theorem `NoTaskLost`.
* `DrainInv`: in addition `Service`: whatever is left has a thread that will
  come for it. This is the argument for the window of scheduler.cc:183: the
  thread that took the counter down still holds the fiber and looks at the
  queue again before it can leave. Theorem `StopDrainsAlways`, with
  `NoSpawnPin`.
* `TaskInv` (`SchedulerPool`): a function is in one place, an entry of
  `m_fibers`, the entry a thread took or a fiber, and untouched until it is bound
  to a fiber; a fiber that somebody will switch to has not ended, and was not
  entered before if its context is the one `makecontext` made. `RunOnce` alone
  is not inductive: a second entry for the same function, or a fiber reset while
  it is queued, would break it a step later. Theorem `RunsOnce`, with `NoHold`.

Theorem `PoolImplemented` (with `NoHold` and `NoSpawnPin`) is the refinement of
`TaskPool`. `schedule` of a new task is `Submit`; `RunFiber` and `RunCb` are
`Begin`; the switch out of a fiber that yielded is `Suspend`; the end of a
function, by return or by exception, is `Finish`; the last step of `stop()` is
`Close`; all others stutter. After an overlap a task may begin twice, which is no
step of `TaskPool`, so the refinement is of the steps that lead to a state
without one. Three facts carry it. Two threads never run one
task (`FiberInv`), so that the running tasks map one to one to threads other
than the one that begins, and there is room for one more. A fiber that is
switched to is not over (`TaskInv`), so that `Begin` finds its task ready. And
`StopDrains` makes `Close` find every task done.

**IOManager.** `SafeInv` (`IOManagerProofs`) is `TypeInv` and

* `LockInv`: who is past the mutex of a context holds it, and only one does;
* `AddInv`: one `addEvent` at a time is under way for an event of a descriptor;
  this and the next hold of numbers that were not closed under a fiber (`left`);
* `WaitInv`: a fiber that waits is registered in exactly one context of its
  descriptor or queued exactly once, never both, and a fiber that does not wait
  is neither;
* `HeldInv`: what the holder of the mutex knows about the context between
  `epoll_ctl` and the stores that follow it;
* `CountInv`: the counter is the number of registered events, those that are
  triggered and not yet counted down included.

`OneWakeUp` is `WaitInv` restated with cardinalities; it is not inductive
without `LockInv` and `HeldInv`, since a second holder of the mutex could
trigger the same event again. Theorems `IOTypesHold`, `CounterExact`,
`WokenOnce`, `CounterGuards` need nothing else.

`AssertInv` is about the assertions, on all numbers. That of `cancelAll` never
fails. Those of `addEvent` fail only in a call that finds its event registered
under a number in `left`: on any other number `AddInv` and `WaitInv` say that the
fiber that adds is not registered, and `events = waiter` that the check of the
context after `epoll_ctl` adds nothing to the one before. That of `triggerEvent`
fails only when fibers wait for both directions. Theorems `CallsDoNotAssert`, and
`OneWayAsserts`, which assumes one direction only.

`ReachInv` is about the vector: the context that a call, a reported entry or the
epoll set points to is the one in `m_fdContexts`. `EventsReachable` speaks only
of contexts with events; a call on its way to its mutex will give its context
one, so the pointers of all have to be followed. Theorem `EventsFound` assumes
`Near`: of two descriptors beyond the first table each fits into the table that
the other one makes. This is what the code needs and no more, since `addEvent`
does not look at the size again (section 4). `AgreeInv` says what the epoll set
holds while somebody is between `epoll_ctl` and the stores: `events` as it will
be when the mutex is released (`Intent`). Theorem `EpollFollows` assumes `Near`
and `NoClose`, since a `close()` makes the kernel forget a registration that
`events` keeps.

**Timer.** `TimerInv` (`TimerProofs`) is

* `Fresh`: a timer that addTimer has not constructed is untouched;
* `History`: a timer that still has its function came to no end, and no timer
  came to two. `FiresOrCancels` alone is not inductive: that the next `cancel()`
  or expiry is the first follows only from `m_cb` being there;
* `Carried`: a timer on its way into the set is in one user's hands, is not in
  the set and has its function;
* `Ordered`: the key is `m_next`, and the function is there. It needs `Carried`,
  since `reset()` writes `m_next` without the lock.

The last two end with `erase(end())`. Theorems `TimersInOrder` and `OneEnd` need
no assumption on how calls overlap. `PlacedInv` adds, for `Alone`, that a timer
with a function is in the set or in somebody's hands: theorem `CancelFinds`.

`SleepInv` is the argument for `m_tickled`, which users read and set without the
lock. `Tickled`: while the flag is set, a tickle is in the pipe or about to be
written, or a thread is up, since the only way to sleep clears the flag.
`Covered`: unless somebody is about to tickle, there is one thread such that
every timer is one it wakes for, or has a timer at or before it which an
`addTimer` has inserted and not yet looked at. `NoOversleep` is weaker by the last
clause, and not inductive: a call that finds another timer in front returns
without a tickle, and is right only because that one is covered or still to be
looked at. `Timed` (a timer was started in the past and is due one period later)
makes `refresh` put a timer off and never forward. Theorem `SleepersWake` assumes
`Alone`, which section 4 shows to be needed, a thread in the pool, and `Modest`:
a period is below 2^31 ms and the clock plus a period below 2^64 (section 4 says
what the cut to an int does otherwise).

**FdManager.** `FdInv` (`FdManagerProofs`): a call that makes or closes a
descriptor is alone on it (`Alone`, which is the kernel's doing: a number is
given out once); sockets and contexts are numbered apart (`Numbers`); a stored
context is inside the vector and belongs to the socket unless the number was
closed without hooks (`Stored`); what a call read under the lock is still so
when it uses it (`Known`); what the program holds has a context (`Managed`); and
`Flags`. `TableExact` is not inductive without `Known`: `get()` drops the read
lock and creates under the write lock without a second look (fd_manager.cc:89),
and only `Alone` makes that harmless. Theorems `TableFollows`, `IoNeverBlocks`,
`FlagsKept`. `FdAssumption` has `InitSize >= 2`, since a `resize(fd * 1.5)` for
descriptor 1 makes a vector of one; the code starts with 64.

**Hook.** `HookInv` (`HookProofs`): which call a fiber is in at each place
(`Places`); a timer belongs to a call that began no later than the fiber's, and
only a sleep's timer wakes by itself (`Timers`); a fiber that yielded is in the
run queue, registered, or asleep, and in one of them only (`Waiting`); marks are
for calls with a time-out (`Marks`); a registration made in time is known to the
kernel and is of the open socket (`Lost`); and `Connected`. `OneWake` is
`Waiting` counted; it needs `Timers`, for else the callback of an old sleep or
call could queue the fiber a second time. Theorems `OneWakeHolds`,
`StrandedLate`, `TimeoutsAreOwn`, `ConnectReadsOutcome`.

**IdleLoop.** `IdleInv` (`IdleLoopProofs`): `Counted`, the counter is the number
of events registered, on the ready list, or in the hands of a thread that has not
counted them down; and `Seen`, the argument for the piecemeal `stopping()`:
while work is in the queue, in the timers or among the events, some thread will
look there before it leaves. Whoever takes work out of one place comes past the
others again, except a thread whose idle fiber has ended (`late`). Theorems
`NothingIsLeft`, `CounterHolds`.

**ByteArray.** `IInv` (`ByteArrayProofs`) is `Types` and

* `Geometry`: the blocks make up the capacity, and `m_cur` is the block of the
  position, or null just when the position is the end of the last block;
* `Loop`: inside `write()` and `read()` the locals `npos` and `ncap` are the place
  in that block, and what is left to copy fits;
* `Progress`: a writing function has stored the front of its code (`Code`, the
  bytes its argument stands for) between `from` and the position, and the bytes at
  hand, of this call of `write()` and of those that follow (`Pieces`), are the rest;
* `Fresh`: the last result still stands in front of the position, in the byte
  order that is set.

`OnlyEmptyReadCrashes` is not inductive without `Geometry`: that the next block
exists follows from the room that `addCapacity` made, which `Loop` carries through
the turns. `WrittenReadsBack` is not without `Progress`. Theorems
`NeverFollowsNull`, `WhatIsWrittenReadsBack`, `HandsOutTheRightBytes`.

What the codecs compute is an induction over data. The rule of the library takes
a predicate as a parameter, which no installed prover can instantiate; so
induction is stated for sets (`UpTo`, `StrongUpTo`, from the least element that
`WellFoundedInduction` gives), with the set of the numbers for which a statement
holds in the place of the predicate, and a recursive function is shown to exist
(`Recursion`) before its equation is used. On these rest `EncodeIs` (the loop of
`writeUint` ends), `UintReadsBack` (the bytes are the digits of the value in base
2 ^ `GroupBits`, and every byte but the last asks for another), `Zigzag` (which is
one to one, the smallest number included), `FixedReadsBack` (both byte orders) and
`FileExact` (after each turn of `writeToFile` the file ends where a block does).

Theorem `ImplementsByteTape` is the refinement of `ByteTape`. A turn of the loop of
`write()` is `Write(n)`, one of `read()` is `Read(n)`; `setPosition` is `Seek` and
`clear` is `Clear`; the steps around the loops deliver nothing, which is `Read(0)`
or a stutter. The lemmas `Stores` and `Loads` carry it: the cells that a turn
touches are those at the position, because `m_cur * Base + npos` is the position
(`Loop`).

**Only model-checked.** Liveness (`StopReturns`, `TaskCompletes`,
`WaiterWoken`, `DueCollected`, `StopEnds`, `QueueRuns`, `TimedCallReturns`,
`CloseReturns`) and `ENABLED` are beyond the prover. The properties of the HTTP
parsers hold because of the 472 rows of their machines, which TLC evaluates and a
proof would list row by row; there is also nothing for a proof to generalise: the
only constant is `Kinds`, the run `http` has both of its elements, and no bound
cuts its state space, so that the run is itself exhaustive. The workloads with
`hold` have no proof yet. No module here uses `RECURSIVE`.

## 6. Not modelled

* Of `Scheduler`: a thread that loses `m_mutex` inside `schedule()`, and the
  sections of `stop()`, which could lose it or unlock it for others as well. Both
  are further ways to an overlap, with the same outcomes for the list; up to the
  first overlap, which is as far as the properties of several threads go, they
  change nothing, and in `hold`, whose properties have no exception, such an
  overlap is of two calls that push, which can lose an entry and take none. Of the
  list itself: which node is corrupted how, beyond the
  three outcomes of section 2.1.
* Of `Scheduler` also: a second `start()` or `stop()`, `stop()` without `start()`,
  the destructor, thread names and logging, and the branch at
  scheduler.cc:211-214, which no execution reaches.
* Of `IOManager`: the destructor; `ENOMEM` and `ENOSPC` of `epoll_ctl`; calls on
  a closed descriptor whose number is not in use again (`EBADF`).
* Of `TimerManager`: the overload of `addTimer` that takes a lock and that
  nothing calls, and `hasTimer`, which only reads. The moment between
  `getNextTimer()` and `epoll_wait` takes no time. `addConditionTimer` is in
  `Hook`, by what it does for its caller.
* `IdleLoop` has no tasks pinned to a thread (`Scheduler` has) and no `cancel` of
  timers and events.
* Of the hooks: how long anything takes (hook.cc:164 and its like, whose
  products are 32 bits wide), `EINTR`, and the calls that only pass through.
* Of HTTP: `HttpRequest` and `HttpResponse`, which keep the parts as strings and
  print them, and the tables of method and status names.
* `ConfigVar`: its state is one value under a lock; the two hazards listed are
  about listeners, which no part of this repository that is modelled installs in
  a way that meets them. Logging: formatting and output, whose races only garble
  or duplicate lines. `Socket` and `Address`: thin wrappers of system calls.
  `util*`, JSON, hashes and cryptography: wrappers of libraries and string
  functions. `tcp_server.cc` is empty.

## 7. Plan

1. Proofs: the workloads with `hold` on one worker.
2. `Scheduler`: a thread that loses `m_mutex` inside `schedule()`.
3. `ConfigVar` with its listeners, and `Logger`, if listeners that change
   variables come into use.
