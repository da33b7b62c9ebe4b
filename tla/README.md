# UringFiber in TLA+

UringFiber is an N:M coroutine library on Linux io_uring: coroutines are
switched with ucontext, scheduled by a few threads, and suspended by hooked
system calls that are executed on an io_uring. This directory models its
concurrent parts, checks them with TLC and proves the safety of each of them
with TLAPS, for any number of threads, coroutines and calls.

The repository does not compile as a whole (`make_unique<Task>(Task*)`, default
arguments given twice, an incomplete type), so the modules model the source as
it reads. Where a line as written stops the system and its meaning is evident,
both readings are modelled and, but for two races and one line that stops
everything, both are checked; see "Literal and meant readings". Where the code
breaks what it should do, the property names the exact exception, as a history
variable, and says that there is no other; where the repository promises the
property without the exception, a run shows the violation.

## The system

| component | state | operations | uses |
|---|---|---|---|
| `LFQueue` (thread_safe/lockfree_queue.hpp) | head and tail with external counts, nodes with internal counts | `push`, `pop`, destructor | used by every queue below |
| `Processer` (processer/) | runnable queue, `status_`, `stop_`, `runningTask_`, `LastScheToDos_` | `Start`, `Wait`, `WakeUp`, `Stop`, `AddTask`, `Steal`, `SuspendTask`, `Yield` | LFQueue, TaskPool |
| `Task`, `TaskPool` (processer/) | context, status; idle tasks, `count_` | `Swap`, `Get`, `Put`, `Release` | LFQueue |
| `Scheduler` (scheduler/) | Processers, `tempTasks_`, `ioQueue_`, `ioWait_`, `stop_` | `Start`, `Stop`, `AddTask`, `IOSubmit`, `IOSubmitThread`, `IOWaitThread`, `LoadBalance` | Processer, engine |
| `io_uring_engine` (io_uring/) | the two rings | `Exec` and the operations built on it, `WaitResult` | kernel |
| hooked calls (hook/hook.cpp) | the result in the caller's frame | `IOSubmit`, `read`, `recv`, `accept4`, ... | Processer, Scheduler, descriptor table |
| descriptor table (hook/fd_desc.*, hook.cpp) | `fds`, one `FdDesc` per file | `open`, `socket`, `accept4`, `close`, `dup`, `dup2`, `fcntl`, `setsockopt`, and the choice of every call between system call and ring | kernel |
| `CoMutex` (sync/co_mutex.hpp) | word {locked, waiters}, waiter queue | `lock`, `unlock`, `try_lock` | LFQueue, Processer |
| `Channel` (sync/co_chan.hpp) | buffer, waiting senders and receivers, `closed_` | `<<`, `>>`, `Close` | a mutex, Processer |

How they interact. A coroutine runs on a Processer's thread until it yields or
suspends. What must happen after it is switched away from (requeue, release,
register with somebody who will resume it) is deferred through `LastScheToDos_`
and run by the next context. A hooked call defers `Scheduler::IOSubmit`;
`IOSubmitThread` executes the request on the ring, the kernel completes it,
`IOWaitThread` stores the result in the coroutine's frame and adds the coroutine
to a Processer again. CoMutex and Channel suspend and resume in the same way.

What is hard: threads that go to sleep while others push; two reference counts
per node of the queue; contexts that must not be entered before they are saved;
requests that refer to stack frames; a timer racing the request it cancels; a
descriptor table that follows the kernel's without a lock; stopping. The
`hazards` of PROJECT.json list these at their lines.

## Modules

| module | models | actions |
|---|---|---|
| `LFQueue` | the lock-free queue | one per atomic operation another thread can observe: `IncTail`, `CasData`, `CasNext`, `SetNewTail`, `IncHead`, `CasHead`, `Take`, `FreeExternal`, `ReleaseRef`, ... |
| `Processer` | Processer threads, tasks, the pool, and the threads that call `AddTask`, `Steal` and `Stop` | `ProcStep(p)`: the loop, `Wait`, deferred functions, `Yield`; `ClientCall(c)` and `ClientStep(c)`: the calls from outside |
| `IoCalls` | a hooked call from the coroutine through submitter, engine and kernel back to the coroutine, and `Stop` on the same ring | grouped by thread: `Caller`, `Coroutine`, `Notifier`, `Submitter`, `Waiter`, `Stopper`; the kernel's actions are external |
| `Scheduler` | `Start`'s thread, its rounds of `LoadBalance`, `AddTask` and `Stop` at any time, also while `Start` launches; tasks are counted | `StartCall`, `Launch`, `HandOver`; `Sleep`, `Total`, `Sort`, `Pair`, `Test`, `Choose`, `Steal`, `Give`, each reading one size at most; `Pop`, `Count`, `Spawn`, `Finish`, `Hog`, `End`; `AddTask`, `AddTemp`, `AddCount`, `Stop` |
| `CoMutex` | the mutex, one action per compare-exchange | `LockCas`, `Enqueue`, `TryLock`, `UnlockCas`, `UnlockPop`, ... |
| `Mutex` | what a mutex promises, and how far a faulty one falls short of it | `Request`, `Acquire`, `Slip`, `Release` |
| `Channel` | the channel; an operation is one step under its mutex | one per branch of `<<` and `>>`, `Close`, `Resume` |
| `FdTable` | descriptor table against the kernel's, and the calls that look at it, made by any threads | system call and table update as two steps that others may come between; `accept4` suspends between them |
| `LFQueueProofs`, `ProcesserProofs`, `IoCallsProofs`, `SchedulerProofs`, `CoMutexProofs`, `ChannelProofs`, `FdTableProofs` | proofs about the module of that name | |
| `LFQueueOrderProofs` | continues `LFQueueProofs`: the order of the nodes and of the values | |
| `MC...` | the symmetry sets of each instance | |

A program counter names where a thread is. Steps that another thread cannot
tell apart are one action; a compare-exchange loop that only its last iteration
affects is one action. Atomic operations are read as sequentially consistent.
Components stand on each other's promises: `Processer` takes its queues for
FIFO queues, `IoCalls`, `CoMutex` and `Channel` take it that a deferred function
runs after the switch and that an added task runs. `LFQueue` shows how far the
first holds (see `lfq_lost_push`), `Processer` the second (see
`proc_yield_lost`).

Operators named `...Blind`, `...Unchecked`, `...Lost` and the like, marked
"Mutant of", are plausible bugs. Each property of a passing run is violated when
its mutant replaces the operator named in PROJECT.json.

## Runs

| run | instance | shows |
|---|---|---|
| `lfq_safety` | 3 threads, each pushing and popping, 4 addresses, 2 pushes, 2 pops, fresh nodes with null or an old word in `data` | the two-part counts are exact (`RefCountExact`), no use after deletion, no leak, FIFO; an empty answer is right unless another pop was at work |
| `lfq_lost_push` | 2 pushers, 1 popper | **violation**: a push that has returned can leave its value in a node the head has passed |
| `proc_context` | 2 Processers, 2 clients, 2 tasks, 2 adds, a suspension, a yield, a theft, a stop, a pool of one, racing `status_` | no context is entered while a thread is in it; only a coroutine that yields after it was resumed is lost (`OnlyYieldForgets`); a Processer sleeps on a task only if its racing `status_` misled the adder; a thread is lost in three ways only (`FaultsExplained`); one more coroutine after stop at most |
| `proc_live` | 2 Processers, 1 client, 2 adds, a theft, a stop, atomic `status_` | a queued task is executed unless something is stopped, so no Processer sleeps on it for good; Stop ends a sleeper |
| `proc_yield_lost` | 1 Processer, a suspension and a yield | **violation**: a coroutine that yields after it was resumed is queued nowhere |
| `io` | a timed coroutine and one on a file, 1 and 2 calls, 2 ring entries, Stop at either of two moments, I/O threads started or not | no reference to the frame of an untimed call that has ended, one resumption for each, with its result; no sleep on a request; a call returns unless its `Exec` was refused; Stop ends the waiting thread unless the ring is jammed, and the submitting thread if it finds it asleep |
| `io_timeout_twice` | 1 timed coroutine | **violation**: a timed-out call is resumed twice |
| `mutex` | 4 coroutines, 6 calls, four readings | each holder beside another is a slip past one of two lines (`HoldersCounted`), waiter count exact but for those, nobody stranded, `lock` returns, refinement of `Mutex` |
| `mutex_two_holders` | 2 coroutines | **violation**: with `lock()` as written two coroutines hold the mutex |
| `sched` | 3 Processers, 1 client, 2 adds, 1 task added by a coroutine, 2 coroutines that never give up their thread, 1 stop, two readings | no task is lost or doubled on its way through `Start`, `AddTask` and `LoadBalance`; an undisturbed round makes the queues no more uneven; every task runs but where the code strands it; Stop ends Start |
| `chan_order` | 3 senders, 2 receivers, capacities 0 to 2, 9 sends, 8 receives, Close, two readings | order, no missed match, Close leaves nobody suspended; with the lock held as written, the first operation that waits is the last (`HeldForGood`) |
| `fd_table` | 2 callers, 3 descriptors, 3 files, 4 calls, any interleaving | a call goes to the ring exactly when the kernel would block, but for what the code does not learn; a stale entry only where two calls overlapped; each direction of a socket is timed by what was asked for it, as far as an int holds it |

### Bounds

Bounds limit how many calls are made, never what a call does.

- LFQueue: four addresses are the dummy, two values and one more to be recycled;
  three threads are a pusher, a pusher that helps it and a popper, in any roles.
  `CountMax` = 5 is a pointer's own reference, three threads and one retry. It
  does cut behaviours: two pops that make each other's compare-exchange fail
  raise the count without end, to the 16 bits of the code.
- Processer: two tasks and two Processers give every pair of a thread that leaves
  a context and one that enters it. Two clients race each other for the same
  Processer. A pool of one both keeps a returned task, to be entered again, and
  turns one away. One yield after one suspension is the shortest way to lose a
  task. The pool's default limit is the largest unsigned number; a limit of one
  with two tasks has the same cases and the full pool besides.
- `proc_live` leaves yields and recycling out: each can end or lose a thread or a
  task for good, as `FaultsExplained` and `OnlyYieldForgets` say, and nothing is
  then eventually executed. A suspension (`MaxSuspend` = 1) changes nothing but
  the time the run takes.
- IoCalls: two entries are the smallest queue that takes a timed request, the
  smallest that can be full for its timer only, and with Stop's own entry the
  smallest that jams. Stop comes after no call or after one, so that it meets
  `IOSubmitThread` at every place. The completion queue has no bound: to go round it
  takes 2048 completions nobody has read.
- Scheduler: three Processers are two that are blocked and one that is free; or an
  overloaded one, an underloaded one and one in between. A single queued task is
  already more than 1.1 times the average of 1/3, so every waiting task makes the
  rounds steal; three tasks put two into one queue. The average is kept as a
  fraction, `10 * N * tasks` against `11 * total`.
- CoMutex: four coroutines are a holder, two waiters and one that overtakes them.
- Channel: three senders and capacity 2 let a receive refill a buffer that still
  holds a value while another sender waits.
- FdTable: four calls are enough for two to overlap on a number, a third to be
  misled by what they left, and a fourth to set the number right; or to open a
  listener, wait in `accept4` on it, close it and reuse its number. Three files are
  a listener, what it accepts and what takes its number. `Unit` = 10 and `IntMax` =
  127 scale microseconds and int: of the timeouts, 127 is the last that fits and
  128 the first that does not.

Deadlock is not checked: with every bounded call made, the threads sleep.

### Fairness

Every fairness condition but one is weak. `Processer`: each thread runs, a coroutine
gives its thread up after finitely many steps, and a call that has begun goes on.
No call need ever be made. `IoCalls`: the coroutines made runnable run, the kernel
takes entries and completes requests, and the two I/O threads run **if they were
started**. Nothing in the source starts them: `IOSubmitThread` and `IOWaitThread`
are private members of `Scheduler`, and `Scheduler::Start` (scheduler.cpp:14-33)
launches neither. `Started` therefore has both readings: in the source's, `spc` and
`wpc` stay "none", fairness of the threads says nothing, and every hooked call in a
coroutine waits for ever, which `CallReturns` names as an exception. In the other
`Start` launches them, as their loops on `stop_` and the calls of `Stop` ask for. No
timer need expire. `CoMutex`: a coroutine inside `lock` or `unlock` goes on, and a
holder unlocks. `Scheduler`: every thread runs, and `Pop` is strongly fair: a
round of `LoadBalance` may take a waiting task away from a Processer about to
pop it, but `Start` sleeps a second between rounds, in which a free Processer
gets to its queue. No coroutine need ever finish if it is one of `MaxHog`. This
is scheduling by the operating system and, for coroutines, `QueuedRuns` of
`Processer`.

`LockReturns` holds for finitely many calls: the mutex lets a newcomer overtake a
woken waiter, so with endless calls a waiter may starve.

## Literal and meant readings

Where a line as written and its evident meaning differ, the reading is chosen in
the initial state and a run checks all of them:

| choice | source | as written | as meant |
|---|---|---|---|
| `CoMutex!literal` "lock_test" | co_mutex.hpp:34 | `lock()` tests `newS.locked`, which is always 1: a coroutine that counted itself as a waiter goes on as a holder | it tests whether the word was unlocked |
| `CoMutex!literal` "try_value" | co_mutex.hpp:64 | `try_lock()` has no return on failure and may answer true | it returns false |
| `Channel!held` | co_chan.hpp:67, :90 | the channel's lock is held while an operation is suspended | it is given up with the thread |
| `Scheduler!blocks` | scheduler.cpp:22 | `Start` calls each Processer's loop on its own thread | each Processer has a thread |
| `IoCalls!Started` | scheduler.cpp:14 | the I/O threads are never started | `Start` launches them |

Two races are constants, since one setting includes the other:

| constant | source | where it is used |
|---|---|---|
| `Processer!Literal` "plain_status" | processer.hpp:37: `status_` is a plain field, its store may be seen late | `proc_context` has the race; `proc_live` takes an atomic field; the theorems hold for both |
| `IoCalls!PlainFlag` | scheduler.cpp:103: the same for `ioWait_` | `io` takes an atomic flag; with the race, `NoLostRequest` fails there: `IOSubmit` reads the old value and does not wake the thread. `Frames` and `Resumption` are proved for both |

One reading is in no run: `Processer!Literal` "yield_null". `Yield` reads
`runningTask_->status_` after `runningTask_.release()` (processer.cpp:126-127), and
every program ends with that null dereference at its first switch. The runs read
the status of the released task. The theorems hold for both.

The histories that properties name as exceptions:

| history | what the code does |
|---|---|
| `Processer!marks` "forgotten" | a coroutine yields with the status of an earlier suspension and is queued nowhere (processer.cpp:44) |
| "alone" | it yields on an empty queue and goes on with `runningTask_` null (processer.cpp:154) |
| "reused" | it comes from the pool with the context of its last run (task_pool.hpp:63) |
| `Elsewhere` | a Yield that began on a stopped Processer goes on elsewhere with the first one's `this` (processer.cpp:150) |
| `misled` | `AddTask` reads an old `status_` and does not wake (processer.cpp:81); empty if the field is atomic |
| `IoCalls!refused`, `Jammed` | `Exec` finds no entry and nobody looks at its answer; a request without its timer stays in the ring, linked, and can fill it for good (io_uring_engine.cpp:41, :50) |
| `CoMutex!counted`, `answered` | a coroutine goes on as a holder past a locked mutex through `lock`, through `try_lock` |
| `Scheduler!Stuck` | a task is moved between the queues of two blocked Processers, past a free one; only queued tasks are counted (scheduler.cpp:131). Or the only Processer that `Start` reached is blocked |
| `Stranded` | a task in `tempTasks_` that `Start` does not reach, or that came after it was handed over (scheduler.cpp:22, :48) |
| `FdTable!unseen` | files of a plain `accept4`, which records nothing (hook.cpp:113) |
| `flagged` | sockets whose `type_` still has SOCK_NONBLOCK or SOCK_CLOEXEC in it, so no TCP sockets to the code (hook.cpp:70) |
| `misread` | files whose O_NONBLOCK is recorded wrongly: SOCK_NONBLOCK sockets, refused F_SETFLs (hook.cpp:324) |
| `mixed`, `raced`, `blurred` | calls that overlapped on a number or on a file's settings, and what they left (hook.cpp:80) |

`OneMoreAfterStop` is the most that can be said of stopping: the comments at
processer.cpp:145 and scheduler.cpp:72 promise that no new coroutine runs after
stop, but a Processer that Stop wakes pops and runs one before it looks.

## Proofs

Each theorem is about every behaviour of the specification, for all values of the
constants: every reading, any number of threads, coroutines and calls. All but
`EmptyExact` state a property that a run checks on a small instance, or a part of
it. Three have a hypothesis of their own.

| module | theorem | property | hypothesis |
|---|---|---|---|
| `LFQueueProofs` | `Typing` | `TypeOK` | |
| | `CountsExact` | `RefCountExact` | |
| | `MemorySafe` | `NoUseAfterFree` | |
| `LFQueueOrderProofs` | `FirstOut` | `InOrder`, the first part of `FifoOnce` | |
| | `Fifo` | `FifoOnce` | `Junk` holds no value (`FreshData \cap Values = {}`) |
| | `EmptyExact` | head and tail meet exactly when all that was linked was popped | |
| | `Drained` | `EmptyMeansDrained` | |
| | `NoLeak` | `NoNodeLeak` | |
| | `OnePusherLosesNothing` | `NoLostPush`, which fails with two | one pusher |
| `ProcesserProofs` | `Typing` | `TypeOK` | |
| | `Contexts` | `OneContext` | |
| | `StopsSoon` | `OneMoreAfterStop` | |
| | `Wakeup` | `NoLostWakeup` | |
| | `NoTaskLost` | `OnlyYieldForgets` | |
| | `Faults` | `FaultsExplained` | |
| `IoCallsProofs` | `Typing` | `TypeOK` | |
| | `Frames` | `NoDanglingFrame` | |
| | `Resumption` | `UntimedResumedOnce` | |
| | `RequestSeen` | `NoLostRequest` | `PlainFlag` = FALSE |
| `SchedulerProofs` | `Typing` | `TypeOK` | |
| | `NothingLost` | `NoTaskLost` | |
| | `Evening` | `Evens` | |
| `CoMutexProofs` | `Typing` | `TypeOK` | |
| | `Holders` | `HoldersCounted` | |
| | `Exclusion` | `Slips = 0 => MutualExclusion` | |
| | `WaiterCount` | `WaitersExact` | |
| | `NobodyStranded` | `NoStrandedWaiter` | |
| | `Refinement` | `IsMutex` | |
| `ChannelProofs` | `Typing` | `TypeOK` | |
| | `Fifo` | `FifoExact` | |
| | `Matched` | `NoMissedMatch` | |
| | `Suspended` | `SuspendedIsQueued` | |
| | `HeldLast` | `HeldForGood` | |
| `FdTableProofs` | `Typing` | `TypeOK` | |
| | `NoStale` | `NoStaleEntry` | |
| | `Decision` | `HookDecision` | |
| | `Timeouts` | `TimeoutExact` | |

`Exclusion` is about the property that `mutex_two_holders` shows violated: it says
that a slip comes first. `OnePusherLosesNothing` is the other side of
`lfq_lost_push`: only a push that helps another can lose a value.

Besides these, the proofs use the named assumptions of the modules: positive
counts, finite sets of threads and coroutines, at least one thread at a queue,
natural bounds, `NULL` distinct from the tasks and the pushed values. TLC evaluates
them in every run.

### The arguments

Hardly any of the properties is inductive. What each proof adds, and why:

- `LFQueue`. `RefCountExact` is inductive together with `TypeOK` and the fact that
  the destructor ends all threads at once (`EndInv`). It says what the external
  count of a pointer, the internal count of a node and its remaining external
  counters add up to: the threads that hold the node. The lemma `DeleteSafe` draws
  the conclusion: a thread that brings both counters to zero is the only holder,
  and head and tail have left the node. Memory safety follows from it.
- `LFQueue`, order. The counts say who may touch a node, not where it is. `Flow`
  does, while the queue exists. `Placed` gives each node from head to tail its
  position in the log of pushed values, and the tail's, with the value the node
  holds; `AheadInv` says how far `next` may run ahead of the tail, which another
  push then moves on. A pop that has taken a node holds the value at its mark
  (`TakenInv`): this is the order. `WhereInv` and `ListedInv` count: a node not yet
  deleted is in the list, or some call holds it or has a reference to bring back,
  so with all calls over only the list is left. `Seen` ties what a pop has read of
  head and tail to how far the queue had got when it was called: if the two are
  equal, everything pushed by then was taken. `OnceInv` follows a value from its
  push to its node, and `LoneInv` says that without a second pusher nobody else
  moves the tail away from the node a push has filled.
- `FifoOnce` says that no value is in the log twice, which is wrong if the
  uninitialised word of a new node happens to be the address of a live value;
  `FirstOut` needs no such hypothesis.
- `Processer`. That a popped task is not being executed is only known from where
  it was before. `Inv` says that a task is in at most one place (`SoleInv`) and
  there once (`OnceInv`), that a task a thread is in is nowhere else but in what
  that thread has deferred (`ExecInv`), what `LastScheToDos_` holds at each place
  of `Yield` (`ToDoInv`), and whose a context saved by `Yield` is (`RefetchInv`,
  for the stop path, on which another thread may resume it). `LossInv` adds that a
  task is in one place at least, or was forgotten by a yield with the status
  "block"; `FaultInv` follows where a coroutine that has returned can be (`ExitInv`:
  on its way to the pool, in it, or taken from it) and whose Yield a thread is in
  (`OwnInv`, `LostInv`). `WakeInv` says who is about to wake a sleeper, and
  `MisledInv` that an atomic `status_` misleads nobody.
- `IoCalls`. The proof follows the reference to a call's frame, until Stop is
  called. For a coroutine without timeout it is in at most one of eight places from
  `ioQueue_` to a runnable queue, names the current call, and the coroutine is
  suspended in it (`TokenInv`); a step leaves it, drops it or moves it on.
  `KindInv` (timers belong to timed calls) and `PrivateInv` (an entry is not
  published before it is ready, which Stop breaks) support it. A request left
  behind without its timer is linked to whatever comes next, also to an untimed
  call's, and cancels or delays that, but adds no reference to it. Timed calls are
  excluded by the property itself: `io_timeout_twice` shows why. `SleepInv` says
  who is about to wake `IOSubmitThread`.
- `Scheduler`. `NoTaskLost` needs that a Processer not yet launched runs nothing
  (`LaunchInv`) and that LoadBalance holds tasks only during a theft (`HandInv`).
  `Evens` needs the average to lie between the shortest and the longest queue
  (`AverageInv`) and the theft at hand to leave both of its queues between them
  (`EvenInv`). The lemma `TheftBounds` is the arithmetic behind it: with the
  factors 1.1 and 0.3, stealing a quarter of the surplus, or one task, never
  overshoots.
- `CoMutex`. `QueueInv` says that the queue holds coroutines suspended in `lock()`,
  each once: a step of `UnlockPop` makes the head of the queue run again, and
  nothing else says that it does not hold the mutex already. `HoldersCounted` is
  then inductive: a slip adds a holder and itself, an unlock clears the bit and
  takes a holder away. Exclusion is the case without slips, and gives the
  refinement its guard: `Acquire` asks for a free mutex only as long as nobody has
  slipped. The waiter count follows the three sets it counts through each step.
- `Channel`. `FifoExact` and `NoMissedMatch` depend on each other: a value handed
  over directly is the next one only if the buffer is empty. `SuspendedIsQueued`
  needs that no coroutine is queued twice or in both queues. `HeldForGood` needs
  that nobody is ever made runnable while the lock stays held (`HeldInv`).
- `FdTable`. The properties speak of numbers and files no call is working on, and
  no crossed call worked on last. The invariant says, for every place a call can be
  at, what it has in hand: a new file known to nobody else (`NewInv`); of a call
  that no other crossed, its numbers and its file to itself (`CrossInv`), and what
  it found there still there (`HandInv`). `TableInv` then ties each entry that no
  call is about to write to the kernel's file. `RecordInv`, `SettingInv`,
  `AcceptInv` and `TimeInv` do the same for what is recorded of a file. That a time
  differs from what was asked by a multiple of 2^32 is arithmetic on `ToInt`.

The two loops of LoadBalance are recursive functions. What they compute is proved
for any number of Processers from the smallest index at which it would be wrong
(`Induction`, from the well-foundedness of the naturals).

### Only model-checked

Liveness (`QueuedRuns`, `StopEndsSleeper`, `CallReturns`, `StopEndsIoThreads`,
`LockReturns`, `EveryTaskRuns`, `StopEndsStart`): fairness is out of the prover's
reach. Every safety property that a passing run checks has a theorem.

## Where the models are coarser than the code

- The ring is not thread-safe, and Stop uses it beside `IOSubmitThread`. An entry is
  gotten and filled in one step, but two threads may be given the same one
  (`Filled`). What becomes of the coroutines' requests once Stop has begun is not
  stated: `NoDanglingFrame` and `UntimedResumedOnce` end there.
- `Stop` and each of the two halves of `AddTask` are one step, also while `Start`
  appends to `processers_`; a vector that moves its elements under a reader is
  undefined and not modelled.
- Two threads that touch one `shared_ptr` of `fds` at once are undefined too: a step
  of `FdTable` reads or writes one entry, and `raced` says where that happened.
  Names of files are not used again.
- A Stop that comes between a thread's test of `stop_` and its sleep does not end
  it. The code gives no guarantee there; `StopEndsSleeper` and `StopEndsIoThreads`
  speak of threads found asleep.
- CqeSeen before the completion is read (io_uring_engine.cpp:102) does harm once the
  kernel has gone round the completion queue of 2048 within that step. No instance
  in reach gets there, and no property claims it cannot happen.
- A file's offset is advanced through a frame that may be gone
  (hook.cpp:132). The step is there (`ExecAdvance`); nothing useful holds of what it
  adds, and `NoDanglingFrame` leaves it out.
- Weak memory is modelled for the two racing fields above only.

## Not modelled

- Stacks (mmap, mincore) and register contents: memory, not protocol.
- `sleep`, `usleep`: their test of an unsigned value below zero is constant, so
  they return at once; `nanosleep` reaches the ring only for a negative time.
- The two lines of `Channel` that build an exception without `throw`
  (co_chan.hpp:92, :133): the operation returns as if it had succeeded, and the
  model lets it.
- `Stack::check_stack_used`: its caller drops the answer, so `Processer` chooses
  whether a task is recycled.
- The malloc hook, samples and tests.

## Plan

The order in which the project grew: the queue, the Processer and the I/O path
first, then the modules that stand on them, then their theorems, then the literal
reading of the lines that had been taken as meant. What is left is `Processer`
over the weaker queue that `LFQueue` really is, in place of a FIFO: which of its
properties survive a push that is lost.
