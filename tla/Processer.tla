----------------------------- MODULE Processer -----------------------------
(***************************************************************************)
(* Processer (processer/processer.cpp) with the Task and the TaskPool it   *)
(* works on: the scheduling loop of each thread, symmetric switching       *)
(* between coroutines, the deferred LastScheToDos_, sleeping and waking,   *)
(* stealing and stopping.                                                  *)
(*                                                                         *)
(* A processer p is an object and the thread that runs its Start.  The     *)
(* clients are the other threads of the program: application threads       *)
(* (AddTask, Stop), the thread of Scheduler::LoadBalance (Steal, AddTask)  *)
(* and the ones that resume a suspended coroutine (AddTask).               *)
(* runnableQueue_ and taskQueue_ are FIFO queues here; LFQueue models how  *)
(* they are implemented and where they differ.                             *)
(*                                                                         *)
(* Two lines are taken literally when their name is in Literal, and read   *)
(* as evidently meant otherwise:                                           *)
(*  "yield_null"   Yield reads runningTask_->status_ after release(), which *)
(*                 stops every program at its first switch;                *)
(*  "plain_status" status_ is a plain field: the store Wait makes under the *)
(*                 mutex may be late, until Wait gives the mutex up, for a  *)
(*                 reader that does not take it.                            *)
(* TaskPool::Get is read as handing its task to the caller (its parameter  *)
(* `out` is a pointer passed by value), and std::make_unique<Task>(p) as   *)
(* the unique_ptr that owns p, which is what every caller needs.           *)
(***************************************************************************)
EXTENDS Naturals, Sequences, SequencesExt

CONSTANTS
  Procs, Clients,
  Tasks,        \* addresses of Task objects
  NULL,
  Literal,      \* subset of {"yield_null", "plain_status"}
  MaxIdle,      \* TaskPool's maxIdleTask_
  Garbage,      \* values the uninitialised count_ may start with
  MaxAdd, MaxSuspend, MaxYield, MaxSteal, MaxStop   \* bounds: calls made

ASSUME ProcsAssumption == Procs # {} /\ NULL \notin Procs \cup Tasks
ASSUME PoolAssumption  == MaxIdle \in Nat /\ Garbage \subseteq Nat /\ Garbage # {}

VARIABLES
  queue,      \* runnableQueue_
  status,     \* status_
  stop,       \* stop_
  running,    \* runningTask_
  todos,      \* LastScheToDos_
  pc, cur,    \* each thread: where it is, whose context it is in (NULL: main)
  late,       \* history: how many coroutines it has entered with stop_ set
  frame,      \* each task's saved context: where it goes on, on which Processer
  tstat,      \* Task::status_
  alive,      \* tasks created and not deleted
  blocked,    \* suspended tasks somebody is to resume
  idle, count,          \* TaskPool: taskQueue_, count_
  marks,      \* history: how each task left the ways the code provides for:
              \* "forgotten" (a resumed task yields with the status_ of its
              \* suspension), "alone" (it yielded on an empty queue, which
              \* leaves runningTask_ null), "reused" (it came from the pool)
  cpc, batch, src, dst, \* each client: where it is, tasks in hand, from, to
  misled,     \* history: Processers going to sleep, or asleep, while an
              \* AddTask has read a status_ that is out of date
  calls       \* calls made so far, by kind

object == <<queue, status, stop, running, todos>>
thread == <<pc, cur, late>>
task   == <<frame, tstat, alive, blocked, idle, count, marks>>
client == <<cpc, batch, src, dst, misled>>
vars   == <<object, thread, task, client, calls>>

Bound == [add |-> MaxAdd, suspend |-> MaxSuspend, yield |-> MaxYield,
          steal |-> MaxSteal, stop |-> MaxStop]
Call(k) == calls[k] < Bound[k] /\ calls' = [calls EXCEPT ![k] = @ + 1]

Goto(p, l) == pc' = [pc EXCEPT ![p] = l]
Frame(a, p) == [at |-> a, proc |-> p]
Mark(t, m) == marks' = [marks EXCEPT ![t] = @ \cup {m}]

Init ==
  /\ queue = [p \in Procs |-> <<>>]
  /\ status = [p \in Procs |-> "waiting"]
  /\ stop = [p \in Procs |-> FALSE]
  /\ running = [p \in Procs |-> NULL]
  /\ todos = [p \in Procs |-> <<>>]
  /\ pc = [p \in Procs |-> "start"]
  /\ cur = [p \in Procs |-> NULL]
  /\ late = [p \in Procs |-> 0]
  /\ frame = [t \in Tasks |-> Frame("entry", NULL)]
  /\ tstat = [t \in Tasks |-> "runnable"]
  /\ alive = {} /\ blocked = {} /\ idle = <<>>
  /\ count \in Garbage
  /\ marks = [t \in Tasks |-> {}]
  /\ cpc = [c \in Clients |-> "idle"]
  /\ batch = [c \in Clients |-> <<>>]
  /\ src = [c \in Clients |-> NULL]
  /\ dst = [c \in Clients |-> NULL]
  /\ misled = {}
  /\ calls = [k \in DOMAIN Bound |-> 0]

-----------------------------------------------------------------------------
(* Context switches *)

\* Task::Swap to task t: it goes on where its saved context says ("refetch":
\* after the swap of Yield's stop path).
SwapTo(p, t) ==
  /\ cur' = [cur EXCEPT ![p] = t]
  /\ late' = [late EXCEPT ![p] = IF stop[p] THEN @ + 1 ELSE @]
  /\ Goto(p, IF frame[t].at = "refetch" THEN "yield_pop" ELSE "after")

\* Task::Swap to *mainTask_: Start goes on after its own Swap.
SwapToMain(p) ==
  /\ cur' = [cur EXCEPT ![p] = NULL]
  /\ Goto(p, "after")
  /\ UNCHANGED late

\* runnableQueue_.pop() into runningTask_ and, if there is one, the swap to it.
PopAndSwap(p) ==
  /\ queue[p] # <<>>
  /\ running' = [running EXCEPT ![p] = Head(queue[p])]
  /\ queue' = [queue EXCEPT ![p] = Tail(@)]
  /\ SwapTo(p, Head(queue[p]))

PopEmpty(p, l) ==
  /\ queue[p] = <<>>
  /\ running' = [running EXCEPT ![p] = NULL]
  /\ Goto(p, l)
  /\ UNCHANGED <<queue, cur, late>>

-----------------------------------------------------------------------------
(* The loop of Start, and Wait *)

Start(p) ==
  /\ pc[p] = "start"
  /\ status' = [status EXCEPT ![p] = "running"]
  /\ Goto(p, "loop")
  /\ UNCHANGED <<queue, stop, running, todos, cur, late, task, client, calls>>

\* Mutant of LoopEnds: stop_ is not looked at.
LoopEndsNever(p) == FALSE

\* `while(!stop_)`.
LoopEnds(p) == stop[p]

Loop(p) ==
  /\ pc[p] = "loop"
  /\ Goto(p, IF LoopEnds(p) THEN "end" ELSE "pop")
  /\ UNCHANGED <<object, cur, late, task, client, calls>>

Pop(p) ==
  /\ pc[p] = "pop"
  /\ PopAndSwap(p) \/ PopEmpty(p, "wait")
  /\ UNCHANGED <<status, stop, todos, task, client, calls>>

\* Where Wait holds status_mtx_.
InWait == {"wait_pop", "wait_park"}

\* Wait takes status_mtx_ and sets status_.
WaitLock(p) ==
  /\ pc[p] = "wait"
  /\ status' = [status EXCEPT ![p] = "waiting"]
  /\ Goto(p, "wait_pop")
  /\ UNCHANGED <<queue, stop, running, todos, cur, late, task, client, calls>>

\* Mutant of WaitPop: Wait sleeps without looking at the queue again.
WaitPopSkipped(p) ==
  /\ pc[p] = "wait_pop"
  /\ Goto(p, "wait_park")
  /\ UNCHANGED <<object, cur, late, task, client, calls>>

\* The second look at the queue.
WaitPop(p) ==
  /\ pc[p] = "wait_pop"
  /\ \/ PopAndSwap(p) /\ status' = [status EXCEPT ![p] = "running"]
     \/ PopEmpty(p, "wait_park") /\ UNCHANGED status
  /\ UNCHANGED <<stop, todos, task, client, calls>>

\* It is still empty: cv_.wait gives the mutex up and sleeps.
Park(p) ==
  /\ pc[p] = "wait_park"
  /\ Goto(p, "parked")
  /\ UNCHANGED <<object, cur, late, task, client, calls>>

\* Mutant of NullTest: the test after Wait is dropped.
NullTestDropped == "fault"

\* Where a null from Wait leads.
NullTest == "loop"

\* cv_.wait returns once status_ is no longer waiting.
Woken(p) ==
  /\ pc[p] = "parked"
  /\ status[p] # "waiting"
  /\ PopAndSwap(p) \/ PopEmpty(p, NullTest)
  /\ misled' = misled \ {p}
  /\ UNCHANGED <<status, stop, todos, task, cpc, batch, src, dst, calls>>

-----------------------------------------------------------------------------
(* TaskPool *)

\* Release(t): Check_stack_used answers either way (it has no return
\* statement); Put deletes the task when the pool is full.
Release(t) ==
  \/ /\ alive' = alive \ {t}
     /\ UNCHANGED <<idle, count>>
  \/ /\ count + 1 > MaxIdle
     /\ alive' = alive \ {t}
     /\ UNCHANGED <<idle, count>>
  \/ /\ count + 1 <= MaxIdle
     /\ count' = count + 1
     /\ idle' = Append(idle, t)
     /\ UNCHANGED alive

\* Get: the first idle task as it is (context, status_ and count_ untouched),
\* or a new one.
Get(t) ==
  \/ /\ idle # <<>> /\ t = Head(idle)
     /\ idle' = Tail(idle)
     /\ Mark(t, "reused")
     /\ UNCHANGED <<alive, frame, tstat>>
  \/ /\ idle = <<>> /\ t \in Tasks \ alive
     /\ alive' = alive \cup {t}
     /\ frame' = [frame EXCEPT ![t] = Frame("entry", NULL)]
     /\ tstat' = [tstat EXCEPT ![t] = "runnable"]
     /\ marks' = [marks EXCEPT ![t] = {}]
     /\ UNCHANGED idle

-----------------------------------------------------------------------------
(* Coroutines *)

\* One deferred function of AfterLastSche.  A requeued task goes to the
\* Processer whose Yield deferred it.
RunToDo(p) ==
  /\ pc[p] = "after"
  /\ todos[p] # <<>>
  /\ todos' = [todos EXCEPT ![p] = Tail(@)]
  /\ LET d == Head(todos[p]) IN
       \/ /\ d.kind = "requeue"
          /\ queue' = [queue EXCEPT ![d.proc] = Append(@, d.task)]
          /\ UNCHANGED <<alive, blocked, idle, count>>
       \/ /\ d.kind = "release"
          /\ Release(d.task)
          /\ UNCHANGED <<queue, blocked>>
       \/ /\ d.kind = "register"
          /\ blocked' = blocked \cup {d.task}
          /\ UNCHANGED <<queue, alive, idle, count>>
  /\ UNCHANGED <<status, stop, running, thread, frame, tstat, marks, client, calls>>

\* Mutant of AfterDone: the main context is taken for a coroutine.
AfterDoneNoMain(p) ==
  /\ pc[p] = "after"
  /\ todos[p] = <<>>
  /\ Goto(p, "body")
  /\ UNCHANGED <<object, cur, late, task, client, calls>>

\* AfterLastSche is done: back to Start's loop, into TaskFunc or out of Yield.
\* TaskFunc returning ends the thread, since its context has no uc_link.
AfterDone(p) ==
  /\ pc[p] = "after"
  /\ todos[p] = <<>>
  /\ Goto(p, IF cur[p] = NULL THEN "loop"
             ELSE IF frame[cur[p]].at = "exit" THEN "gone" ELSE "body")
  /\ UNCHANGED <<object, cur, late, task, client, calls>>

\* realFunc_ returns: TaskFunc marks the task done and yields.
Finish(p) ==
  /\ pc[p] = "body"
  /\ tstat' = [tstat EXCEPT ![cur[p]] = "done"]
  /\ Goto(p, "yield")
  /\ UNCHANGED <<object, cur, late, frame, alive, blocked, idle, count, marks, client, calls>>

\* Mutant of Suspend: whoever resumes the task is told before the switch.
SuspendEager(p) ==
  /\ pc[p] = "body"
  /\ Call("suspend")
  /\ blocked' = blocked \cup {cur[p]}
  /\ tstat' = [tstat EXCEPT ![running[p]] = "block"]
  /\ Goto(p, "yield")
  /\ UNCHANGED <<object, cur, late, frame, alive, idle, count, marks, client>>

\* AddToDo(register) and SuspendTask, as the hooked calls and CoMutex::lock use
\* them; runningTask_ is null if the task has yielded alone before.
Suspend(p) ==
  /\ pc[p] = "body"
  /\ Call("suspend")
  /\ todos' = [todos EXCEPT ![p] = Append(@, [kind |-> "register", task |-> cur[p], proc |-> p])]
  /\ \/ /\ running[p] # NULL
        /\ tstat' = [tstat EXCEPT ![running[p]] = "block"]
        /\ Goto(p, "yield")
     \/ /\ running[p] = NULL
        /\ Goto(p, "fault")
        /\ UNCHANGED tstat
  /\ UNCHANGED <<queue, status, stop, running, cur, late, frame, alive, blocked, idle, count, marks, client>>

\* The coroutine calls Yield of its own accord.
YieldCall(p) ==
  /\ pc[p] = "body"
  /\ Call("yield")
  /\ Goto(p, "yield")
  /\ IF tstat[cur[p]] = "block" THEN Mark(cur[p], "forgotten") ELSE UNCHANGED marks
  /\ UNCHANGED <<object, cur, late, frame, tstat, alive, blocked, idle, count, client>>

\* The coroutine adds a task: AddTask on its own, running, Processer.
BodyAdd(p) ==
  /\ pc[p] = "body"
  /\ \E t \in Tasks :
       \/ /\ Call("add") /\ Get(t)
          /\ queue' = [queue EXCEPT ![p] = Append(@, t)]
          /\ UNCHANGED <<blocked, count>>
       \/ /\ t \in blocked
          /\ blocked' = blocked \ {t}
          /\ queue' = [queue EXCEPT ![p] = Append(@, t)]
          /\ UNCHANGED <<frame, tstat, alive, idle, count, marks, calls>>
  /\ UNCHANGED <<status, stop, running, todos, thread, client>>

\* What Yield defers for the task it leaves.
Deferred(p, t) ==
  CASE tstat[t] = "runnable" -> <<[kind |-> "requeue", task |-> t, proc |-> p]>>
    [] tstat[t] = "done"     -> <<[kind |-> "release", task |-> t, proc |-> p]>>
    [] OTHER                 -> <<>>

\* Mutant of YieldEnds: stop_ is not looked at.
YieldEndsNever(p) == FALSE

\* `if(stop_)`.
YieldEnds(p) == stop[p]

\* Yield up to its test of stop_.
Yield(p) ==
  /\ pc[p] = "yield"
  /\ running' = [running EXCEPT ![p] = NULL]
  /\ LET t == running[p] IN
       \/ /\ t = NULL \/ "yield_null" \in Literal
          /\ Goto(p, "fault")
          /\ UNCHANGED <<todos, frame, cur, late>>
       \/ /\ t # NULL /\ "yield_null" \notin Literal
          /\ todos' = [todos EXCEPT ![p] = @ \o Deferred(p, t)]
          /\ frame' = [frame EXCEPT ![t] = Frame("refetch", p)]
          /\ \/ YieldEnds(p) /\ SwapToMain(p)
             \/ ~YieldEnds(p) /\ Goto(p, "yield_pop") /\ UNCHANGED <<cur, late>>
  /\ UNCHANGED <<queue, status, stop, tstat, alive, blocked, idle, count, marks, client, calls>>

\* The rest of Yield.  Its `this` is the Processer the task yielded on.  That
\* is another thread's when the stop path swapped the task out and some other
\* Processer resumed it: its runningTask_, its LastScheToDos_ and its main
\* context are then used by the wrong thread, and what follows is undefined.
YieldPop(p) ==
  /\ pc[p] = "yield_pop"
  /\ LET t == cur[p]
         here == frame[t].proc = p
     IN \/ /\ here
           /\ frame' = [frame EXCEPT ![t].at = IF tstat[t] = "done" THEN "exit" ELSE "body"]
           /\ \/ PopAndSwap(p) /\ UNCHANGED <<todos, marks>>
              \/ /\ PopEmpty(p, "after")
                 /\ tstat[t] = "runnable"
                 /\ todos' = [todos EXCEPT ![p] = Front(@)]
                 /\ Mark(t, "alone")
              \/ /\ queue[p] = <<>> /\ tstat[t] # "runnable"
                 /\ SwapToMain(p)
                 /\ UNCHANGED <<queue, running, todos, marks>>
        \/ /\ ~here
           /\ Goto(p, "fault")
           /\ UNCHANGED <<queue, running, todos, frame, cur, late, marks>>
  /\ UNCHANGED <<status, stop, tstat, alive, blocked, idle, count, client, calls>>

-----------------------------------------------------------------------------
(* Calls from other threads *)

Take(c, b, p, l) ==
  /\ cpc' = [cpc EXCEPT ![c] = l]
  /\ batch' = [batch EXCEPT ![c] = b]
  /\ dst' = [dst EXCEPT ![c] = p]

Back(c) == Take(c, <<>>, NULL, "idle") /\ src' = [src EXCEPT ![c] = NULL]

\* AddTask(func): a task is taken from the pool.
AddTask(c, p) ==
  /\ cpc[c] = "idle"
  /\ Call("add")
  /\ \E t \in Tasks : Get(t) /\ Take(c, <<t>>, p, "push")
  /\ UNCHANGED <<object, thread, blocked, count, src, misled>>

\* AddTask(list) with a suspended task whose wait is over.
Resume(c, p) ==
  /\ cpc[c] = "idle"
  /\ \E t \in blocked :
       /\ blocked' = blocked \ {t}
       /\ Take(c, <<t>>, p, "push")
  /\ UNCHANGED <<object, thread, frame, tstat, alive, idle, count, marks, src, misled, calls>>

\* LoadBalance decides to move tasks from p to q.
StealCall(c, p, q) ==
  /\ cpc[c] = "idle" /\ p # q
  /\ Call("steal")
  /\ Take(c, <<>>, q, "steal")
  /\ src' = [src EXCEPT ![c] = p]
  /\ UNCHANGED <<object, thread, task, misled>>

\* One pop of Steal; num is any number, so it may stop after any of them.
StealPop(c) ==
  /\ cpc[c] = "steal"
  /\ queue[src[c]] # <<>>
  /\ batch' = [batch EXCEPT ![c] = Append(@, Head(queue[src[c]]))]
  /\ queue' = [queue EXCEPT ![src[c]] = Tail(@)]
  /\ \E l \in {"steal", "push"} : cpc' = [cpc EXCEPT ![c] = l]
  /\ UNCHANGED <<status, stop, running, todos, thread, task, src, dst, misled, calls>>

\* Mutant of Stolen: a Steal cut short returns nothing.
StolenNothing(c) == <<>>

\* The list Steal returns.
Stolen(c) == batch[c]

\* Steal finds the queue empty and returns what it has; LoadBalance adds that
\* to the other Processer unless it is nothing.
StealEnd(c) ==
  /\ cpc[c] = "steal"
  /\ queue[src[c]] = <<>>
  /\ \/ Stolen(c) = <<>> /\ Back(c)
     \/ Stolen(c) # <<>> /\ cpc' = [cpc EXCEPT ![c] = "push"] /\ UNCHANGED <<batch, src, dst>>
  /\ UNCHANGED <<object, thread, task, misled, calls>>

Push(c) ==
  /\ cpc[c] = "push"
  /\ queue' = [queue EXCEPT ![dst[c]] = Append(@, Head(batch[c]))]
  /\ batch' = [batch EXCEPT ![c] = Tail(@)]
  /\ cpc' = [cpc EXCEPT ![c] = IF Len(batch[c]) = 1 THEN "check" ELSE "push"]
  /\ UNCHANGED <<status, stop, running, todos, thread, task, src, dst, misled, calls>>

\* What a thread without the mutex may read in p.status_.
StatusRead(p) ==
  {status[p]} \cup
    (IF "plain_status" \in Literal /\ pc[p] \in InWait THEN {"running"} ELSE {})

\* Mutant of Asleep: the test is inverted.
AsleepInverted(s) == s # "waiting"

\* `if (status_==Status::waiting)`.
Asleep(s) == s = "waiting"

Check(c) ==
  /\ cpc[c] = "check"
  /\ \E s \in StatusRead(dst[c]) :
       /\ \/ Asleep(s) /\ cpc' = [cpc EXCEPT ![c] = "wake"] /\ UNCHANGED <<batch, src, dst>>
          \/ ~Asleep(s) /\ Back(c)
       /\ misled' = IF s # status[dst[c]] /\ pc[dst[c]] = "wait_park"
                      THEN misled \cup {dst[c]} ELSE misled
  /\ UNCHANGED <<object, thread, task, calls>>

\* Stop sets stop_, then wakes the Processer.
StopCall(c, p) ==
  /\ cpc[c] = "idle"
  /\ Call("stop")
  /\ stop' = [stop EXCEPT ![p] = TRUE]
  /\ Take(c, <<>>, p, "wake")
  /\ UNCHANGED <<queue, status, running, todos, thread, task, src, misled>>

\* WakeUp, once it has the mutex.
WakeUp(c) ==
  /\ cpc[c] = "wake"
  /\ pc[dst[c]] \notin InWait
  /\ status' = [status EXCEPT ![dst[c]] = "running"]
  /\ Back(c)
  /\ UNCHANGED <<queue, stop, running, todos, thread, task, misled, calls>>

-----------------------------------------------------------------------------
ProcStep(p) ==
  \/ Start(p) \/ Loop(p) \/ Pop(p) \/ WaitLock(p) \/ WaitPop(p) \/ Park(p)
  \/ Woken(p)
  \/ RunToDo(p) \/ AfterDone(p) \/ Finish(p) \/ Suspend(p) \/ YieldCall(p)
  \/ BodyAdd(p) \/ Yield(p) \/ YieldPop(p)

\* What a client that has begun a call still does to end it.
ClientStep(c) == StealPop(c) \/ StealEnd(c) \/ Push(c) \/ Check(c) \/ WakeUp(c)

ClientCall(c) ==
  \/ \E p \in Procs : AddTask(c, p) \/ Resume(c, p) \/ StopCall(c, p)
  \/ \E p, q \in Procs : StealCall(c, p, q)

Next ==
  \/ \E p \in Procs : ProcStep(p)
  \/ \E c \in Clients : ClientStep(c) \/ ClientCall(c)

Spec == Init /\ [][Next]_vars

\* Threads run, a coroutine gives up its thread, a call that began goes on.
FairSpec ==
  /\ Spec
  /\ \A p \in Procs : WF_vars(ProcStep(p))
  /\ \A c \in Clients : WF_vars(ClientStep(c))
-----------------------------------------------------------------------------
(* Properties *)

InQueue(t)   == UNION {{<<p, i>> : i \in {j \in DOMAIN queue[p] : queue[p][j] = t}} : p \in Procs}
InHand(t)    == {c \in Clients : t \in Range(batch[c])}
Executing(t) == {p \in Procs : cur[p] = t}
ToDos(t)     == {p \in Procs : \E i \in 1 .. Len(todos[p]) : todos[p][i].task = t}
Waiting(t)   == IF t \in blocked \cup Range(idle) THEN 1 ELSE 0

\* Every variable has its type, and a thread is in a coroutine's context
\* exactly where the code of Yield and TaskFunc runs.
TypeOK ==
  /\ queue \in [Procs -> Seq(Tasks)]
  /\ status \in [Procs -> {"running", "waiting"}]
  /\ stop \in [Procs -> BOOLEAN]
  /\ running \in [Procs -> Tasks \cup {NULL}]
  /\ todos \in [Procs -> Seq([kind : {"requeue", "release", "register"},
                              task : Tasks, proc : Procs])]
  /\ pc \in [Procs -> {"start", "loop", "pop", "wait", "wait_pop", "wait_park", "parked",
                       "after", "body", "yield", "yield_pop", "end", "fault", "gone"}]
  /\ cur \in [Procs -> Tasks \cup {NULL}]
  /\ late \in [Procs -> Nat]
  /\ \A p \in Procs :
       /\ pc[p] \in {"body", "yield", "yield_pop"} => cur[p] # NULL
       /\ pc[p] \in {"start", "loop", "pop", "wait", "wait_pop", "wait_park", "parked", "end"}
          => cur[p] = NULL
  /\ frame \in [Tasks -> [at : {"entry", "refetch", "body", "exit"}, proc : Procs \cup {NULL}]]
  /\ tstat \in [Tasks -> {"runnable", "block", "done"}]
  /\ blocked \subseteq alive /\ alive \subseteq Tasks
  /\ idle \in Seq(Tasks) /\ count \in Nat
  /\ marks \in [Tasks -> SUBSET {"forgotten", "alone", "reused"}]
  /\ cpc \in [Clients -> {"idle", "steal", "push", "check", "wake"}]
  /\ batch \in [Clients -> Seq(Tasks)]
  /\ src \in [Clients -> Procs \cup {NULL}] /\ dst \in [Clients -> Procs \cup {NULL}]
  /\ misled \subseteq Procs

\* The context of a coroutine is never entered while a thread is still in it:
\* no two threads execute the same task, and a task somebody can pop, resume
\* or recycle has been switched away from.  This is what deferring through
\* LastScheToDos_ is for.
OneContext ==
  \A t \in Tasks :
    /\ Cardinality(Executing(t)) <= 1
    /\ Executing(t) # {} => /\ InQueue(t) = {} /\ InHand(t) = {} /\ Waiting(t) = 0

\* How often a task that nobody executes can be found: in queues, in hands, in
\* deferred functions, among the suspended and the idle ones.
Found(t) ==
  Cardinality(InQueue(t)) + Cardinality(InHand(t)) + Cardinality(ToDos(t)) + Waiting(t)

\* What a scheduler of coroutines promises: no task is lost, duplicated or used
\* after its deletion, so one that is not executing is in exactly one queue,
\* hand, waiting set or deferred function.  The code breaks it.
OnePlace ==
  \A t \in Tasks :
    Executing(t) = {} => Found(t) = IF t \in alive THEN 1 ELSE 0

\* ... and what holds of the code: the one way to lose a task is a Yield after
\* it was suspended and resumed, since SuspendTask's status_ is never set back
\* and Yield defers nothing for it.  All else that is yielded, stolen, resumed,
\* recycled and released at the same time keeps every task, once.
OnlyYieldForgets ==
  \A t \in Tasks :
    Executing(t) = {} =>
      Found(t) = IF t \in alive /\ "forgotten" \notin marks[t] THEN 1 ELSE 0

\* A Processer never sleeps on a queue that holds a task unless the thread
\* that put it there is still on its way to WakeUp, or was misled by the plain
\* field status_: the second look of Wait and the order of push and test leave
\* no other window.  Read as an atomic, status_ misleads nobody.
NoLostWakeup ==
  /\ \A p \in Procs :
       pc[p] = "parked" /\ status[p] = "waiting" /\ queue[p] # <<>> =>
         p \in misled \/ \E c \in Clients : dst[c] = p /\ cpc[c] \in {"push", "check", "wake"}
  /\ "plain_status" \notin Literal => misled = {}

\* p executes a coroutine whose Yield began on a Processer that was stopped then.
Elsewhere(p) ==
  \E q \in Procs \ {p} : stop[q] /\ frame[cur[p]].proc = q

\* A thread is lost in one of the ways the code has for it and no other: it
\* enters a coroutine that has returned, which only one from the pool has; or
\* it dereferences a null runningTask_ after a yield on an empty queue; or it
\* goes on in a Yield that another, stopped, Processer began.
FaultsExplained ==
  \A p \in Procs :
    /\ pc[p] = "gone" => "reused" \in marks[cur[p]]
    /\ pc[p] = "fault" =>
         cur[p] # NULL /\ ("alone" \in marks[cur[p]] \/ Elsewhere(p) \/ "yield_null" \in Literal)

\* A task in a runnable queue is eventually executed, by its Processer or by
\* one that it was moved to, unless a Processer is stopped.
QueuedRuns ==
  \A t \in Tasks : InQueue(t) # {} ~> Executing(t) # {} \/ \E p \in Procs : stop[p]

\* A Stop that finds the Processer asleep makes its Start return.
StopEndsSleeper ==
  \A p \in Procs :
    (/\ stop[p] /\ pc[p] = "parked"
     /\ \E c \in Clients : cpc[c] = "wake" /\ dst[c] = p) ~> pc[p] = "end"

\* A stopped Processer enters at most one more coroutine, whatever its thread
\* was doing when stop_ was set: the tests of stop_ in Start and in Yield cover
\* every way round the loop.
OneMoreAfterStop == \A p \in Procs : late[p] <= 1
=============================================================================
