------------------------------ MODULE IoCalls ------------------------------
(***************************************************************************)
(* A hooked call of a coroutine, from hook.cpp's IOSubmit through          *)
(* Scheduler::IOSubmit, IOSubmitThread, io_uring_engine::Exec and the      *)
(* kernel to IOWaitThread, WaitResult and the resumption of the coroutine. *)
(*                                                                         *)
(* Coroutines are scheduled as Processer promises: a deferred function     *)
(* runs after its coroutine was switched away from, an added task is       *)
(* eventually run.  ioQueue_ has one consumer and is a FIFO queue.  The    *)
(* kernel side of the ring is external: it takes published entries in      *)
(* order, and posts completions in the order requests finish.              *)
(*                                                                         *)
(* A call is named by its coroutine and its number; [task, call] stands    *)
(* for the reference to the `res` in that call's stack frame.              *)
(*                                                                         *)
(* Nothing in the source starts IOSubmitThread and IOWaitThread, private   *)
(* members of Scheduler.  A behaviour has one of two readings: they are    *)
(* never started, as in the source, or Start launches them, as their loops *)
(* on stop_ ask for.                                                       *)
(***************************************************************************)
EXTENDS Naturals, Sequences, SequencesExt

CONSTANTS
  Tasks,       \* coroutines
  NULL,        \* what the uninitialised user_data of WakeUpIOWait holds
  Timed,       \* coroutines whose calls carry a timeout (SO_RCVTIMEO, SO_SNDTIMEO)
  Files,       \* coroutines that read and write files, at an offset kept by FdDesc
  SqSize,      \* entries of the submission queue (1024 in the code)
  Started,     \* the readings considered: whether the I/O threads are started;
               \* {FALSE} is the source
  PlainFlag,   \* TRUE: ioWait_ is the plain bool of the source; its store may
               \* be late until IOSubmitThread gives the mutex up
  MaxCalls,    \* bounds: calls made by a coroutine,
  MaxTimed,    \* by one whose calls carry a timeout,
  StopAfter    \* how many were made when Scheduler::Stop is called (none later)

ASSUME SizeAssumption == SqSize \in Nat \ {0}
ASSUME BoundAssumption == MaxCalls \in Nat /\ MaxTimed \in Nat /\ StopAfter \subseteq Nat
ASSUME NamesAssumption == NULL \notin Tasks /\ Timed \cup Files \subseteq Tasks
ASSUME StartedAssumption == Started \subseteq BOOLEAN

\* References to frames, entries of the submission queue and of the completion queue.
Refs    == [task : Tasks \cup {NULL}, call : Nat]
Entries == [type : {"NORMAL", "TIMEOUT"}, res : Refs, link : BOOLEAN]
Cqes    == [type : {"NORMAL", "TIMEOUT"}, res : Refs,
            val : {"done", "ECANCELED", "ETIME", "other"}]

ASSUME NullAssumption == NULL \notin Refs /\ NULL \notin Cqes

VARIABLES
  tpc,         \* each coroutine: "body", "defer" (suspended, its deferred
               \* function not yet run) or "wait"
  call,        \* number of its current or last call
  ret,         \* res.ret of that call
  ioQueue, ioWait, stop,   \* of Scheduler
  nCheck, nWake,           \* threads in IOSubmit: before the test of ioWait_, before WakeUpIOSubmit
  spc, req,    \* IOSubmitThread: where it is, the request it executes
  opc,         \* the thread in Scheduler::Stop
  sq, published,           \* submission queue; how many entries Submit has published
  inflight,    \* requests the kernel has, each with the one it is linked to
  cq,          \* completion queue
  wpc, slot, tk,           \* IOWaitThread: where it is, the completion it handed back
               \* and reads, the task WaitResult gave it
  runq,        \* how often each task is in a runnable queue
  refused      \* history: calls for which Exec returned false

sched  == <<ioQueue, ioWait, stop, nCheck, nWake>>
co     == <<tpc, call, ret>>
ring   == <<sq, published, inflight, cq>>
waiter == <<wpc, slot, tk>>
vars   == <<co, sched, spc, req, opc, ring, waiter, runq, refused>>

Ref(t) == [task |-> t, call |-> call[t]]

\* Exec asks for a timer by linking it to the request.
Entry(type, r, link) == [type |-> type, res |-> r, link |-> link]

Calls == FoldFunction(LAMBDA a, b : a + b, 0, call)

\* The bounds of calls.
MayCall(t) ==
  /\ call[t] < IF t \in Timed THEN MaxTimed ELSE MaxCalls
  /\ opc = "idle"

Init ==
  /\ tpc = [t \in Tasks |-> "body"]
  /\ call = [t \in Tasks |-> 0]
  /\ ret = [t \in Tasks |-> "unset"]
  /\ ioQueue = <<>> /\ ioWait = FALSE /\ stop = FALSE
  /\ nCheck = 0 /\ nWake = 0
  /\ \E started \in Started :
       spc = (IF started THEN "loop" ELSE "none") /\ wpc = spc
  /\ req = NULL /\ opc = "idle"
  /\ sq = <<>> /\ published = 0 /\ inflight = {} /\ cq = <<>>
  /\ slot = NULL /\ tk = NULL
  /\ runq = [t \in Tasks \cup {NULL} |-> 0]
  /\ refused = {}

-----------------------------------------------------------------------------
(* The coroutine: hook.cpp *)

\* Mutant of HookedCall: the request is queued before the coroutine suspends.
HookedCallEager(t) ==
  /\ tpc[t] = "body" /\ MayCall(t)
  /\ call' = [call EXCEPT ![t] = @ + 1]
  /\ ret' = [ret EXCEPT ![t] = "unset"]
  /\ tpc' = [tpc EXCEPT ![t] = "defer"]
  /\ ioQueue' = Append(ioQueue, [task |-> t, call |-> call[t] + 1])
  /\ UNCHANGED <<ioWait, stop, nCheck, nWake, spc, req, opc, ring, waiter, runq, refused>>

\* A hooked call on a descriptor it handles: user_data is the running task,
\* AddToDo, SuspendTask.
HookedCall(t) ==
  /\ tpc[t] = "body" /\ MayCall(t)
  /\ call' = [call EXCEPT ![t] = @ + 1]
  /\ ret' = [ret EXCEPT ![t] = "unset"]
  /\ tpc' = [tpc EXCEPT ![t] = "defer"]
  /\ UNCHANGED <<sched, spc, req, opc, ring, waiter, runq, refused>>

\* The deferred Scheduler::IOSubmit: ioQueue_.push.
IOSubmit(t) ==
  /\ tpc[t] = "defer"
  /\ tpc' = [tpc EXCEPT ![t] = "wait"]
  /\ ioQueue' = Append(ioQueue, Ref(t))
  /\ nCheck' = nCheck + 1
  /\ UNCHANGED <<call, ret, ioWait, stop, nWake, spc, req, opc, ring, waiter, runq, refused>>

\* Where IOSubmitThread holds ioWaitMutex_.
InWait == {"pop_locked", "park"}

\* Mutant of WaitRead: nobody looks at ioWait_ after the push.
WaitReadNot == {FALSE}

\* What a thread without the mutex may read in ioWait_.
WaitRead == {ioWait} \cup (IF PlainFlag /\ spc \in InWait THEN {FALSE} ELSE {})

\* `if (ioWait_==true)`.
IOSubmitCheck ==
  /\ nCheck > 0
  /\ nCheck' = nCheck - 1
  /\ \E w \in WaitRead : nWake' = IF w THEN nWake + 1 ELSE nWake
  /\ UNCHANGED <<co, ioQueue, ioWait, stop, spc, req, opc, ring, waiter, runq, refused>>

\* WakeUpIOSubmit by such a thread, once it has the mutex.
WakeUpIOSubmit ==
  /\ nWake > 0 /\ spc \notin InWait
  /\ nWake' = nWake - 1
  /\ ioWait' = FALSE
  /\ UNCHANGED <<co, ioQueue, stop, nCheck, spc, req, opc, ring, waiter, runq, refused>>

\* A Processer runs the task: SuspendTask returns, then the hooked call, with
\* -1 and errno for a negative res.ret; its frame is gone.
Return(t) ==
  /\ runq[t] > 0 /\ tpc[t] = "wait"
  /\ runq' = [runq EXCEPT ![t] = @ - 1]
  /\ tpc' = [tpc EXCEPT ![t] = "body"]
  /\ ret' = [ret EXCEPT ![t] = "unset"]
  /\ UNCHANGED <<call, sched, spc, req, opc, ring, waiter, refused>>

-----------------------------------------------------------------------------
(* IOSubmitThread, io_uring_engine::Exec *)

SubmitLoop ==
  /\ spc = "loop"
  /\ spc' = IF stop THEN "end" ELSE "pop"
  /\ UNCHANGED <<co, sched, req, opc, ring, waiter, runq, refused>>

SubmitPop ==
  /\ spc = "pop"
  /\ \/ /\ ioQueue # <<>>
        /\ req' = Head(ioQueue) /\ ioQueue' = Tail(ioQueue)
        /\ spc' = "exec"
     \/ /\ ioQueue = <<>>
        /\ spc' = "lock"
        /\ UNCHANGED <<req, ioQueue>>
  /\ UNCHANGED <<co, ioWait, stop, nCheck, nWake, opc, ring, waiter, runq, refused>>

SubmitLock ==
  /\ spc = "lock"
  /\ ioWait' = TRUE
  /\ spc' = "pop_locked"
  /\ UNCHANGED <<co, ioQueue, stop, nCheck, nWake, req, opc, ring, waiter, runq, refused>>

SubmitPopLocked ==
  /\ spc = "pop_locked"
  /\ \/ /\ ioQueue # <<>>
        /\ req' = Head(ioQueue) /\ ioQueue' = Tail(ioQueue)
        /\ ioWait' = FALSE
        /\ spc' = "exec"
     \/ /\ ioQueue = <<>>
        /\ spc' = "park"
        /\ UNCHANGED <<req, ioQueue, ioWait>>
  /\ UNCHANGED <<co, stop, nCheck, nWake, opc, ring, waiter, runq, refused>>

\* ioWaitCond_.wait gives the mutex up and sleeps.
SubmitPark ==
  /\ spc = "park"
  /\ spc' = "parked"
  /\ UNCHANGED <<co, sched, req, opc, ring, waiter, runq, refused>>

SubmitWoken ==
  /\ spc = "parked" /\ ~ioWait
  /\ spc' = "loop"
  /\ UNCHANGED <<co, sched, req, opc, ring, waiter, runq, refused>>

\* Mutant of GetSqe: the null test is dropped.
GetSqeUnchecked == TRUE

\* GetSqe returns a free entry.
GetSqe == Len(sq) < SqSize

\* The last entry was gotten by a thread that has not submitted it yet.
Open(r) == Len(sq) > published /\ Last(sq).res = r

\* What a thread that gets an entry and fills it in leaves in the ring.  The ring
\* is not thread-safe: if the other thread's own GetSqe, for r, may not have
\* ended, both are given the same entry and one writes over the other.
Filled(e, other, r) ==
  (IF GetSqe THEN {Append(sq, e)} ELSE {})
    \cup (IF other /\ Open(r) THEN {sq, [sq EXCEPT ![Len(sq)] = e]} ELSE {})

\* What WakeUpIOWait refers to: a `res` nobody initialised.
Nobody == [task |-> NULL, call |-> 0]

\* Whether the operation gives Exec a timeout that is not zero.
HasTimer(r) == r.task \in Timed

\* The request function after Exec: that of a file goes on to its offset.
After == IF req.task \in Files THEN spc' = "advance" /\ UNCHANGED req
         ELSE spc' = "loop" /\ req' = NULL

\* Exec returns false, which no caller looks at.
Refuse ==
  /\ ~GetSqe
  /\ refused' = refused \cup {req}
  /\ After
  /\ UNCHANGED sq

\* Exec: GetSqe and the preparation of the request.
ExecGetSqe ==
  /\ spc = "exec"
  /\ \/ /\ sq' \in Filled(Entry("NORMAL", req, HasTimer(req)), opc = "submit", Nobody)
        /\ spc' = IF HasTimer(req) THEN "exec_timer" ELSE "submit"
        /\ UNCHANGED <<req, refused>>
     \/ Refuse
  /\ UNCHANGED <<co, sched, opc, published, inflight, cq, waiter, runq>>

\* The linked timer; without a free entry for it the request stays prepared, and
\* is submitted with, and linked to, whatever comes next.
ExecTimer ==
  /\ spc = "exec_timer"
  /\ \/ /\ sq' \in Filled(Entry("TIMEOUT", req, FALSE), opc = "submit", Nobody)
        /\ spc' = "submit"
        /\ UNCHANGED <<req, refused>>
     \/ Refuse
  /\ UNCHANGED <<co, sched, opc, published, inflight, cq, waiter, runq>>

\* Mutant of ExecSubmit: the entry is prepared and never submitted.
ExecSubmitForgotten ==
  /\ spc = "submit"
  /\ spc' = "loop" /\ req' = NULL
  /\ UNCHANGED <<co, sched, opc, ring, waiter, runq, refused>>

\* Submit publishes every entry prepared so far.
ExecSubmit ==
  /\ spc = "submit"
  /\ published' = Len(sq)
  /\ After
  /\ UNCHANGED <<co, sched, opc, sq, inflight, cq, waiter, runq, refused>>

\* `if(res.ret>=0) fdPtr->offset+=res.ret`, by the request function of a file's
\* read or write after Exec has returned: res is as yet uninitialised, or holds
\* the result, or is gone with the frame.  No property is about the offset.
ExecAdvance ==
  /\ spc = "advance"
  /\ spc' = "loop" /\ req' = NULL
  /\ UNCHANGED <<co, sched, opc, ring, waiter, runq, refused>>

-----------------------------------------------------------------------------
(* The kernel (external): SQPOLL thread, completion *)

Cqe(type, r, v) == [type |-> type, res |-> r, val |-> v]

\* How many published entries belong together: up to the first that is not linked.
Chained(n) ==
  /\ n \in 1 .. published
  /\ \A i \in 1 .. n - 1 : sq[i].link
  /\ n = published \/ ~sq[n].link

\* Of n such entries, the requests: each with its timer, if that is the next one,
\* and after the one before it.
Requests(n) ==
  {[res |-> sq[i].res, timed |-> i < n /\ sq[i + 1].type = "TIMEOUT",
    after |-> IF i = 1 THEN NULL ELSE sq[i - 1].res] :
     i \in {j \in 1 .. n : sq[j].type = "NORMAL"}}

\* The kernel takes what belongs together; a timer with no request before it is
\* an error.
KernelTake ==
  /\ \E n \in 1 .. published :
       /\ Chained(n)
       /\ inflight' = inflight \cup Requests(n)
       /\ sq' = SubSeq(sq, n + 1, Len(sq))
       /\ published' = published - n
       /\ cq' = IF sq[1].type = "TIMEOUT" THEN Append(cq, Cqe("TIMEOUT", sq[1].res, "other")) ELSE cq
  /\ UNCHANGED <<co, sched, spc, req, opc, waiter, runq, refused>>

\* Completions of a request and of its timer come in either order.
Post(a, b) == cq' = cq \o <<a, b>> \/ cq' = cq \o <<b, a>>

\* Without i, the request linked to it goes on: it is started, or cancelled if i
\* failed, which ends it as well.
Without(i) ==
  {IF j.after = i.res THEN [j EXCEPT !.after = NULL] ELSE j : j \in inflight \ {i}}

\* A request ends by itself, well or badly; its timer is cancelled.
KernelComplete ==
  /\ \E i \in inflight :
       /\ i.after = NULL
       /\ inflight' = Without(i)
       /\ \/ ~i.timed /\ cq' = Append(cq, Cqe("NORMAL", i.res, "done"))
          \/ i.timed /\ Post(Cqe("NORMAL", i.res, "done"), Cqe("TIMEOUT", i.res, "ECANCELED"))
  /\ UNCHANGED <<co, sched, spc, req, opc, sq, published, waiter, runq, refused>>

\* The timer runs out first: it reports ETIME and the request is cancelled,
\* or the request cannot be cancelled any more and goes on alone.  The kernel
\* reads the timespec from the frame of an Exec that may have returned: the
\* time is any, or not a time, and both are refused.
KernelExpire ==
  /\ \E i \in inflight :
       /\ i.timed /\ i.after = NULL
       /\ \/ /\ inflight' = Without(i)
             /\ Post(Cqe("TIMEOUT", i.res, "ETIME"), Cqe("NORMAL", i.res, "done"))
          \/ /\ inflight' = Without(i)
             /\ Post(Cqe("TIMEOUT", i.res, "other"), Cqe("NORMAL", i.res, "done"))
          \/ /\ inflight' = (inflight \ {i}) \cup {[i EXCEPT !.timed = FALSE]}
             /\ cq' = Append(cq, Cqe("TIMEOUT", i.res, "other"))
  /\ UNCHANGED <<co, sched, spc, req, opc, sq, published, waiter, runq, refused>>

-----------------------------------------------------------------------------
(* IOWaitThread *)

WaitLoop ==
  /\ wpc = "loop"
  /\ wpc' = IF stop THEN "end" ELSE "wait"
  /\ UNCHANGED <<co, sched, spc, req, opc, ring, slot, tk, runq, refused>>

\* Where WaitResult's completion of type and value goes: to its caller, once
\* more round WaitResult, or back to the loop of IOWaitThread as an error.
Outcome(c) ==
  CASE c.type = "NORMAL"     -> "add"
    [] c.val = "ETIME"       -> "add"
    [] c.val = "ECANCELED"   -> "wait"
    [] OTHER                 -> "loop"

\* WaitResult: WaitCqe, and CqeSeen before the completion is looked at.
WaitCqe ==
  /\ wpc = "wait" /\ cq # <<>>
  /\ slot' = Head(cq) /\ cq' = Tail(cq)
  /\ wpc' = "read"
  /\ UNCHANGED <<co, sched, spc, req, opc, sq, published, inflight, tk, runq, refused>>

\* Mutant of Stored: the task is handed on without its result.
StoredNot(c) == ret

\* What a completion stores through its reference.
Stored(c) == [ret EXCEPT ![c.res.task] = IF c.type = "TIMEOUT" THEN "EAGAIN" ELSE c.val]

\* The rest of WaitResult: a result is stored through the reference and the
\* task read through it.
WaitResult ==
  /\ wpc = "read"
  /\ wpc' = Outcome(slot) /\ slot' = NULL
  /\ LET known == Outcome(slot) = "add" /\ slot.res.task # NULL IN
       /\ tk' = IF known THEN slot.res.task ELSE NULL
       /\ ret' = IF known THEN Stored(slot) ELSE ret
  /\ UNCHANGED <<tpc, call, sched, spc, req, opc, ring, runq, refused>>

\* AddTask(list) with the task.
WaitAdd ==
  /\ wpc = "add"
  /\ runq' = [runq EXCEPT ![tk] = @ + 1]
  /\ wpc' = "loop" /\ tk' = NULL
  /\ UNCHANGED <<co, sched, spc, req, opc, ring, slot, refused>>

-----------------------------------------------------------------------------
(* Scheduler::Stop, after the Processers *)

StopCall ==
  /\ Calls \in StopAfter /\ opc = "idle"
  /\ stop' = TRUE
  /\ opc' = "wake"
  /\ UNCHANGED <<co, ioQueue, ioWait, nCheck, nWake, spc, req, ring, waiter, runq, refused>>

StopWakeSubmit ==
  /\ opc = "wake" /\ spc \notin InWait
  /\ ioWait' = FALSE
  /\ opc' = "get_sqe"
  /\ UNCHANGED <<co, ioQueue, stop, nCheck, nWake, spc, req, ring, waiter, runq, refused>>

\* WakeUpIOWait: TimeOut's Exec.
StopGetSqe ==
  /\ opc = "get_sqe"
  /\ \/ /\ sq' \in Filled(Entry("NORMAL", Nobody, FALSE), spc \in {"exec_timer", "submit"}, req)
        /\ opc' = "submit"
     \/ /\ ~GetSqe
        /\ opc' = "end"
        /\ UNCHANGED sq
  /\ UNCHANGED <<co, sched, spc, req, published, inflight, cq, waiter, runq, refused>>

\* Mutant of StopSubmit: the entry is prepared and never submitted.
StopSubmitForgotten ==
  /\ opc = "submit"
  /\ opc' = "end"
  /\ UNCHANGED <<co, sched, spc, req, ring, waiter, runq, refused>>

StopSubmit ==
  /\ opc = "submit"
  /\ published' = Len(sq)
  /\ opc' = "end"
  /\ UNCHANGED <<co, sched, spc, req, sq, inflight, cq, waiter, runq, refused>>

-----------------------------------------------------------------------------
Caller     == \E t \in Tasks : HookedCall(t)
Coroutine  == \E t \in Tasks : IOSubmit(t) \/ Return(t)
Notifier   == IOSubmitCheck \/ WakeUpIOSubmit
Submitter  == SubmitLoop \/ SubmitPop \/ SubmitLock \/ SubmitPopLocked \/ SubmitPark
              \/ SubmitWoken \/ ExecGetSqe \/ ExecTimer \/ ExecSubmit
              \/ ExecAdvance
Waiter     == WaitLoop \/ WaitCqe \/ WaitResult \/ WaitAdd
Stopper    == StopWakeSubmit \/ StopGetSqe \/ StopSubmit

Next == Caller \/ Coroutine \/ Notifier \/ Submitter \/ KernelTake \/ KernelComplete
        \/ KernelExpire \/ Waiter \/ StopCall \/ Stopper

Spec == Init /\ [][Next]_vars

\* Threads that can run do, added tasks are run, and the kernel takes and
\* ends requests.
FairSpec ==
  /\ Spec
  /\ \A t \in Tasks : WF_vars(IOSubmit(t)) /\ WF_vars(Return(t))
  /\ WF_vars(IOSubmitCheck) /\ WF_vars(WakeUpIOSubmit)
  /\ WF_vars(Submitter) /\ WF_vars(Waiter) /\ WF_vars(Stopper)
  /\ WF_vars(KernelTake) /\ WF_vars(KernelComplete)

-----------------------------------------------------------------------------
(* Properties *)

InRing(r) ==
  \/ \E i \in 1 .. Len(sq) : sq[i].res = r
  \/ \E x \in inflight : x.res = r
  \/ \E i \in 1 .. Len(cq) : cq[i].res = r
  \/ slot # NULL /\ slot.res = r

\* Every variable has its type.
TypeOK ==
  /\ tpc \in [Tasks -> {"body", "defer", "wait"}]
  /\ call \in [Tasks -> Nat]
  /\ ret \in [Tasks -> {"unset", "done", "EAGAIN"}]
  /\ ioQueue \in Seq(Refs) /\ ioWait \in BOOLEAN /\ stop \in BOOLEAN
  /\ nCheck \in Nat /\ nWake \in Nat
  /\ spc \in {"none", "loop", "pop", "lock", "pop_locked", "park", "parked", "exec", "exec_timer",
              "submit", "advance", "end"}
  /\ req \in Refs \cup {NULL}
  /\ req = NULL <=> spc \notin {"exec", "exec_timer", "submit", "advance"}
  /\ opc \in {"idle", "wake", "get_sqe", "submit", "end"}
  /\ sq \in Seq(Entries) /\ Len(sq) <= SqSize
  /\ published \in 0 .. Len(sq)
  /\ inflight \subseteq [res : Refs, timed : BOOLEAN, after : Refs \cup {NULL}]
  /\ cq \in Seq(Cqes)
  /\ wpc \in {"none", "loop", "wait", "read", "add", "end"}
  /\ slot \in Cqes \cup {NULL} /\ (wpc = "read" <=> slot # NULL)
  /\ tk \in Tasks \cup {NULL}
  /\ runq \in [Tasks \cup {NULL} -> Nat]
  /\ refused \subseteq Refs

\* Until Stop is called, and of an untimed call, the kernel and the two I/O
\* threads only ever refer to a frame that is still suspended: `res`, the buffers
\* and the request function live on that coroutine's stack.  The one exception is
\* the advance of a file's offset.
NoDanglingFrame ==
  opc = "idle" =>
    \A t \in Tasks \ Timed, k \in 1 .. MaxCalls :
      LET r == [task |-> t, call |-> k] IN
        InRing(r) \/ (req = r /\ spc # "advance") \/ r \in Range(ioQueue)
          => tpc[t] = "wait" /\ call[t] = k /\ runq[t] = 0

\* t is runnable only while it is suspended in a call whose result is there,
\* and once.
Once(t) ==
  /\ runq[t] <= 1
  /\ runq[t] = 1 \/ tk = t => tpc[t] = "wait" /\ ret[t] # "unset"
  /\ ~(runq[t] = 1 /\ tk = t)

\* Until Stop is called, a coroutine whose calls have no timeout is resumed once
\* for each of them, with its result: nothing enters a context that is in use.
UntimedResumedOnce == opc = "idle" => \A t \in Tasks \ Timed : Once(t)

\* What the deferred submission is there to ensure and timed calls break: every
\* coroutine is resumed once for each call.
ResumedOnce == \A t \in Tasks : Once(t)

\* IOSubmitThread never sleeps on a queue that holds a request unless the
\* thread that put it there is still on its way to WakeUpIOSubmit.
NoLostRequest ==
  spc = "parked" /\ ioWait /\ ioQueue # <<>> => nCheck > 0 \/ nWake > 0

\* The ring is full of entries that were never submitted, and never will be: of
\* requests that found no entry for their timer.
Jammed ==
  Len(sq) = SqSize /\ published = 0 /\ spc \notin {"exec_timer", "submit"} /\ opc # "submit"

\* Once Stop has made its calls IOWaitThread ends, also when WakeUpIOWait found no
\* entry free for it, unless the ring is jammed; IOSubmitThread does if Stop found
\* it asleep.  (A Stop that comes between that thread's test of stop_ and its
\* sleep does not end it.)
StopEndsIoThreads ==
  /\ opc = "end" ~> wpc \in {"none", "end"} \/ Jammed
  /\ opc = "wake" /\ spc = "parked" /\ ioWait ~> spc = "end"

\* With the I/O threads started, a hooked call returns unless the scheduler is
\* stopped or the submission queue had no entry left for it or for its timer:
\* what nobody looks at, Exec's false, is the only way a request gets lost.
CallReturns ==
  \A t \in Tasks :
    tpc[t] = "defer" ~> tpc[t] = "body" \/ stop \/ spc = "none" \/ Ref(t) \in refused
=============================================================================
