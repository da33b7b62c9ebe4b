----------------------------- MODULE Scheduler -----------------------------
(***************************************************************************)
(* Scheduler (scheduler/scheduler.cpp), its Processers: Start, AddTask     *)
(* before and after it, the rounds of LoadBalance that Start's thread      *)
(* makes, and Stop.                                                        *)
(*                                                                         *)
(* Tasks are counted, not named: where each goes inside one Processer is   *)
(* Processer's.  A Processer pops a task and then runs it; scheduling is   *)
(* not preemptive, so a coroutine may keep its thread for ever.            *)
(* LFQueue::size, which LoadBalance reads, follows a push or a pop one     *)
(* step later; nothing but LoadBalance reads it, so its own updates are    *)
(* not delayed.  LoadBalance reads one size in a step.                     *)
(*                                                                         *)
(* blocks is TRUE in the source: Start calls each Processer's Start, which *)
(* is the loop itself, on its own thread.  FALSE is the evident meaning, a *)
(* thread for each Processer.  A behaviour has one of the two readings.    *)
(***************************************************************************)
EXTENDS Integers, Sequences, FiniteSetsExt, Functions

CONSTANTS
  N,             \* processer_num
  Clients,       \* threads that are neither Processers nor in Start
  StartBlocks,   \* the readings of Start (blocks) that are considered
  MaxAdd,        \* bounds: tasks added by clients, before or after Start,
  MaxSpawn,      \* tasks added by coroutines,
  MaxHog,        \* coroutines that never give up their thread,
  MaxStop        \* calls of Stop

ASSUME NAssumption == N \in Nat \ {0}
ASSUME ClientsAssumption == IsFiniteSet(Clients)
ASSUME ReadingAssumption == StartBlocks \subseteq BOOLEAN
ASSUME BoundAssumption == {MaxAdd, MaxSpawn, MaxHog, MaxStop} \subseteq Nat

Procs == 1 .. N

VARIABLES
  blocks,        \* the reading of Start
  processers,    \* how many Processers processers_ holds
  temp,          \* tempTasks_ still to be handed over
  idx,           \* the counter of AddTask
  stop,          \* stop_
  queue, size,   \* each runnableQueue_: the tasks in it, its size
  pstop, ppc,    \* each Processer: stop_, where its thread is
  cpc, target,   \* each client: where it is, the Processer it adds to
  mpc,           \* the thread that calls Start
  lb,            \* locals of LoadBalance
  calls,         \* bounded calls made, by kind
  ran,           \* tasks that have finished
  round          \* history: the largest and the smallest queue when the round
                 \* began, and whether nobody else has touched one since

sched  == <<blocks, processers, temp, idx, stop>>
procs  == <<queue, size, pstop, ppc>>
client == <<cpc, target>>
vars   == <<sched, procs, client, mpc, lb, calls, ran, round>>

Bound == [add |-> MaxAdd, spawn |-> MaxSpawn, hog |-> MaxHog, stop |-> MaxStop]
Call(k) == calls[k] < Bound[k] /\ calls' = [calls EXCEPT ![k] = @ + 1]

\* The sum up to each Processer, and of all.
Sums(f) == LET sum[i \in 0 .. N] == IF i = 0 THEN 0 ELSE sum[i - 1] + f[i] IN sum
Sum(f)  == Sums(f)[N]

Idle  == [at |-> 1, total |-> 0, over |-> <<>>, under |-> <<>>, rest |-> <<>>, num |-> 0,
          hand |-> 0]
Unset == [quiet |-> FALSE, peak |-> 0, low |-> 0]

Init ==
  /\ blocks \in StartBlocks
  /\ processers = 0 /\ temp = 0 /\ idx = 0 /\ stop = FALSE
  /\ queue = [p \in Procs |-> 0] /\ size = [p \in Procs |-> 0]
  /\ pstop = [p \in Procs |-> FALSE] /\ ppc = [p \in Procs |-> "none"]
  /\ cpc = [c \in Clients |-> "idle"] /\ target = [c \in Clients |-> 0]
  /\ mpc = "before" /\ lb = Idle
  /\ calls = [k \in DOMAIN Bound |-> 0]
  /\ ran = 0
  /\ round = Unset

\* k tasks are pushed, or popped, together with their count.
Enqueue(p, k) ==
  /\ queue' = [queue EXCEPT ![p] = @ + k]
  /\ size' = [size EXCEPT ![p] = @ + k]

-----------------------------------------------------------------------------
(* Start *)

StartCall ==
  /\ mpc = "before"
  /\ mpc' = "launch"
  /\ UNCHANGED <<sched, procs, client, lb, calls, ran, round>>

\* processers_.emplace_back, Start of the new Processer; when that is the loop
\* itself, the next one has to wait for its end.
Launch ==
  /\ mpc = "launch"
  /\ blocks /\ processers > 0 => ppc[processers] = "end"
  /\ \/ /\ processers < N
        /\ processers' = processers + 1
        /\ ppc' = [ppc EXCEPT ![processers + 1] = "loop"]
        /\ UNCHANGED mpc
     \/ /\ processers = N
        /\ mpc' = "hand"
        /\ UNCHANGED <<processers, ppc>>
  /\ UNCHANGED <<blocks, temp, idx, stop, queue, size, pstop, client, lb, calls, ran, round>>

\* `for(auto& tk:tempTasks_) AddTask(tk)`, from the last Processer's thread if
\* its loop ran here.
HandOver ==
  /\ mpc = "hand"
  /\ \/ /\ temp > 0
        /\ temp' = temp - 1
        /\ Enqueue(IF blocks THEN N ELSE (idx % N) + 1, 1)
        /\ idx' = IF blocks THEN idx ELSE idx + 1
        /\ UNCHANGED mpc
     \/ /\ temp = 0
        /\ mpc' = "sleep"
        /\ UNCHANGED <<temp, idx, queue, size>>
  /\ UNCHANGED <<blocks, processers, stop, pstop, ppc, client, lb, calls, ran, round>>

-----------------------------------------------------------------------------
(* LoadBalance: tasks against the average total / N *)

Overloaded(tasks, total)  == 10 * N * tasks > 11 * total
Underloaded(tasks, total) == 10 * N * tasks < 3 * total

\* Mutant of StealNum: the minimum is none, not one.
StealNumNoMin(tasks, total) ==
  LET quarter == (N * tasks - total) \div (4 * N) IN IF quarter > 0 THEN quarter ELSE 0

\* max(1, (tasks - avg) / 4).
StealNum(tasks, total) ==
  LET quarter == (N * tasks - total) \div (4 * N) IN IF quarter > 1 THEN quarter ELSE 1

\* Mutant of Done: stop_ is not looked at.
DoneNever == FALSE

\* `while(!stop_)`.
Done == stop

\* Another round, after a second of sleep, or Start returns.
Sleep ==
  /\ mpc = "sleep"
  /\ mpc' = IF Done THEN "end" ELSE "sum"
  /\ UNCHANGED <<sched, procs, client, lb, calls, ran, round>>

\* totalTasks: the size of one Processer more.
Total ==
  /\ mpc = "sum"
  /\ lb' = [lb EXCEPT !.at = (@ % N) + 1, !.total = @ + size[lb.at]]
  /\ mpc' = IF lb.at = N THEN "sort" ELSE "sum"
  /\ round' = IF lb.at > 1 THEN round
              ELSE IF size = queue
              THEN [quiet |-> TRUE, peak |-> Max(Range(queue)), low |-> Min(Range(queue))]
              ELSE Unset
  /\ UNCHANGED <<sched, procs, client, calls, ran>>

\* One Processer's size once more: it is overloaded, underloaded or neither.
Sort ==
  /\ mpc = "sort"
  /\ LET over  == Overloaded(size[lb.at], lb.total)
         under == ~over /\ Underloaded(size[lb.at], lb.total)
     IN lb' = [lb EXCEPT !.at = (@ % N) + 1,
                         !.over  = IF over THEN Append(@, lb.at) ELSE @,
                         !.rest  = IF over THEN Append(@, lb.at) ELSE @,
                         !.under = IF under THEN Append(@, lb.at) ELSE @]
  /\ mpc' = IF lb.at = N THEN "pair" ELSE "sort"
  /\ UNCHANGED <<sched, procs, client, calls, ran, round>>

Source == Head(lb.rest)
Dest   == Head(lb.under)

More(p) == Overloaded(size[p], lb.total)
Less(p) == Underloaded(size[p], lb.total)

\* The two loops: every source in turn for the first destination, then for the
\* next; `continue` for a source that is no longer overloaded.
Pair ==
  /\ mpc = "pair"
  /\ \/ /\ lb.under = <<>>
        /\ lb' = Idle /\ round' = Unset
        /\ mpc' = "sleep"
     \/ /\ lb.under # <<>> /\ lb.rest = <<>>
        /\ lb' = [lb EXCEPT !.under = Tail(@), !.rest = lb.over]
        /\ UNCHANGED <<mpc, round>>
     \/ /\ lb.under # <<>> /\ lb.rest # <<>> /\ ~More(Source)
        /\ lb' = [lb EXCEPT !.rest = Tail(@)]
        /\ UNCHANGED <<mpc, round>>
     \/ /\ lb.under # <<>> /\ lb.rest # <<>> /\ More(Source)
        /\ mpc' = "dest"
        /\ UNCHANGED <<lb, round>>
  /\ UNCHANGED <<sched, procs, client, calls, ran>>

\* Mutant of Enough: a destination is never full enough.
EnoughNever == FALSE

\* The destination has as much as it needs.
Enough == ~Less(Dest)

\* `break`, or on with the pair.
Test ==
  /\ mpc = "dest"
  /\ \/ /\ Enough
        /\ lb' = [lb EXCEPT !.under = Tail(@), !.rest = lb.over]
        /\ mpc' = "pair"
     \/ /\ ~Enough
        /\ mpc' = "num"
        /\ UNCHANGED lb
  /\ UNCHANGED <<sched, procs, client, calls, ran, round>>

\* stealNum, from the source's size as it is now.
Choose ==
  /\ mpc = "num"
  /\ lb' = [lb EXCEPT !.num = StealNum(size[Source], lb.total)]
  /\ mpc' = "steal"
  /\ UNCHANGED <<sched, procs, client, calls, ran, round>>

\* Mutant of Takes: the null that a pop returns is counted as a task.
TakesBlind == lb.num > 0

\* Steal goes on: it has not got its number and the queue has a task.
Takes == lb.num > 0 /\ queue[Source] > 0

\* A pop of Steal.
Steal ==
  /\ mpc = "steal" /\ Takes
  /\ Enqueue(Source, -1)
  /\ lb' = [lb EXCEPT !.num = @ - 1, !.hand = @ + 1]
  /\ UNCHANGED <<sched, pstop, ppc, client, mpc, calls, ran, round>>

\* Mutant of Stolen: the list is empty once it was moved from.
StolenMoved == 0

\* stolenTasks.
Stolen == lb.hand

\* Steal has enough or finds nothing more: AddTask with what it took.
Give ==
  /\ mpc = "steal" /\ ~Takes
  /\ Enqueue(Dest, Stolen)
  /\ lb' = [lb EXCEPT !.rest = Tail(@), !.num = 0, !.hand = 0]
  /\ mpc' = "pair"
  /\ UNCHANGED <<sched, pstop, ppc, client, calls, ran, round>>

LoadBalance == Sleep \/ Total \/ Sort \/ Pair \/ Test \/ Choose \/ Steal \/ Give

-----------------------------------------------------------------------------
(* The Processers, as far as LoadBalance and Stop tell *)

Pop(p) ==
  /\ ppc[p] = "loop" /\ queue[p] > 0
  /\ queue' = [queue EXCEPT ![p] = @ - 1]
  /\ ppc' = [ppc EXCEPT ![p] = "count"]
  /\ round' = Unset
  /\ UNCHANGED <<sched, size, pstop, client, mpc, lb, calls, ran>>

\* size.fetch_sub, and into the coroutine.
Count(p) ==
  /\ ppc[p] = "count"
  /\ size' = [size EXCEPT ![p] = @ - 1]
  /\ ppc' = [ppc EXCEPT ![p] = "run"]
  /\ round' = Unset
  /\ UNCHANGED <<sched, queue, pstop, client, mpc, lb, calls, ran>>

\* AddTask by a coroutine: its own Processer.
Spawn(p) ==
  /\ ppc[p] = "run" /\ Call("spawn")
  /\ Enqueue(p, 1)
  /\ round' = Unset
  /\ UNCHANGED <<sched, pstop, ppc, client, mpc, lb, ran>>

Finish(p) ==
  /\ ppc[p] = "run"
  /\ ppc' = [ppc EXCEPT ![p] = "loop"]
  /\ ran' = ran + 1
  /\ UNCHANGED <<sched, queue, size, pstop, client, mpc, lb, calls, round>>

\* The coroutine computes for ever.
Hog(p) ==
  /\ ppc[p] = "run" /\ Call("hog")
  /\ ppc' = [ppc EXCEPT ![p] = "hog"]
  /\ UNCHANGED <<sched, queue, size, pstop, client, mpc, lb, ran, round>>

\* The loop ends once stop_ is seen; how many tasks come before is Processer's
\* OneMoreAfterStop.
End(p) ==
  /\ ppc[p] = "loop" /\ pstop[p]
  /\ ppc' = [ppc EXCEPT ![p] = "end"]
  /\ UNCHANGED <<sched, queue, size, pstop, client, mpc, lb, calls, ran, round>>

-----------------------------------------------------------------------------
(* Other threads, at any time, also while Start launches *)

\* AddTask: `if (processers_.empty())`, else processers_[idx++%processers_.size()]
\* gets the task; idx is a plain variable, of two callers one may lose its
\* increment.
AddTask(c) ==
  /\ cpc[c] = "idle" /\ Call("add")
  /\ \/ /\ processers = 0
        /\ cpc' = [cpc EXCEPT ![c] = "temp"]
        /\ UNCHANGED <<idx, queue, target, round>>
     \/ /\ processers > 0
        /\ idx' \in {idx + 1} \cup (IF Clients = {c} THEN {} ELSE {idx})
        /\ cpc' = [cpc EXCEPT ![c] = "count"]
        /\ target' = [target EXCEPT ![c] = (idx % processers) + 1]
        /\ queue' = [queue EXCEPT ![target'[c]] = @ + 1]
        /\ round' = Unset
  /\ UNCHANGED <<blocks, processers, temp, stop, size, pstop, ppc, mpc, lb, ran>>

\* tempTasks_.push_back.
AddTemp(c) ==
  /\ cpc[c] = "temp"
  /\ temp' = temp + 1
  /\ cpc' = [cpc EXCEPT ![c] = "idle"]
  /\ UNCHANGED <<blocks, processers, idx, stop, procs, target, mpc, lb, calls, ran, round>>

\* size.fetch_add.
AddCount(c) ==
  /\ cpc[c] = "count"
  /\ size' = [size EXCEPT ![target[c]] = @ + 1]
  /\ cpc' = [cpc EXCEPT ![c] = "idle"]
  /\ target' = [target EXCEPT ![c] = 0]
  /\ round' = Unset
  /\ UNCHANGED <<sched, queue, pstop, ppc, mpc, lb, calls, ran>>

\* stop_, and Stop of every Processer there is.
Stop(c) ==
  /\ cpc[c] = "idle" /\ Call("stop")
  /\ stop' = TRUE
  /\ pstop' = [p \in Procs |-> pstop[p] \/ p <= processers]
  /\ UNCHANGED <<blocks, processers, temp, idx, queue, size, ppc, client, mpc, lb, ran, round>>

-----------------------------------------------------------------------------
Starter == Launch \/ HandOver \/ LoadBalance
Client(c) == AddTemp(c) \/ AddCount(c)
Proc(p) == Pop(p) \/ Count(p) \/ Finish(p) \/ End(p)

Next ==
  \/ StartCall \/ Starter
  \/ \E p \in Procs : Proc(p) \/ Spawn(p) \/ Hog(p)
  \/ \E c \in Clients : Client(c) \/ AddTask(c) \/ Stop(c)

Spec == Init /\ [][Next]_vars

\* Threads run, and a task stays where LoadBalance puts it for the second until
\* its next round, which is long enough for a free Processer to pop it.
FairSpec ==
  /\ Spec
  /\ WF_vars(StartCall) /\ WF_vars(Starter)
  /\ \A p \in Procs : WF_vars(Count(p)) /\ WF_vars(Finish(p)) /\ WF_vars(End(p)) /\ SF_vars(Pop(p))
  /\ \A c \in Clients : WF_vars(Client(c))

-----------------------------------------------------------------------------
(* Properties *)

Busy == {p \in Procs : ppc[p] \in {"count", "run", "hog"}}
Hogs == {p \in Procs : ppc[p] = "hog"}
Waiting == temp + Sum(queue) + lb.hand

\* Every variable has its type; a size may lag behind its queue in both
\* directions, and be negative.
TypeOK ==
  /\ blocks \in BOOLEAN
  /\ processers \in 0 .. N /\ temp \in Nat /\ idx \in Nat /\ stop \in BOOLEAN
  /\ queue \in [Procs -> Nat] /\ size \in [Procs -> Int]
  /\ pstop \in [Procs -> BOOLEAN]
  /\ ppc \in [Procs -> {"none", "loop", "count", "run", "hog", "end"}]
  /\ cpc \in [Clients -> {"idle", "temp", "count"}]
  /\ target \in [Clients -> 0 .. N]
  /\ mpc \in {"before", "launch", "hand", "sleep", "sum", "sort", "pair", "dest", "num", "steal",
              "end"}
  /\ lb \in [at : Procs, total : Int, over : Seq(Procs), under : Seq(Procs), rest : Seq(Procs),
             num : Nat, hand : Nat]
  /\ calls \in [{"add", "spawn", "hog", "stop"} -> Nat] /\ ran \in Nat
  /\ round \in [quiet : BOOLEAN, peak : Nat, low : Nat]

\* Every task that was added is waiting, running or done, once: none is lost or
\* doubled by the hand-over of Start, by AddTask or by a round of LoadBalance
\* that works with sizes already out of date.
NoTaskLost ==
  LET adding == {c \in Clients : cpc[c] = "temp"} IN
    calls["add"] + calls["spawn"]
      = Cardinality(adding) + Waiting + Cardinality(Busy) + ran

\* While nobody else touches the queues, a round of LoadBalance leaves no queue
\* longer than the longest was and none shorter than the shortest was.
Evens ==
  round.quiet /\ mpc \in {"pair", "dest", "num"} =>
    \A p \in Procs : queue[p] <= round.peak /\ queue[p] >= round.low

\* LoadBalance gives a lone task to the first Processer with none, whether that
\* one's thread is free or not: behind two coroutines that never yield, a task
\* can go back and forth, and no free Processer further on ever gets it.  With
\* Start's loop on its own thread there is one Processer and no LoadBalance.
Stuck ==
  \/ \A p \in Procs \ Hogs : Cardinality({q \in Hogs : q < p}) > 1
  \/ blocks /\ Hogs # {}

\* tempTasks_ is handed over once, after all the launches.
Stranded == temp > 0 /\ (blocks \/ mpc \notin {"before", "launch", "hand"})

\* A waiting task is run in the end, also when it waits in the queue of a
\* coroutine that never yields, unless the scheduler is stopped.  The two
\* exceptions are the code's: where LoadBalance looks only at sizes, and where
\* a task reaches tempTasks_ that Start does not come to.
EveryTaskRuns == Waiting > 0 ~> Waiting = 0 \/ stop \/ Stuck \/ Stranded

\* Stop makes Start return.  When Start runs the loops of its Processers itself,
\* it remains in the one whose coroutine never yields, or that it launched after
\* the call of Stop.
StopEndsStart ==
  stop ~> \/ mpc = "end"
          \/ blocks /\ \E p \in 1 .. processers : ppc[p] # "end" /\ (p \in Hogs \/ ~pstop[p])
=============================================================================
