-------------------------- MODULE ProcesserProofs --------------------------
(***************************************************************************)
(* Proofs about Processer, for any number of Processers, clients, tasks    *)
(* and calls.                                                              *)
(*                                                                         *)
(* OneContext is not inductive: that a popped task is not being executed   *)
(* is only known from where the task was before.  The invariant Inv says   *)
(* where a task may be (SoleInv, OnceInv: in at most one place, once;      *)
(* ExecInv: a task that a thread is in is nowhere else but in what that    *)
(* thread has deferred), what LastScheToDos_ holds at each place of Yield  *)
(* (ToDoInv), and which thread a context saved by Yield belongs to         *)
(* (RefetchInv, needed for the stop path, where a context may be resumed   *)
(* by another thread).  Each step is one of a few kinds, and each kind has *)
(* a lemma: a thread goes on and touches no task (ControlStep), it enters  *)
(* a popped task (SwapStep), a coroutine leaves itself (LeaveStep), a task *)
(* that nobody is in moves (Moved, ControlKept).                           *)
(*                                                                         *)
(* More is what the losses of the code come from: LossInv says that a task *)
(* is nowhere only after the yield that forgets it, FaultInv which         *)
(* coroutines a thread is lost in.  WakeInv is what sleeping and waking go *)
(* by.                                                                     *)
(***************************************************************************)
EXTENDS Processer, FiniteSetTheorems, SequenceTheorems, TLAPS

-----------------------------------------------------------------------------
(* The invariant *)

\* Where a thread is in its main context, and everywhere it can be.
Main == {"start", "loop", "pop", "wait", "wait_pop", "wait_park", "parked", "end"}
Places == Main \cup {"after", "body", "yield", "yield_pop", "fault", "gone"}

\* The functions of LastScheToDos_, and saved contexts.
ToDo == [kind : {"requeue", "release", "register"}, task : Tasks, proc : Procs]
FrameType == [at : {"entry", "refetch", "body", "exit"}, proc : Procs \cup {NULL}]

\* What the history keeps of each task.
MarksType == [Tasks -> SUBSET {"forgotten", "alone", "reused"}]
Forgotten(t) == "forgotten" \in marks[t]
Alone(t)     == "alone" \in marks[t]
Reused(t)    == "reused" \in marks[t]

\* The queues that hold t.
Queues(t) == {p \in Procs : t \in Range(queue[p])}

\* Every variable has its type.
Types ==
  /\ queue \in [Procs -> Seq(Tasks)]
  /\ status \in [Procs -> {"running", "waiting"}]
  /\ stop \in [Procs -> BOOLEAN]
  /\ running \in [Procs -> Tasks \cup {NULL}]
  /\ todos \in [Procs -> Seq(ToDo)]
  /\ pc \in [Procs -> Places]
  /\ cur \in [Procs -> Tasks \cup {NULL}]
  /\ late \in [Procs -> Nat]
  /\ \A p \in Procs :
       /\ pc[p] \in {"body", "yield", "yield_pop"} => cur[p] # NULL
       /\ pc[p] \in Main => cur[p] = NULL
  /\ frame \in [Tasks -> [at : {"entry", "refetch", "body", "exit"}, proc : Procs \cup {NULL}]]
  /\ tstat \in [Tasks -> {"runnable", "block", "done"}]
  /\ blocked \subseteq Tasks /\ alive \subseteq Tasks
  /\ idle \in Seq(Tasks) /\ count \in Nat
  /\ marks \in MarksType
  /\ cpc \in [Clients -> {"idle", "steal", "push", "check", "wake"}]
  /\ batch \in [Clients -> Seq(Tasks)]
  /\ src \in [Clients -> Procs \cup {NULL}] /\ dst \in [Clients -> Procs \cup {NULL}]

\* What a client has in hand at each place of its call.
ClientInv ==
  \A c \in Clients :
    /\ cpc[c] = "steal" => src[c] \in Procs
    /\ cpc[c] # "idle" => dst[c] \in Procs
    /\ cpc[c] = "push" => batch[c] # <<>>
    /\ cpc[c] \in {"idle", "check", "wake"} => batch[c] = <<>>

\* runningTask_ is the coroutine the thread is in, or null.
RunInv == \A p \in Procs : running[p] \in {NULL, cur[p]}

\* LastScheToDos_ never holds more than one function, which is about the task
\* that was left, and nothing is left over when the next one runs.
ToDoInv ==
  \A p \in Procs :
    /\ Len(todos[p]) <= 1
    /\ todos[p] # <<>> => todos[p][1].proc = p
    /\ pc[p] \in Main \cup {"body", "gone"} => todos[p] = <<>>
    /\ pc[p] = "yield" /\ todos[p] # <<>> =>
         running[p] = cur[p] /\ tstat[cur[p]] = "block" /\ todos[p][1].task = cur[p]
    /\ pc[p] = "yield_pop" /\ frame[cur[p]].proc = p =>
         running[p] = NULL /\ (todos[p] # <<>> => todos[p][1].task = cur[p])

\* A task is in at most one place.
Sole(t) ==
  /\ \A p, q \in Queues(t) : p = q
  /\ \A c, d \in InHand(t) : c = d
  /\ \A p, q \in ToDos(t) : p = q
  /\ Queues(t) # {} => InHand(t) = {} /\ ToDos(t) = {} /\ t \notin blocked /\ t \notin Range(idle)
  /\ InHand(t) # {} => ToDos(t) = {} /\ t \notin blocked /\ t \notin Range(idle)
  /\ ToDos(t) # {} => t \notin blocked /\ t \notin Range(idle)
  /\ t \in blocked => t \notin Range(idle)

\* t is somewhere.
Somewhere(t) ==
  Queues(t) # {} \/ InHand(t) # {} \/ ToDos(t) # {} \/ t \in blocked \/ t \in Range(idle)

\* Only a task that exists is anywhere, and in one place.
SoleInv == \A t \in Tasks : Sole(t) /\ (Somewhere(t) => t \in alive)

\* ... and there once.
OnceInv ==
  /\ \A p \in Procs : IsInjective(queue[p])
  /\ \A c \in Clients : IsInjective(batch[c])
  /\ IsInjective(idle)

\* A task that a thread is in is nowhere else but among its own deferred ones.
ExecInv ==
  \A p \in Procs, t \in Tasks : cur[p] = t =>
    /\ t \in alive
    /\ \A q \in Procs : cur[q] = t => q = p
    /\ Queues(t) = {} /\ InHand(t) = {} /\ ToDos(t) \subseteq {p}
    /\ t \notin blocked /\ t \notin Range(idle)
    /\ pc[p] \notin {"yield", "yield_pop", "fault"} => ToDos(t) = {}

\* A context saved in the stop path of Yield is one of a thread that ends.
RefetchInv ==
  \A t \in Tasks : frame[t].at = "refetch" =>
    \E q \in Procs :
      /\ frame[t].proc = q
      /\ \/ cur[q] = t /\ pc[q] = "yield_pop"
         \/ stop[q] /\ cur[q] = NULL /\ pc[q] \in {"after", "loop", "end"}

\* A thread that has entered a coroutine with stop_ set is on its way out.
LateInv ==
  \A p \in Procs :
    /\ late[p] <= 1
    /\ late[p] = 1 =>
         /\ stop[p]
         /\ \/ pc[p] \in {"after", "body", "yield", "loop", "end", "fault", "gone"}
            \/ pc[p] = "yield_pop" /\ frame[cur[p]].proc # p

\* An AddTask is only misled where status_ is a plain field.
MisledInv == misled \subseteq Procs /\ ("plain_status" \notin Literal => misled = {})

\* A Processer about to sleep, or asleep, has nothing in its queue that nobody
\* will wake it for, if nobody was misled.
WakeInv ==
  \A p \in Procs :
    /\ pc[p] \in {"wait_pop", "wait_park"} => status[p] = "waiting"
    /\ pc[p] \in {"wait_park", "parked"} /\ status[p] = "waiting" /\ queue[p] # <<>> =>
         p \in misled \/ \E c \in Clients : dst[c] = p /\ cpc[c] \in {"push", "check", "wake"}

\* A task that is left has its deferred function, unless it is forgotten.
YieldInv ==
  \A p \in Procs :
    /\ pc[p] = "yield" => todos[p] # <<>> \/ tstat[cur[p]] # "block" \/ Forgotten(cur[p])
    /\ pc[p] = "yield_pop" /\ frame[cur[p]].proc = p =>
         /\ todos[p] # <<>> \/ Forgotten(cur[p])
         /\ tstat[cur[p]] = "done" => todos[p] # <<>> /\ todos[p][1].kind = "release"

\* Every task that exists is somewhere or forgotten, never both, and a forgotten
\* one is executed only until its Yield switches away.
PresentInv == \A t \in alive : Executing(t) # {} \/ Somewhere(t) \/ Forgotten(t)
ForgotInv ==
  \A t \in alive : Forgotten(t) =>
    /\ ~Somewhere(t) /\ tstat[t] = "block"
    /\ \A p \in Procs : cur[p] = t => pc[p] \in {"yield", "yield_pop", "fault"}
LossInv == YieldInv /\ PresentInv /\ ForgotInv

\* A coroutine finds itself in runningTask_ unless it has yielded alone; one that
\* has returned is on its way to the pool, there, or from there; and a thread is
\* lost in such coroutines only, or in a Yield of a stopped Processer.
OwnInv  == \A p \in Procs : pc[p] \in {"after", "body", "yield"} =>
             running[p] = cur[p] \/ (cur[p] # NULL /\ Alone(cur[p]))
Returning(t) == \E p \in Procs : todos[p] # <<>> /\ todos[p][1].task = t /\ todos[p][1].kind = "release"
ExitInv == \A t \in alive : frame[t].at = "exit" =>
             Returning(t) \/ t \in Range(idle) \/ Reused(t)
LostInv ==
  \A p \in Procs :
    /\ pc[p] = "gone" => cur[p] # NULL /\ Reused(cur[p])
    /\ pc[p] = "fault" => cur[p] # NULL /\ (Alone(cur[p]) \/ Elsewhere(p) \/ "yield_null" \in Literal)
    /\ pc[p] = "yield_pop" /\ frame[cur[p]].proc # p => Elsewhere(p)
FaultInv == OwnInv /\ ExitInv /\ LostInv

\* The invariant, what holds besides, and what a step has to keep.
Inv  == ClientInv /\ RunInv /\ ToDoInv /\ SoleInv /\ OnceInv /\ ExecInv /\ RefetchInv /\ LateInv
More == LossInv /\ FaultInv
Kept == Types' /\ Inv' /\ (More => More')

\* What a step of a thread that only goes on leaves alone.
Rest == <<stop, late, frame, tstat, alive, blocked, idle, count, cpc, batch, src, dst>>

\* The history of the tasks that exist only grows, and they are not forgotten.
MarksKept == \A u \in alive : marks[u] \subseteq marks'[u] /\ (Forgotten(u)' => Forgotten(u))


-----------------------------------------------------------------------------
(* Queues *)

\* An element at the end of a queue.
LEMMA AppendFacts ==
  ASSUME NEW s \in Seq(Tasks), NEW x \in Tasks
  PROVE  /\ Append(s, x) \in Seq(Tasks) /\ Range(Append(s, x)) = Range(s) \cup {x}
         /\ Append(s, x) # <<>>
         /\ IsInjective(s) /\ x \notin Range(s) => IsInjective(Append(s, x))
<1>1. /\ Append(s, x) \in Seq(Tasks) /\ Len(Append(s, x)) = Len(s) + 1
      /\ \A i \in 1 .. Len(s) : Append(s, x)[i] = s[i]
      /\ Append(s, x)[Len(s) + 1] = x
  OBVIOUS
<1>2. DOMAIN s = 1 .. Len(s) /\ DOMAIN Append(s, x) = 1 .. Len(s) + 1 /\ Len(s) \in Nat
  BY <1>1
<1>3. \A i \in 1 .. Len(s) + 1 : i \in 1 .. Len(s) \/ i = Len(s) + 1
  BY <1>2
<1>4. Range(Append(s, x)) = Range(s) \cup {x}
  BY <1>1, <1>2, <1>3 DEF Range
<1>5. IsInjective(s) /\ x \notin Range(s) => IsInjective(Append(s, x))
  BY <1>1, <1>2, <1>3 DEF Range, IsInjective
<1> QED
  BY <1>1, <1>4, <1>5

\* The element at the head of a queue.
LEMMA TailFacts ==
  ASSUME NEW s \in Seq(Tasks), s # <<>>
  PROVE  /\ Head(s) \in Tasks /\ Tail(s) \in Seq(Tasks)
         /\ Range(s) = {Head(s)} \cup Range(Tail(s))
         /\ IsInjective(s) => IsInjective(Tail(s)) /\ Head(s) \notin Range(Tail(s))
<1>1. /\ Head(s) = s[1] /\ Tail(s) \in Seq(Tasks) /\ Len(Tail(s)) = Len(s) - 1
      /\ \A i \in 1 .. Len(s) - 1 : Tail(s)[i] = s[i + 1]
      /\ Len(s) \in Nat \ {0} /\ s[1] \in Tasks
  OBVIOUS
<1>2. DOMAIN s = 1 .. Len(s) /\ DOMAIN Tail(s) = 1 .. Len(s) - 1
  BY <1>1
<1>3. \A i \in 1 .. Len(s) : i = 1 \/ (i - 1 \in 1 .. Len(s) - 1 /\ s[i] = Tail(s)[i - 1])
  BY <1>1
<1>4. \A i \in 1 .. Len(s) - 1 : i + 1 \in 1 .. Len(s) /\ i + 1 # 1
  BY <1>1
<1>5. Range(s) = {Head(s)} \cup Range(Tail(s))
  <2>1. \A y \in Range(s) : y = Head(s) \/ y \in Range(Tail(s))
    <3>1. ASSUME NEW i \in 1 .. Len(s) PROVE s[i] = Head(s) \/ s[i] \in Range(Tail(s))
      BY <1>1, <1>2, <1>3 DEF Range
    <3> QED
      BY <1>2, <3>1 DEF Range
  <2>2. \A y \in Range(Tail(s)) : y \in Range(s)
    BY <1>1, <1>2, <1>4 DEF Range
  <2>3. Head(s) \in Range(s)
    BY <1>1, <1>2 DEF Range
  <2> QED
    BY <2>1, <2>2, <2>3
<1>6. ASSUME IsInjective(s) PROVE IsInjective(Tail(s)) /\ Head(s) \notin Range(Tail(s))
  <2>1. \A i, j \in 1 .. Len(s) : s[i] = s[j] => i = j
    BY <1>2, <1>6 DEF IsInjective
  <2>2. IsInjective(Tail(s))
    <3> SUFFICES ASSUME NEW i \in 1 .. Len(s) - 1, NEW j \in 1 .. Len(s) - 1,
         Tail(s)[i] = Tail(s)[j]
                 PROVE  i = j
      BY <1>2 DEF IsInjective
    <3>1. i + 1 = j + 1
      BY <1>1, <1>4, <2>1
    <3> QED
      BY <3>1
  <2>3. Head(s) \notin Range(Tail(s))
    BY <1>1, <1>2, <1>4, <2>1 DEF Range
  <2> QED
    BY <2>2, <2>3
<1> QED
  BY <1>1, <1>5, <1>6

\* Nothing is in an empty queue.
LEMMA EmptyFacts == Range(<<>>) = {} /\ IsInjective(<<>>) /\ <<>> \in Seq(Tasks)
  BY DEF Range, IsInjective

\* A task is put into a runnable queue.
LEMMA Enqueue ==
  ASSUME Types, OnceInv, NEW q \in Procs, NEW x \in Tasks, Queues(x) = {},
         queue' = [queue EXCEPT ![q] = Append(@, x)]
  PROVE  /\ queue' \in [Procs -> Seq(Tasks)] /\ \A p \in Procs : IsInjective(queue'[p])
         /\ \A u \in Tasks : u # x => Queues(u)' = Queues(u)
         /\ Queues(x)' = {q}
         /\ \A p \in Procs : p # q => queue'[p] = queue[p]
<1>1. /\ queue'[q] = Append(queue[q], x) /\ \A p \in Procs : p # q => queue'[p] = queue[p]
      /\ queue[q] \in Seq(Tasks) /\ x \notin Range(queue[q])
  BY DEF Types, Queues
<1>2. /\ queue'[q] \in Seq(Tasks) /\ Range(queue'[q]) = Range(queue[q]) \cup {x}
      /\ IsInjective(queue'[q])
  BY <1>1, AppendFacts DEF OnceInv
<1>3. queue' \in [Procs -> Seq(Tasks)]
  BY <1>1, <1>2 DEF Types
<1>4. \A u \in Tasks : u # x => Queues(u)' = Queues(u)
  BY <1>1, <1>2 DEF Queues
<1>5. Queues(x)' = {q}
  BY <1>1, <1>2 DEF Queues
<1> QED
  BY <1>1, <1>2, <1>3, <1>4, <1>5 DEF OnceInv

\* A task is popped from a runnable queue.
LEMMA Dequeue ==
  ASSUME Types, OnceInv, NEW q \in Procs, NEW x \in Tasks, x = Head(queue[q]), queue[q] # <<>>,
       Sole(x),
         queue' = [queue EXCEPT ![q] = Tail(@)]
  PROVE  /\ queue' \in [Procs -> Seq(Tasks)] /\ \A p \in Procs : IsInjective(queue'[p])
         /\ x \in Tasks /\ q \in Queues(x)
         /\ \A u \in Tasks : u # x => Queues(u)' = Queues(u)
         /\ Queues(x)' = {}
         /\ \A p \in Procs : p # q => queue'[p] = queue[p]
<1>1. /\ queue'[q] = Tail(queue[q]) /\ \A p \in Procs : p # q => queue'[p] = queue[p]
      /\ queue[q] \in Seq(Tasks)
  BY DEF Types
<1>2. /\ x \in Tasks /\ queue'[q] \in Seq(Tasks) /\ Range(queue[q]) = Range(queue'[q]) \cup {x}
      /\ IsInjective(queue'[q]) /\ x \notin Range(queue'[q])
  BY <1>1, TailFacts DEF OnceInv
<1>3. queue' \in [Procs -> Seq(Tasks)]
  BY <1>1, <1>2 DEF Types
<1>4. \A u \in Tasks : u # x => Queues(u)' = Queues(u)
  BY <1>1, <1>2 DEF Queues
<1>5. q \in Queues(x) /\ \A p \in Procs : p # q => p \notin Queues(x)
  BY <1>2 DEF Queues, Sole
<1>6. Queues(x)' = {}
  BY <1>1, <1>2, <1>5 DEF Queues
<1> QED
  BY <1>1, <1>2, <1>3, <1>4, <1>5, <1>6 DEF OnceInv

\* What client c has in hand changes to the sequence b.
LEMMA Hand ==
  ASSUME Types, NEW c \in Clients, NEW b \in Seq(Tasks), batch' = [batch EXCEPT ![c] = b]
  PROVE  /\ batch' \in [Clients -> Seq(Tasks)]
         /\ batch'[c] = b /\ \A d \in Clients : d # c => batch'[d] = batch[d]
         /\ \A u \in Tasks : \A d \in Clients :
              d \in InHand(u)' <=> IF d = c THEN u \in Range(b) ELSE d \in InHand(u)
  BY DEF Types, InHand

\* LastScheToDos_ with at most one function.
LEMMA OneToDo ==
  ASSUME NEW s \in Seq(ToDo), Len(s) <= 1
  PROVE  /\ s # <<>> => Head(s) = s[1] /\ s[1] \in ToDo /\ Tail(s) = <<>> /\ s = <<s[1]>>
         /\ Front(s) = <<>> /\ s \o <<>> = s
<1>1. CASE s = <<>>
  BY <1>1 DEF Front
<1>2. CASE s # <<>>
  <2>1. PICK n \in Nat \ {0} : n = Len(s)
    BY <1>2, EmptySeq, Zenon
  <2>2. Len(s) = 1
    BY <2>1
  <2>3. s = <<s[1]>> /\ s[1] \in ToDo /\ Head(s) = s[1]
    BY <1>2, <2>2
  <2>4. SubSeq(s, 2, 1) = <<>> /\ SubSeq(s, 1, 0) = <<>>
    BY SubSeqEmpty
  <2>5. Tail(s) = SubSeq(s, 2, Len(s))
    BY <1>2, TailIsSubSeq, Zenon
  <2>6. s \o <<>> = s
    BY ConcatEmptySeq, Zenon
  <2> QED
    BY <2>2, <2>3, <2>4, <2>5, <2>6 DEF Front
<1> QED
  BY <1>1, <1>2

\* Who has deferred something about a task.
LEMMA ToDoAt ==
  ASSUME Types, ToDoInv
  PROVE  \A u \in Tasks, p \in Procs : p \in ToDos(u) <=> todos[p] # <<>> /\ todos[p][1].task = u
<1> SUFFICES ASSUME NEW u \in Tasks, NEW p \in Procs
             PROVE  p \in ToDos(u) <=> todos[p] # <<>> /\ todos[p][1].task = u
  OBVIOUS
<1>1. todos[p] \in Seq(ToDo) /\ Len(todos[p]) <= 1
  BY DEF Types, ToDoInv
<1>2. \A i : i \in 1 .. Len(todos[p]) <=> i = 1 /\ todos[p] # <<>>
  BY <1>1
<1> QED
  BY <1>2 DEF ToDos

\* What the thread of p has deferred changes to the sequence b.
LEMMA Defer ==
  ASSUME Types, NEW p \in Procs, NEW b \in Seq(ToDo), Len(b) <= 1,
       todos' = [todos EXCEPT ![p] = b]
  PROVE  /\ todos' \in [Procs -> Seq(ToDo)]
         /\ todos'[p] = b /\ \A q \in Procs : q # p => todos'[q] = todos[q]
         /\ \A u \in Tasks : \A q \in Procs :
              q \in ToDos(u)' <=> IF q = p THEN b # <<>> /\ b[1].task = u ELSE q \in ToDos(u)
<1>1. /\ todos' \in [Procs -> Seq(ToDo)]
      /\ todos'[p] = b /\ \A q \in Procs : q # p => todos'[q] = todos[q]
  BY DEF Types
<1>2. \A i : i \in 1 .. Len(b) <=> i = 1 /\ b # <<>>
  OBVIOUS
<1> QED
  BY <1>1, <1>2 DEF ToDos

-----------------------------------------------------------------------------
(* Parts of the invariant that many steps keep *)

\* The places of u are the ones it had.
Same(u) ==
  /\ Queues(u)' = Queues(u) /\ InHand(u)' = InHand(u) /\ ToDos(u)' = ToDos(u)
  /\ u \in blocked' <=> u \in blocked
  /\ u \in Range(idle') <=> u \in Range(idle)

\* A task that keeps its places is still in at most one.
LEMMA SameSole ==
  ASSUME NEW u \in Tasks, Same(u)
  PROVE  (Sole(u) => Sole(u)') /\ (Somewhere(u)' <=> Somewhere(u))
  BY DEF Same, Sole, Somewhere

\* A task that no thread is in moves from one place to another.
LEMMA Moved ==
  ASSUME Types, SoleInv, ExecInv, UNCHANGED <<pc, cur>>, NEW x \in Tasks,
       \A p \in Procs : cur[p] # x,
         \A u \in Tasks : u # x => Same(u) /\ (u \in alive' <=> u \in alive),
         Sole(x)', Somewhere(x)' => x \in alive'
  PROVE  SoleInv' /\ ExecInv'
<1>1. SoleInv'
  BY SameSole DEF SoleInv
<1>2. ExecInv'
  <2> SUFFICES ASSUME NEW p \in Procs, NEW t \in Tasks, cur'[p] = t
               PROVE  ExecInv!(p, t)!2'
    BY DEF ExecInv
  <2>1. t # x /\ cur[p] = t /\ Same(t) /\ ExecInv!(p, t)!2
    BY DEF ExecInv
  <2> QED
    BY <2>1 DEF Same
<1> QED
  BY <1>1, <1>2

\* What the threads go by does not change.
LEMMA ControlKept ==
  ASSUME Types, RunInv, ToDoInv, ExecInv, RefetchInv, LateInv,
         UNCHANGED <<running, todos, pc, cur, late>>,
         \A p \in Procs : stop[p] => stop'[p],
         \A u \in alive : frame'[u] = frame[u] /\ tstat'[u] = tstat[u],
         \A u \in Tasks : frame'[u] = frame[u] \/ frame'[u].at = "entry"
  PROVE  RunInv' /\ ToDoInv' /\ RefetchInv' /\ LateInv'
<1>1. \A p \in Procs : cur[p] # NULL => frame'[cur[p]] = frame[cur[p]] /\ tstat'[cur[p]] = tstat[cur[p]]
  BY DEF ExecInv, Types
<1>2. RunInv'
  BY DEF RunInv
<1>3. ToDoInv'
  BY <1>1 DEF ToDoInv, Types
<1>4. RefetchInv'
  <2> SUFFICES ASSUME NEW t \in Tasks, frame'[t].at = "refetch"
               PROVE  RefetchInv!(t)!2'
    BY DEF RefetchInv
  <2>1. frame'[t] = frame[t]
    OBVIOUS
  <2> QED
    BY <2>1 DEF RefetchInv
<1>5. LateInv'
  BY <1>1 DEF LateInv, Types
<1> QED
  BY <1>2, <1>3, <1>4, <1>5

\* Nobody's tasks change, only a thread goes on.
LEMMA PlacesKept ==
  ASSUME SoleInv, OnceInv, UNCHANGED <<queue, batch, todos, blocked, idle, alive>>
  PROVE  SoleInv' /\ OnceInv' /\ \A u \in Tasks : Same(u)
<1>1. \A u \in Tasks : Same(u)
  BY DEF Same, Queues, InHand, ToDos
<1> QED
  BY <1>1, SameSole DEF SoleInv, OnceInv

-----------------------------------------------------------------------------
(* Steps of a thread *)

\* A thread goes on to l without touching a task.
LEMMA ControlStep ==
  ASSUME Types, Inv, NEW p \in Procs, NEW l \in Places,
         UNCHANGED <<queue, todos, cur>>, UNCHANGED Rest,
         pc' = [pc EXCEPT ![p] = l], status' \in [Procs -> {"running", "waiting"}],
         running' = running \/ running' = [running EXCEPT ![p] = NULL],
         l \notin {"yield_pop", "after"}, l \in {"body", "yield"} => cur[p] # NULL,
              l \in Main => cur[p] = NULL,
         l \in Main \cup {"body", "gone", "yield"} => todos[p] = <<>>,
         stop[p] /\ pc[p] \in {"after", "loop", "end"} /\ cur[p] = NULL => l \in {"loop", "end"},
         pc[p] = "yield_pop" => frame[cur[p]].proc # p,
         late[p] = 1 => l \in {"body", "yield", "loop", "end", "fault", "gone"},
         marks' \in MarksType, \A u \in Tasks : marks[u] \subseteq marks'[u],
         \A u \in Tasks : Forgotten(u)' => Forgotten(u) \/ (u = cur[p] /\ l = "yield" /\ tstat[u] = "block"),
         More => /\ l = "yield" => pc[p] = "body" /\ running' = running /\ (tstat[cur[p]] = "block" => Forgotten(cur[p])')
                 /\ l = "body" => pc[p] = "after" /\ running' = running
                 /\ pc[p] \in {"yield", "yield_pop", "fault"} => l = "fault"
                 /\ l = "gone" => cur[p] # NULL /\ Reused(cur[p])
                 /\ l = "fault" => cur[p] # NULL /\ (Alone(cur[p]) \/ Elsewhere(p) \/ "yield_null" \in Literal)
  PROVE  Kept
<1>1. ClientInv /\ RunInv /\ ToDoInv /\ SoleInv /\ OnceInv /\ ExecInv /\ RefetchInv /\ LateInv
  BY DEF Inv
<1>2. /\ pc'[p] = l /\ \A q \in Procs : q # p => pc'[q] = pc[q]
      /\ pc' \in [Procs -> Places]
      /\ running'[p] \in {NULL, running[p]} /\ \A q \in Procs : q # p => running'[q] = running[q]
      /\ running' \in [Procs -> Tasks \cup {NULL}]
  BY ZenonT(40) DEF Types
<1>3. Types'
  BY <1>2 DEF Types, Rest
<1>4. ClientInv'
  BY <1>1 DEF ClientInv, Rest
<1>5. RunInv'
  BY <1>1, <1>2 DEF RunInv
<1>6. ToDoInv'
  BY <1>1, <1>2 DEF ToDoInv, Rest
<1>7. SoleInv' /\ OnceInv' /\ \A u \in Tasks : Same(u)
  BY <1>1, PlacesKept DEF Rest
<1>8. ExecInv'
  <2> SUFFICES ASSUME NEW q \in Procs, NEW t \in Tasks, cur'[q] = t
               PROVE  ExecInv!(q, t)!2'
    BY DEF ExecInv
  <2>1. Same(t) /\ ExecInv!(q, t)!2
    BY <1>1, <1>7 DEF ExecInv
  <2>2. l \in Main \cup {"body", "gone"} => p \notin ToDos(t)
    BY <1>1, ToDoAt
  <2>3. pc'[q] \notin {"yield", "yield_pop", "fault"} => ToDos(t) = {}
    BY <1>2, <2>1, <2>2 DEF Places
  <2> QED
    BY <2>1, <2>3 DEF Same, Rest
<1>9. RefetchInv'
  <2> SUFFICES ASSUME NEW t \in Tasks, frame[t].at = "refetch"
               PROVE  RefetchInv!(t)!2'
    BY DEF RefetchInv, Rest
  <2>1. PICK q \in Procs :
          /\ frame[t].proc = q
          /\ \/ cur[q] = t /\ pc[q] = "yield_pop"
             \/ stop[q] /\ cur[q] = NULL /\ pc[q] \in {"after", "loop", "end"}
    BY <1>1 DEF RefetchInv
  <2>2. CASE q = p
    BY <1>2, <2>1, <2>2 DEF Rest
  <2>3. CASE q # p
    BY <1>2, <2>1, <2>3 DEF Rest
  <2> QED
    BY <2>2, <2>3
<1>10. LateInv'
  BY <1>1, <1>2 DEF LateInv, Rest
<1>m. \A u \in Tasks : (Alone(u) => Alone(u)') /\ (Reused(u) => Reused(u)') /\ (Forgotten(u) => Forgotten(u)')
  BY DEF Alone, Reused, Forgotten
<1>c. \A q \in Procs : cur[q] # NULL => cur[q] \in Tasks /\ cur[q] \in alive
  BY <1>1, ProcsAssumption DEF Types, ExecInv
<1>11. ASSUME More PROVE LossInv'
  <2>1. YieldInv /\ PresentInv /\ ForgotInv
    BY <1>11 DEF More, LossInv
  <2>2. YieldInv'
    <3> SUFFICES ASSUME NEW q \in Procs PROVE YieldInv!(q)'
      BY DEF YieldInv
    <3>1. YieldInv!(q)
      BY <2>1 DEF YieldInv
    <3>2. CASE q = p
      BY <1>2, <1>11, <3>2 DEF Rest
    <3>3. CASE q # p
      <4>1. pc'[q] \in {"yield", "yield_pop"} => cur[q] # NULL
        BY <1>2, <3>3 DEF Types
      <4> QED
        BY <1>2, <1>m, <1>c, <3>1, <3>3, <4>1 DEF Rest
    <3> QED
      BY <3>2, <3>3
  <2>3. \A u \in Tasks : Somewhere(u)' <=> Somewhere(u)
    BY <1>7, SameSole
  <2>4. PresentInv'
    BY <1>m, <2>1, <2>3 DEF PresentInv, Executing, Rest, Types
  <2>5. ForgotInv'
    <3> SUFFICES ASSUME NEW t \in alive', Forgotten(t)' PROVE ForgotInv!(t)!2'
      BY DEF ForgotInv
    <3>1. t \in Tasks /\ t \in alive
      BY DEF Rest, Types
    <3>2. CASE Forgotten(t)
      <4>1. ForgotInv!(t)!2
        BY <2>1, <3>1, <3>2 DEF ForgotInv
      <4> QED
        BY <1>2, <1>11, <2>3, <3>1, <4>1 DEF Rest
    <3>3. CASE ~Forgotten(t)
      <4>1. t = cur[p] /\ l = "yield" /\ tstat[t] = "block"
        BY <3>1, <3>3
      <4>2. pc[p] = "body"
        BY <1>11, <4>1
      <4>3. ~Somewhere(t) /\ \A q \in Procs : cur[q] = t => q = p
        BY <1>1, <3>1, <4>1, <4>2 DEF ExecInv, Somewhere
      <4> QED
        BY <1>2, <2>3, <3>1, <4>1, <4>3 DEF Rest
    <3> QED
      BY <3>2, <3>3
  <2> QED
    BY <2>2, <2>4, <2>5 DEF LossInv
<1>12. ASSUME More PROVE FaultInv'
  <2>1. OwnInv /\ ExitInv /\ LostInv
    BY <1>12 DEF More, FaultInv
  <2>2. OwnInv'
    <3> SUFFICES ASSUME NEW q \in Procs, pc'[q] \in {"after", "body", "yield"}
                 PROVE  running'[q] = cur[q] \/ (cur[q] # NULL /\ Alone(cur[q])')
      BY DEF OwnInv
    <3>1. pc[q] \in {"after", "body", "yield"} /\ running'[q] = running[q]
      BY <1>2, <1>12
    <3> QED
      BY <1>m, <1>c, <2>1, <3>1 DEF OwnInv
  <2>3. ExitInv'
    <3> SUFFICES ASSUME NEW t \in alive', frame[t].at = "exit"
                 PROVE  Returning(t)' \/ t \in Range(idle') \/ Reused(t)'
      BY DEF ExitInv, Rest
    <3> QED
      BY <1>m, <2>1 DEF ExitInv, Returning, Rest, Types
  <2>4. LostInv'
    <3> SUFFICES ASSUME NEW q \in Procs PROVE LostInv!(q)'
      BY DEF LostInv
    <3>1. Elsewhere(q) => Elsewhere(q)'
      BY DEF Elsewhere, Rest
    <3>2. LostInv!(q)
      BY <2>1 DEF LostInv
    <3>3. CASE q = p
      BY <1>2, <1>12, <1>m, <1>c, <3>1, <3>3 DEF Places
    <3>4. CASE q # p
      <4>1. pc'[q] = pc[q] /\ cur'[q] = cur[q]
        BY <1>2, <3>4
      <4>2. pc[q] = "yield_pop" => cur[q] # NULL
        BY DEF Types
      <4> QED
        BY <1>m, <1>c, <3>1, <3>2, <4>1, <4>2 DEF Rest
    <3> QED
      BY <3>3, <3>4
  <2> QED
    BY <2>2, <2>3, <2>4 DEF FaultInv
<1> QED
  BY <1>3, <1>4, <1>5, <1>6, <1>7, <1>8, <1>9, <1>10, <1>11, <1>12 DEF Inv, Kept, More

\* The threads stay where they are, and a task that changes places has a new one.
LEMMA MoreKept ==
  ASSUME Types, Inv, More, UNCHANGED <<running, todos, pc, cur>>,
         \A p \in Procs : stop[p] => stop'[p],
         \A u \in alive : frame'[u] = frame[u] /\ tstat'[u] = tstat[u],
         alive' \subseteq Tasks, MarksKept,
         \A u \in alive' : u \in alive \/ (frame'[u].at = "entry" /\ ~Forgotten(u)' /\ Somewhere(u)'),
         \A u \in alive' : u \in alive => (Somewhere(u)' <=> Somewhere(u)),
         \A u \in alive' : u \in alive /\ u \in Range(idle) => u \in Range(idle') \/ Reused(u)'
  PROVE  More'
<1>1. \A p \in Procs : cur[p] # NULL => /\ cur[p] \in alive
                                        /\ frame'[cur[p]] = frame[cur[p]] /\ tstat'[cur[p]] = tstat[cur[p]]
  BY DEF Inv, ExecInv, Types
<1>2. \A p \in Procs : pc[p] \in {"yield", "yield_pop"} => cur[p] # NULL
  BY DEF Types
<1>m. \A u \in alive : (Alone(u) => Alone(u)') /\ (Reused(u) => Reused(u)') /\ (Forgotten(u)' <=> Forgotten(u))
  BY DEF MarksKept, Alone, Reused, Forgotten
<1>3. LossInv'
  <2>1. YieldInv /\ PresentInv /\ ForgotInv
    BY DEF More, LossInv
  <2>2. YieldInv'
    BY <1>1, <1>2, <1>m, <2>1 DEF YieldInv
  <2>3. PresentInv'
    BY <1>m, <2>1 DEF PresentInv, Executing
  <2>4. ForgotInv'
    <3> SUFFICES ASSUME NEW t \in alive', Forgotten(t)' PROVE ForgotInv!(t)!2'
      BY DEF ForgotInv
    <3>1. t \in alive /\ Forgotten(t)
      BY <1>m
    <3>2. ForgotInv!(t)!2
      BY <2>1, <3>1 DEF ForgotInv
    <3> QED
      BY <3>1, <3>2
  <2> QED
    BY <2>2, <2>3, <2>4 DEF LossInv
<1>4. FaultInv'
  <2>1. OwnInv /\ ExitInv /\ LostInv
    BY DEF More, FaultInv
  <2>2. OwnInv'
    BY <1>1, <1>m, <2>1 DEF OwnInv
  <2>3. ExitInv'
    BY <1>m, <2>1 DEF ExitInv, Returning
  <2>4. LostInv'
    <3> SUFFICES ASSUME NEW p \in Procs PROVE LostInv!(p)'
      BY DEF LostInv
    <3>1. LostInv!(p)
      BY <2>1 DEF LostInv
    <3>2. cur[p] # NULL /\ Elsewhere(p) => Elsewhere(p)'
      BY <1>1 DEF Elsewhere
    <3> QED
      BY <1>1, <1>2, <1>m, <3>1, <3>2
  <2> QED
    BY <2>2, <2>3, <2>4 DEF FaultInv
<1> QED
  BY <1>3, <1>4 DEF More

\* Start begins.
LEMMA StartStep == ASSUME Types, Inv, NEW p \in Procs, Start(p) PROVE Kept
<1>1. PICK l : l = "loop"
  OBVIOUS
<1>2. /\ pc' = [pc EXCEPT ![p] = l] /\ status' \in [Procs -> {"running", "waiting"}]
      /\ UNCHANGED <<queue, todos, cur, running>> /\ UNCHANGED Rest
  BY <1>1 DEF Start, Goto, Rest, object, thread, task, client, Types
<1>3. /\ pc[p] # "yield_pop" /\ l \in Places /\ l \notin {"yield_pop", "after"}
      /\ l \in {"body", "yield"} => cur[p] # NULL
      /\ l \in Main => cur[p] = NULL
      /\ l \in Main \cup {"body", "gone", "yield"} => todos[p] = <<>>
  BY <1>1 DEF Start, Main, Places, Types, Inv, ToDoInv
<1>4. /\ stop[p] /\ pc[p] \in {"after", "loop", "end"} /\ cur[p] = NULL => l \in {"loop", "end"}
      /\ late[p] = 1 => l \in {"body", "yield", "loop", "end", "fault", "gone"}
  BY <1>1 DEF Start, Main, Types, Inv, LateInv
<1>5. /\ marks' \in MarksType /\ (\A u \in Tasks : marks[u] \subseteq marks'[u])
      /\ \A u \in Tasks : Forgotten(u)' => Forgotten(u) \/ (u = cur[p] /\ l = "yield" /\ tstat[u] = "block")
  BY <1>1 DEF Start, task, Types, Forgotten
<1>6. /\ l = "yield" => pc[p] = "body" /\ (tstat[cur[p]] = "block" => Forgotten(cur[p])')
      /\ l = "body" => pc[p] = "after"
      /\ pc[p] \in {"yield", "yield_pop", "fault"} => l = "fault"
      /\ l # "gone" /\ l # "fault"
  BY <1>1 DEF Start
<1> QED
  BY <1>2, <1>3, <1>4, <1>5, <1>6, ControlStep

\* The test of the loop: a thread that is late finds stop_ set.
LEMMA LoopStep == ASSUME Types, Inv, NEW p \in Procs, Loop(p) PROVE Kept
<1>1. PICK l : l = IF stop[p] THEN "end" ELSE "pop"
  OBVIOUS
<1>2. /\ pc' = [pc EXCEPT ![p] = l] /\ status' \in [Procs -> {"running", "waiting"}]
      /\ UNCHANGED <<queue, todos, cur, running>> /\ UNCHANGED Rest
  BY <1>1 DEF Loop, LoopEnds, Goto, Rest, object, thread, task, client, Types
<1>3. /\ pc[p] # "yield_pop" /\ l \in Places /\ l \notin {"yield_pop", "after"}
      /\ l \in {"body", "yield"} => cur[p] # NULL
      /\ l \in Main => cur[p] = NULL
      /\ l \in Main \cup {"body", "gone", "yield"} => todos[p] = <<>>
  BY <1>1 DEF Loop, Main, Places, Types, Inv, ToDoInv
<1>4. /\ stop[p] /\ pc[p] \in {"after", "loop", "end"} /\ cur[p] = NULL => l \in {"loop", "end"}
      /\ late[p] = 1 => l \in {"body", "yield", "loop", "end", "fault", "gone"}
  BY <1>1 DEF Loop, Main, Types, Inv, LateInv
<1>5. /\ marks' \in MarksType /\ (\A u \in Tasks : marks[u] \subseteq marks'[u])
      /\ \A u \in Tasks : Forgotten(u)' => Forgotten(u) \/ (u = cur[p] /\ l = "yield" /\ tstat[u] = "block")
  BY <1>1 DEF Loop, task, Types, Forgotten
<1>6. /\ l = "yield" => pc[p] = "body" /\ (tstat[cur[p]] = "block" => Forgotten(cur[p])')
      /\ l = "body" => pc[p] = "after"
      /\ pc[p] \in {"yield", "yield_pop", "fault"} => l = "fault"
      /\ l # "gone" /\ l # "fault"
  BY <1>1 DEF Loop
<1> QED
  BY <1>2, <1>3, <1>4, <1>5, <1>6, ControlStep

\* Wait takes the mutex.
LEMMA WaitLockStep == ASSUME Types, Inv, NEW p \in Procs, WaitLock(p) PROVE Kept
<1>1. PICK l : l = "wait_pop"
  OBVIOUS
<1>2. /\ pc' = [pc EXCEPT ![p] = l] /\ status' \in [Procs -> {"running", "waiting"}]
      /\ UNCHANGED <<queue, todos, cur, running>> /\ UNCHANGED Rest
  BY <1>1 DEF WaitLock, Goto, Rest, object, thread, task, client, Types
<1>3. /\ pc[p] # "yield_pop" /\ l \in Places /\ l \notin {"yield_pop", "after"}
      /\ l \in {"body", "yield"} => cur[p] # NULL
      /\ l \in Main => cur[p] = NULL
      /\ l \in Main \cup {"body", "gone", "yield"} => todos[p] = <<>>
  BY <1>1 DEF WaitLock, Main, Places, Types, Inv, ToDoInv
<1>4. /\ stop[p] /\ pc[p] \in {"after", "loop", "end"} /\ cur[p] = NULL => l \in {"loop", "end"}
      /\ late[p] = 1 => l \in {"body", "yield", "loop", "end", "fault", "gone"}
  BY <1>1 DEF WaitLock, Main, Types, Inv, LateInv
<1>5. /\ marks' \in MarksType /\ (\A u \in Tasks : marks[u] \subseteq marks'[u])
      /\ \A u \in Tasks : Forgotten(u)' => Forgotten(u) \/ (u = cur[p] /\ l = "yield" /\ tstat[u] = "block")
  BY <1>1 DEF WaitLock, task, Types, Forgotten
<1>6. /\ l = "yield" => pc[p] = "body" /\ (tstat[cur[p]] = "block" => Forgotten(cur[p])')
      /\ l = "body" => pc[p] = "after"
      /\ pc[p] \in {"yield", "yield_pop", "fault"} => l = "fault"
      /\ l # "gone" /\ l # "fault"
  BY <1>1 DEF WaitLock
<1> QED
  BY <1>2, <1>3, <1>4, <1>5, <1>6, ControlStep

\* Wait goes to sleep.
LEMMA ParkStep == ASSUME Types, Inv, NEW p \in Procs, Park(p) PROVE Kept
<1>1. PICK l : l = "parked"
  OBVIOUS
<1>2. /\ pc' = [pc EXCEPT ![p] = l] /\ status' \in [Procs -> {"running", "waiting"}]
      /\ UNCHANGED <<queue, todos, cur, running>> /\ UNCHANGED Rest
  BY <1>1 DEF Park, Goto, Rest, object, thread, task, client, Types
<1>3. /\ pc[p] # "yield_pop" /\ l \in Places /\ l \notin {"yield_pop", "after"}
      /\ l \in {"body", "yield"} => cur[p] # NULL
      /\ l \in Main => cur[p] = NULL
      /\ l \in Main \cup {"body", "gone", "yield"} => todos[p] = <<>>
  BY <1>1 DEF Park, Main, Places, Types, Inv, ToDoInv
<1>4. /\ stop[p] /\ pc[p] \in {"after", "loop", "end"} /\ cur[p] = NULL => l \in {"loop", "end"}
      /\ late[p] = 1 => l \in {"body", "yield", "loop", "end", "fault", "gone"}
  BY <1>1 DEF Park, Main, Types, Inv, LateInv
<1>5. /\ marks' \in MarksType /\ (\A u \in Tasks : marks[u] \subseteq marks'[u])
      /\ \A u \in Tasks : Forgotten(u)' => Forgotten(u) \/ (u = cur[p] /\ l = "yield" /\ tstat[u] = "block")
  BY <1>1 DEF Park, task, Types, Forgotten
<1>6. /\ l = "yield" => pc[p] = "body" /\ (tstat[cur[p]] = "block" => Forgotten(cur[p])')
      /\ l = "body" => pc[p] = "after"
      /\ pc[p] \in {"yield", "yield_pop", "fault"} => l = "fault"
      /\ l # "gone" /\ l # "fault"
  BY <1>1 DEF Park
<1> QED
  BY <1>2, <1>3, <1>4, <1>5, <1>6, ControlStep

\* AfterLastSche is done.
LEMMA AfterDoneStep == ASSUME Types, Inv, NEW p \in Procs, AfterDone(p) PROVE Kept
<1>1. PICK l : l = IF cur[p] = NULL THEN "loop" ELSE IF frame[cur[p]].at = "exit" THEN "gone" ELSE "body"
  OBVIOUS
<1>2. /\ pc' = [pc EXCEPT ![p] = l] /\ status' \in [Procs -> {"running", "waiting"}]
      /\ UNCHANGED <<queue, todos, cur, running>> /\ UNCHANGED Rest
  BY <1>1 DEF AfterDone, Goto, Rest, object, thread, task, client, Types
<1>3. /\ pc[p] # "yield_pop" /\ l \in Places /\ l \notin {"yield_pop", "after"}
      /\ l \in {"body", "yield"} => cur[p] # NULL
      /\ l \in Main => cur[p] = NULL
      /\ l \in Main \cup {"body", "gone", "yield"} => todos[p] = <<>>
  BY <1>1 DEF AfterDone, Main, Places, Types, Inv, ToDoInv
<1>4. /\ stop[p] /\ pc[p] \in {"after", "loop", "end"} /\ cur[p] = NULL => l \in {"loop", "end"}
      /\ late[p] = 1 => l \in {"body", "yield", "loop", "end", "fault", "gone"}
  BY <1>1 DEF AfterDone, Main, Types, Inv, LateInv
<1>5. marks' = marks
  BY DEF AfterDone, task
<1>6. ASSUME More
      PROVE  /\ l \notin {"yield", "fault"} /\ pc[p] = "after"
             /\ l = "gone" => cur[p] # NULL /\ Reused(cur[p])
  <2>1. l \notin {"yield", "fault"} /\ pc[p] = "after" /\ (l = "gone" => cur[p] # NULL)
    BY <1>1 DEF AfterDone
  <2>2. ASSUME l = "gone" PROVE Reused(cur[p])
    <3>1. PICK t \in Tasks : t = cur[p] /\ t \in alive /\ ToDos(t) = {} /\ t \notin Range(idle) /\ frame[t].at = "exit"
      BY <1>1, <2>2, ZenonT(40) DEF AfterDone, Types, Inv, ExecInv
    <3>2. ~Returning(t)
      BY <3>1, ToDoAt DEF Inv, Returning
    <3> QED
      BY <1>6, <3>1, <3>2 DEF More, FaultInv, ExitInv
  <2> QED
    BY <2>1, <2>2
<1>7. /\ marks' \in MarksType /\ (\A u \in Tasks : marks[u] \subseteq marks'[u])
      /\ \A u \in Tasks : Forgotten(u)' => Forgotten(u)
  BY <1>5 DEF Types, Forgotten
<1> QED
  BY <1>2, <1>3, <1>4, <1>6, <1>7, ControlStep

\* A coroutine yields of its own accord.
LEMMA YieldCallStep == ASSUME Types, Inv, NEW p \in Procs, YieldCall(p) PROVE Kept
<1>1. PICK l : l = "yield"
  OBVIOUS
<1>2. /\ pc' = [pc EXCEPT ![p] = l] /\ status' \in [Procs -> {"running", "waiting"}]
      /\ UNCHANGED <<queue, todos, cur, running>> /\ UNCHANGED Rest
  BY <1>1 DEF YieldCall, Goto, Rest, object, client, Types
<1>3. /\ pc[p] # "yield_pop" /\ l \in Places /\ l \notin {"yield_pop", "after"}
      /\ l \in {"body", "yield"} => cur[p] # NULL
      /\ l \in Main => cur[p] = NULL
      /\ l \in Main \cup {"body", "gone", "yield"} => todos[p] = <<>>
  BY <1>1 DEF YieldCall, Main, Places, Types, Inv, ToDoInv
<1>4. /\ stop[p] /\ pc[p] \in {"after", "loop", "end"} /\ cur[p] = NULL => l \in {"loop", "end"}
      /\ late[p] = 1 => l \in {"body", "yield", "loop", "end", "fault", "gone"}
  BY <1>1 DEF YieldCall, Main, Types, Inv, LateInv
<1>5. PICK t \in Tasks : t = cur[p]
  BY <1>1 DEF YieldCall, Types
<1>6. /\ marks' = marks \/ (tstat[t] = "block" /\ marks' = [marks EXCEPT ![t] = @ \cup {"forgotten"}])
      /\ tstat[t] = "block" => marks' = [marks EXCEPT ![t] = @ \cup {"forgotten"}]
  BY <1>5 DEF YieldCall, Mark
<1>7. /\ marks' \in MarksType /\ (\A u \in Tasks : marks[u] \subseteq marks'[u])
      /\ \A u \in Tasks : Forgotten(u)' => Forgotten(u) \/ (u = cur[p] /\ tstat[u] = "block")
      /\ tstat[t] = "block" => Forgotten(t)'
  <2>1. CASE marks' = marks /\ tstat[t] # "block"
    BY <2>1 DEF Types, Forgotten
  <2>2. CASE tstat[t] = "block" /\ marks' = [marks EXCEPT ![t] = @ \cup {"forgotten"}]
    <3>1. /\ marks'[t] = marks[t] \cup {"forgotten"} /\ \A u \in Tasks : u # t => marks'[u] = marks[u]
          /\ marks' \in MarksType
      BY <2>2 DEF Types, MarksType
    <3> QED
      BY <1>5, <2>2, <3>1 DEF Forgotten
  <2> QED
    BY <1>6, <2>1, <2>2
<1>8. pc[p] = "body"
  BY DEF YieldCall
<1> QED
  BY <1>1, <1>2, <1>3, <1>4, <1>5, <1>7, <1>8, ControlStep

\* pop() finds nothing, in Start and in Wait.
LEMMA PopEmptyStep ==
  ASSUME Types, Inv, NEW p \in Procs, NEW l \in {"wait", "wait_park", "loop"},
         pc[p] \in {"pop", "wait_pop", "parked"}, PopEmpty(p, l),
         UNCHANGED <<status, stop, todos, task, cpc, batch, src, dst, calls>>
  PROVE  Kept
<1>1. /\ pc' = [pc EXCEPT ![p] = l] /\ status' \in [Procs -> {"running", "waiting"}]
      /\ running' = [running EXCEPT ![p] = NULL]
      /\ UNCHANGED <<queue, todos, cur>> /\ UNCHANGED Rest
  BY DEF PopEmpty, Goto, Rest, task, Types
<1>2. l \in Places /\ l \in Main /\ cur[p] = NULL /\ todos[p] = <<>> /\ late[p] # 1
  BY DEF Main, Places, Types, Inv, ToDoInv, LateInv
<1>3. /\ marks' \in MarksType /\ (\A u \in Tasks : marks[u] \subseteq marks'[u])
      /\ \A u \in Tasks : Forgotten(u)' => Forgotten(u)
  BY DEF task, Types, Forgotten
<1> QED
  BY <1>1, <1>2, <1>3, ControlStep DEF Main

\* A thread pops a task and switches to it, from Start, Wait or Yield: nobody is
\* in that task, and its saved context is not one of a Yield on this thread.
LEMMA SwapStep ==
  ASSUME Types, Inv, NEW p \in Procs, PopAndSwap(p),
         pc[p] \in {"pop", "wait_pop", "parked", "yield_pop"},
         pc[p] = "yield_pop" => frame[cur[p]].proc = p,
         UNCHANGED <<stop, todos, tstat, alive, blocked, idle, count, marks, cpc, batch, src, dst>>,
         status' \in [Procs -> {"running", "waiting"}],
         frame' \in [Tasks -> [at : {"entry", "refetch", "body", "exit"},
              proc : Procs \cup {NULL}]],
         \A u \in Tasks : IF u = cur[p] THEN frame'[u].at # "refetch" ELSE frame'[u] = frame[u],
         pc[p] = "yield_pop" /\ frame'[cur[p]].at = "exit" => tstat[cur[p]] = "done"
  PROVE  Kept
<1>1. ClientInv /\ RunInv /\ ToDoInv /\ SoleInv /\ OnceInv /\ ExecInv /\ RefetchInv /\ LateInv
  BY DEF Inv
<1>2. PICK x : x = Head(queue[p])
  OBVIOUS
<1>3. x \in Tasks /\ queue[p] # <<>> /\ queue' = [queue EXCEPT ![p] = Tail(@)]
  BY <1>2, TailFacts DEF PopAndSwap, Types
<1>4. /\ queue' \in [Procs -> Seq(Tasks)] /\ \A q \in Procs : IsInjective(queue'[q])
      /\ p \in Queues(x) /\ Queues(x)' = {}
      /\ \A u \in Tasks : u # x => Queues(u)' = Queues(u)
  <2>1. Sole(x) /\ OnceInv /\ x = Head(queue[p])
    BY <1>1, <1>2, <1>3 DEF SoleInv
  <2> QED
    BY <1>3, <2>1, Dequeue, ZenonT(60)
<1>5. /\ InHand(x) = {} /\ ToDos(x) = {} /\ x \notin blocked /\ x \notin Range(idle) /\ x \in alive
      /\ \A q \in Procs : cur[q] # x
  BY <1>1, <1>3, <1>4 DEF SoleInv, Sole, Somewhere, ExecInv
<1>6. /\ running' = [running EXCEPT ![p] = x] /\ cur' = [cur EXCEPT ![p] = x]
      /\ late' = [late EXCEPT ![p] = IF stop[p] THEN @ + 1 ELSE @]
      /\ pc' = [pc EXCEPT ![p] = IF frame[x].at = "refetch" THEN "yield_pop" ELSE "after"]
  BY <1>2 DEF PopAndSwap, SwapTo, Goto
<1>7. /\ cur'[p] = x /\ running'[p] = x /\ x # NULL
      /\ pc'[p] = IF frame[x].at = "refetch" THEN "yield_pop" ELSE "after"
      /\ \A q \in Procs : q # p => running'[q] = running[q] /\ cur'[q] = cur[q] /\ pc'[q] = pc[q]
      /\ pc' \in [Procs -> Places] /\ cur' \in [Procs -> Tasks \cup {NULL}]
      /\ running' \in [Procs -> Tasks \cup {NULL}]
  BY <1>3, <1>6, ProcsAssumption DEF Types, Places
<1>8. /\ \A q \in Procs : q # p => late'[q] = late[q]
      /\ late' \in [Procs -> Nat] /\ late'[p] <= 1 /\ (late'[p] = 1 => stop[p])
  <2>1. late[p] = 0
    <3>1. late[p] # 1 /\ late[p] <= 1
      BY <1>1 DEF LateInv
    <3>2. late[p] \in Nat
      BY DEF Types
    <3> QED
      BY <3>1, <3>2
  <2>2. late'[p] = IF stop[p] THEN late[p] + 1 ELSE late[p]
    BY <1>6 DEF Types
  <2>3. \A q \in Procs : q # p => late'[q] = late[q]
    BY <1>6 DEF Types
  <2>4. late' \in [Procs -> Nat]
    BY <1>6 DEF Types
  <2> QED
    BY <2>1, <2>2, <2>3, <2>4
<1>9. frame[x].at = "refetch" => frame[x].proc # p
  BY <1>1, <1>3, <1>5 DEF RefetchInv
<1>10. frame'[x] = frame[x]
  BY <1>3, <1>5
<1>11. Types'
  <2>1. \A q \in Procs : /\ pc'[q] \in {"body", "yield", "yield_pop"} => cur'[q] # NULL
                         /\ pc'[q] \in Main => cur'[q] = NULL
    <3> TAKE q \in Procs
    <3>1. CASE q = p
      BY <1>7, <3>1 DEF Main
    <3>2. CASE q # p
      BY <1>7, <3>2 DEF Types
    <3> QED
      BY <3>1, <3>2
  <2> QED
    BY <1>4, <1>7, <1>8, <2>1 DEF Types
<1>12. ClientInv'
  BY <1>1 DEF ClientInv
<1>13. RunInv'
  BY <1>1, <1>7 DEF RunInv
<1>14. \A q \in Procs : q # p /\ cur[q] # NULL => frame'[cur[q]] = frame[cur[q]]
  BY <1>1 DEF ExecInv, Types
<1>15. ToDoInv'
  <2> SUFFICES ASSUME NEW q \in Procs
               PROVE  ToDoInv!(q)'
    BY DEF ToDoInv
  <2>1. ToDoInv!(q)
    BY <1>1 DEF ToDoInv
  <2>2. CASE q = p
    BY <1>7, <1>9, <1>10, <2>1, <2>2 DEF Main
  <2>3. CASE q # p
    <3>1. pc'[q] = pc[q] /\ cur'[q] = cur[q] /\ running'[q] = running[q]
      BY <1>7, <2>3
    <3>2. pc[q] = "yield_pop" => frame'[cur[q]] = frame[cur[q]]
      BY <1>14, <2>3 DEF Types
    <3> QED
      BY <2>1, <3>1, <3>2
  <2> QED
    BY <2>2, <2>3
<1>16. \A u \in Tasks : ToDos(u)' = ToDos(u) /\ InHand(u)' = InHand(u)
  BY DEF ToDos, InHand
<1>17. SoleInv'
  <2>1. Sole(x)'
    <3>1. Queues(x)' = {} /\ InHand(x)' = {} /\ ToDos(x)' = {}
      BY <1>3, <1>4, <1>5, <1>16
    <3>2. x \notin blocked' /\ x \notin Range(idle')
      BY <1>5
    <3> QED
      BY <3>1, <3>2 DEF Sole
  <2>2. \A u \in Tasks : u # x => Same(u)
    BY <1>4, <1>16 DEF Same
  <2> QED
    BY <1>1, <1>5, <2>1, <2>2, SameSole DEF SoleInv
<1>18. OnceInv'
  BY <1>1, <1>4 DEF OnceInv, client
<1>19. ExecInv'
  <2> SUFFICES ASSUME NEW q \in Procs, NEW t \in Tasks, cur'[q] = t
               PROVE  ExecInv!(q, t)!2'
    BY DEF ExecInv
  <2>1. CASE q = p
    <3>1. t = x
      BY <1>7, <2>1
    <3> QED
      BY <1>4, <1>5, <1>7, <1>16, <2>1, <3>1, ZenonT(40)
  <2>2. CASE q # p
    <3>1. cur[q] = t /\ t # x /\ pc'[q] = pc[q]
      BY <1>5, <1>7, <2>2
    <3>2. ExecInv!(q, t)!2
      BY <1>1, <3>1 DEF ExecInv
    <3>3. \A r \in Procs : cur'[r] = t => r = q
      BY <1>7, <3>1, <3>2
    <3> QED
      BY <1>4, <1>16, <3>1, <3>2, <3>3
  <2> QED
    BY <2>1, <2>2
<1>20. RefetchInv'
  <2> SUFFICES ASSUME NEW t \in Tasks, frame'[t].at = "refetch"
               PROVE  RefetchInv!(t)!2'
    BY DEF RefetchInv
  <2>1. t # cur[p] /\ frame'[t] = frame[t]
    OBVIOUS
  <2>2. PICK q \in Procs :
          /\ frame[t].proc = q
          /\ \/ cur[q] = t /\ pc[q] = "yield_pop"
             \/ stop[q] /\ cur[q] = NULL /\ pc[q] \in {"after", "loop", "end"}
    BY <1>1, <2>1 DEF RefetchInv
  <2>3. q # p
    BY <2>1, <2>2
  <2> QED
    BY <1>7, <2>1, <2>2, <2>3
<1>21. LateInv'
  <2> SUFFICES ASSUME NEW q \in Procs
               PROVE  LateInv!(q)'
    BY DEF LateInv
  <2>1. LateInv!(q)
    BY <1>1 DEF LateInv
  <2>2. CASE q = p
    BY <1>7, <1>8, <1>9, <1>10, <2>2
  <2>3. CASE q # p
    <3>1. pc'[q] = pc[q] /\ cur'[q] = cur[q] /\ late'[q] = late[q]
      BY <1>7, <1>8, <2>3
    <3>2. pc[q] = "yield_pop" => frame'[cur[q]] = frame[cur[q]]
      BY <1>14, <2>3 DEF Types
    <3> QED
      BY <2>1, <3>1, <3>2
  <2> QED
    BY <2>2, <2>3
<1>m. \A u : /\ Forgotten(u)' <=> Forgotten(u)
             /\ Alone(u)' <=> Alone(u)
             /\ Reused(u)' <=> Reused(u)
  BY DEF Forgotten, Alone, Reused
<1>22. ASSUME More, pc[p] = "yield_pop"
       PROVE  /\ todos[p] # <<>> \/ Forgotten(cur[p])
              /\ todos[p] # <<>> => todos[p][1].task = cur[p]
              /\ tstat[cur[p]] = "done" => todos[p] # <<>> /\ todos[p][1].kind = "release"
  BY <1>1, <1>22 DEF More, LossInv, YieldInv, ToDoInv
<1>s. \A t \in Tasks : t # x => Same(t)
  BY <1>4, <1>16 DEF Same
<1>23. ASSUME More PROVE LossInv'
  <2>1. YieldInv /\ PresentInv /\ ForgotInv
    BY <1>23 DEF More, LossInv
  <2>2. YieldInv'
    <3> SUFFICES ASSUME NEW q \in Procs
                 PROVE  YieldInv!(q)'
      BY DEF YieldInv
    <3>1. CASE q = p
      BY <1>7, <1>9, <1>10, <3>1
    <3>2. CASE q # p
      <4>1. pc'[q] = pc[q] /\ cur'[q] = cur[q]
        BY <1>7, <3>2
      <4>2. pc[q] = "yield_pop" => frame'[cur[q]] = frame[cur[q]]
        BY <1>14, <3>2 DEF Types
      <4> QED
        BY <1>m, <2>1, <4>1, <4>2 DEF YieldInv
    <3> QED
      BY <3>1, <3>2
  <2>3. ASSUME NEW t \in alive PROVE Executing(t)' # {} \/ Somewhere(t)' \/ Forgotten(t)'
    <3>1. t \in Tasks
      BY DEF Types
    <3>2. CASE t = x
      BY <1>7, <3>2 DEF Executing
    <3>3. CASE t = cur[p] /\ t # x
      <4>1. pc[p] = "yield_pop"
        BY <3>1, <3>3, ProcsAssumption DEF Types, Main
      <4>2. p \in ToDos(t) \/ Forgotten(t)
        BY <1>1, <1>22, <1>23, <3>1, <3>3, <4>1, ToDoAt
      <4> QED
        BY <1>m, <1>16, <3>1, <4>2 DEF Somewhere
    <3>4. CASE t # x /\ t # cur[p]
      <4>1. Executing(t) # {} => Executing(t)' # {}
        BY <1>7, <3>4 DEF Executing
      <4> QED
        BY <1>m, <1>s, <2>1, <3>1, <3>4, <4>1, SameSole DEF PresentInv
    <3> QED
      BY <3>2, <3>3, <3>4
  <2>4. ForgotInv'
    <3> SUFFICES ASSUME NEW t \in alive, Forgotten(t) PROVE ForgotInv!(t)!2'
      BY <1>m DEF ForgotInv
    <3>1. t \in Tasks /\ ForgotInv!(t)!2
      BY <2>1 DEF ForgotInv, Types
    <3>2. t # x
      BY <1>4, <3>1 DEF Somewhere
    <3>3. ~Somewhere(t)'
      BY <1>s, <3>1, <3>2, SameSole
    <3>4. \A q \in Procs : cur'[q] = t => pc'[q] \in {"yield", "yield_pop", "fault"}
      BY <1>7, <3>1, <3>2
    <3> QED
      BY <3>1, <3>3, <3>4
  <2> QED
    BY <2>2, <2>3, <2>4 DEF LossInv, PresentInv
<1>24. ASSUME More PROVE FaultInv'
  <2>1. OwnInv /\ ExitInv /\ LostInv
    BY <1>24 DEF More, FaultInv
  <2>2. OwnInv'
    <3> SUFFICES ASSUME NEW q \in Procs PROVE OwnInv!(q)'
      BY DEF OwnInv
    <3>1. CASE q = p
      BY <1>7, <3>1
    <3>2. CASE q # p
      BY <1>m, <1>7, <2>1, <3>2 DEF OwnInv
    <3> QED
      BY <3>1, <3>2
  <2>r. \A t : Returning(t)' <=> Returning(t)
    BY DEF Returning
  <2>3. ExitInv'
    <3> SUFFICES ASSUME NEW t \in alive, frame'[t].at = "exit"
                 PROVE  Returning(t) \/ t \in Range(idle) \/ Reused(t)
      BY <1>m, <2>r DEF ExitInv
    <3>1. t \in Tasks
      BY DEF Types
    <3>2. CASE t = cur[p]
      <4>1. pc[p] = "yield_pop"
        BY <3>1, <3>2, ProcsAssumption DEF Types, Main
      <4> QED
        BY <1>22, <1>24, <3>2, <4>1 DEF Returning
    <3>3. CASE t # cur[p]
      BY <2>1, <3>1, <3>3 DEF ExitInv
    <3> QED
      BY <3>2, <3>3
  <2>4. LostInv'
    <3> SUFFICES ASSUME NEW q \in Procs PROVE LostInv!(q)'
      BY DEF LostInv
    <3>1. CASE q = p
      <4>1. ASSUME pc'[p] = "yield_pop" PROVE Elsewhere(p)'
        <5>1. frame[x].at = "refetch"
          BY <1>7, <4>1
        <5>2. PICK r \in Procs : frame[x].proc = r /\ stop[r]
          BY <1>1, <1>3, <1>5, <5>1 DEF RefetchInv
        <5>3. r # p
          BY <1>9, <5>1, <5>2
        <5> QED
          BY <1>7, <1>10, <5>2, <5>3 DEF Elsewhere
      <4>2. pc'[p] \notin {"gone", "fault"}
        BY <1>7
      <4> QED
        BY <3>1, <4>1, <4>2
    <3>2. CASE q # p
      <4>1. pc'[q] = pc[q] /\ cur'[q] = cur[q]
        BY <1>7, <3>2
      <4>2. cur[q] # NULL => frame'[cur[q]] = frame[cur[q]]
        BY <1>14, <3>2
      <4>3. cur[q] # NULL /\ Elsewhere(q) => Elsewhere(q)'
        BY <4>1, <4>2 DEF Elsewhere
      <4>4. pc[q] = "yield_pop" => cur[q] # NULL
        BY DEF Types
      <4> QED
        BY <1>m, <2>1, <4>1, <4>2, <4>3, <4>4 DEF LostInv
    <3> QED
      BY <3>1, <3>2
  <2> QED
    BY <2>2, <2>3, <2>4 DEF FaultInv
<1> QED
  BY <1>11, <1>12, <1>13, <1>15, <1>17, <1>18, <1>19, <1>20, <1>21, <1>23, <1>24 DEF Inv, Kept,
       More

\* The three looks at the queue from the loop and from Wait.
LEMMA PopStep ==
  ASSUME Types, Inv, NEW p \in Procs, Pop(p) \/ WaitPop(p) \/ Woken(p)
  PROVE  Kept
<1>1. cur[p] = NULL /\ pc[p] \in {"pop", "wait_pop", "parked"}
  BY DEF Pop, WaitPop, Woken, Types, Main
<1>2. UNCHANGED <<stop, todos, task, cpc, batch, src, dst, calls>> /\ status' \in [Procs -> {"running",
     "waiting"}]
  <2>1. CASE WaitPop(p)
    BY <2>1 DEF WaitPop, client, Types
  <2> QED
    BY <2>1 DEF Pop, Woken, client, Types
<1>3. CASE PopAndSwap(p)
  <2>1. UNCHANGED <<stop, todos, tstat, alive, blocked, idle, count, marks, cpc, batch, src, dst, frame>>
    BY <1>2 DEF task
  <2>2. \A u \in Tasks : u # cur[p]
    BY <1>1, ProcsAssumption
  <2>3. frame \in [Tasks -> [at : {"entry", "refetch", "body", "exit"}, proc : Procs \cup {NULL}]]
    BY DEF Types
  <2> QED
    BY <1>1, <1>2, <1>3, <2>1, <2>2, <2>3, SwapStep
<1>4. CASE \E l \in {"wait", "wait_park", "loop"} : PopEmpty(p, l) /\ UNCHANGED status
  BY <1>1, <1>2, <1>4, PopEmptyStep
<1> QED
  BY <1>3, <1>4 DEF Pop, WaitPop, Woken, NullTest

\* The coroutine t of thread p does something to itself: what is deferred becomes
\* b, the context the thread is in becomes y, and it goes on to l.
Leaves(p, t, b, y, l) ==
  /\ t \in Tasks /\ t = cur[p] /\ y \in {t, NULL} /\ l \in {"yield", "yield_pop", "after",
       "fault"}
  /\ b \in Seq(ToDo) /\ Len(b) <= 1 /\ (b # <<>> => b[1].task = t /\ b[1].proc = p)
  /\ todos[p] # <<>> => todos[p][1].task = t
  /\ todos' = [todos EXCEPT ![p] = b] /\ cur' = [cur EXCEPT ![p] = y]
  /\ pc' = [pc EXCEPT ![p] = l]
  /\ running' = running \/ running' = [running EXCEPT ![p] = NULL]
  /\ tstat' \in [Tasks -> {"runnable", "block", "done"}] /\ frame' \in [Tasks -> FrameType]
  /\ \A u \in Tasks : u # t => tstat'[u] = tstat[u] /\ frame'[u] = frame[u]
  /\ UNCHANGED <<queue, status, stop, late, alive, blocked, idle, count, client>>
  /\ marks' \in MarksType /\ \A u \in Tasks : marks[u] \subseteq marks'[u]
  /\ \A u \in Tasks : Forgotten(u)' => Forgotten(u)

\* What the threads go by after such a step.
Leads(p, t, b, y, l) ==
  /\ y = NULL => l = "after" /\ running'[p] = NULL
  /\ y = t /\ l = "after" => b = <<>>
  /\ l = "yield" /\ b # <<>> => running'[p] = t /\ tstat'[t] = "block"
  /\ l = "yield_pop" => running'[p] = NULL
  /\ late[p] = 1 => l \in {"yield", "after", "fault"}
  /\ \/ frame'[t] = frame[t] /\ pc[p] # "yield_pop"
     \/ frame'[t].at # "refetch"
     \/ frame'[t].proc = p /\ ((y = t /\ l = "yield_pop") \/ (stop[p] /\ y = NULL))

\* ... and what explains a task or a thread that is lost after it.
Lasts(p, t, b, y, l) ==
  /\ l = "yield" => b # <<>> \/ tstat'[t] # "block" \/ Forgotten(t)
  /\ l = "yield_pop" => /\ b # <<>> \/ Forgotten(t)
                        /\ tstat'[t] = "done" => b # <<>> /\ b[1].kind = "release"
  /\ y = NULL => b # <<>> \/ Forgotten(t)
  /\ Forgotten(t) => /\ b = <<>> /\ tstat'[t] = "block"
                     /\ y = t => l \in {"yield", "yield_pop", "fault"}
  /\ y = t /\ l \in {"after", "yield"} => running'[p] = t \/ Alone(t)'
  /\ frame'[t].at = "exit" => (b # <<>> /\ b[1].kind = "release") \/ Reused(t)
  /\ l = "fault" => y = t /\ (Alone(t) \/ "yield_null" \in Literal)
  /\ l = "yield_pop" => frame'[t].proc = p

\* Such a step keeps the invariant.
LEMMA LeaveStep ==
  ASSUME Types, Inv, NEW p \in Procs, NEW t, NEW b, NEW y, NEW l,
         Leaves(p, t, b, y, l), Leads(p, t, b, y, l), More => Lasts(p, t, b, y, l)
  PROVE  Kept
<1> USE DEF Leaves, Leads
<1>1. ClientInv /\ RunInv /\ ToDoInv /\ SoleInv /\ OnceInv /\ ExecInv /\ RefetchInv /\ LateInv
  BY DEF Inv
<1>2. /\ todos' \in [Procs -> Seq(ToDo)]
      /\ todos'[p] = b /\ \A q \in Procs : q # p => todos'[q] = todos[q]
      /\ \A u \in Tasks : \A q \in Procs :
           q \in ToDos(u)' <=> IF q = p THEN b # <<>> /\ b[1].task = u ELSE q \in ToDos(u)
  BY Defer
<1>3. t # NULL
  BY ProcsAssumption
<1>4. /\ cur'[p] = y /\ pc'[p] = l
      /\ \A q \in Procs : q # p => running'[q] = running[q] /\ cur'[q] = cur[q] /\ pc'[q] = pc[q]
      /\ pc' \in [Procs -> Places] /\ cur' \in [Procs -> Tasks \cup {NULL}]
      /\ running' \in [Procs -> Tasks \cup {NULL}] /\ running'[p] \in {NULL, running[p]}
  <2>1. cur'[p] = y /\ pc'[p] = l /\ pc' \in [Procs -> Places] /\ cur' \in [Procs -> Tasks \cup {NULL}]
    BY DEF Types, Places
  <2>2. CASE running' = running
    BY <2>1, <2>2 DEF Types
  <2>3. CASE running' = [running EXCEPT ![p] = NULL]
    BY <2>1, <2>3 DEF Types
  <2> QED
    BY <2>1, <2>2, <2>3
<1>5. /\ Queues(t) = {} /\ InHand(t) = {} /\ ToDos(t) \subseteq {p} /\ t \in alive
      /\ t \notin blocked /\ t \notin Range(idle) /\ \A q \in Procs : cur[q] = t => q = p
  BY <1>1, ZenonT(40) DEF ExecInv
<1>6. \A u \in Tasks : Queues(u)' = Queues(u) /\ InHand(u)' = InHand(u)
  BY DEF Queues, InHand, client
<1>7. \A u \in Tasks : u # t => ToDos(u)' = ToDos(u)
  <2> SUFFICES ASSUME NEW u \in Tasks, u # t
               PROVE  ToDos(u)' = ToDos(u)
    OBVIOUS
  <2>1. p \notin ToDos(u)
    BY <1>1, ToDoAt
  <2>2. ToDos(u) \subseteq Procs /\ ToDos(u)' \subseteq Procs
    BY DEF ToDos
  <2>3. \A q \in Procs : q \in ToDos(u)' <=> q \in ToDos(u)
    BY <1>2, <2>1
  <2> QED
    BY <2>2, <2>3
<1>8. ToDos(t)' \subseteq {p} /\ (b = <<>> => ToDos(t)' = {})
  <2>1. \A q \in Procs : q # p => q \notin ToDos(t)'
    BY <1>2, <1>5
  <2>2. ToDos(t)' \subseteq Procs
    BY DEF ToDos
  <2>3. b = <<>> => p \notin ToDos(t)'
    BY <1>2
  <2> QED
    BY <2>1, <2>2, <2>3
<1>9. \A u \in Tasks : u # t => Same(u)
  BY <1>6, <1>7 DEF Same
<1>10. \A q \in Procs : q # p /\ cur[q] # NULL =>
         tstat'[cur[q]] = tstat[cur[q]] /\ frame'[cur[q]] = frame[cur[q]]
  BY <1>5 DEF Types
<1>11. Types'
  <2>1. \A q \in Procs : /\ pc'[q] \in {"body", "yield", "yield_pop"} => cur'[q] # NULL
                         /\ pc'[q] \in Main => cur'[q] = NULL
    BY <1>3, <1>4 DEF Types, Main
  <2> QED
    BY <1>2, <1>4, <2>1 DEF Types, client, FrameType
<1>12. ClientInv'
  BY <1>1 DEF ClientInv, client
<1>13. RunInv'
  BY <1>1, <1>4 DEF RunInv
<1>14. ToDoInv'
  <2> SUFFICES ASSUME NEW q \in Procs
               PROVE  ToDoInv!(q)'
    BY DEF ToDoInv
  <2>1. ToDoInv!(q)
    BY <1>1 DEF ToDoInv
  <2>2. CASE q = p
    BY <1>2, <1>3, <1>4, <2>2 DEF Main
  <2>3. CASE q # p
    <3>1. pc'[q] = pc[q] /\ cur'[q] = cur[q] /\ running'[q] = running[q] /\ todos'[q] = todos[q]
      BY <1>2, <1>4, <2>3
    <3>2. pc[q] \in {"yield", "yield_pop"} =>
            tstat'[cur[q]] = tstat[cur[q]] /\ frame'[cur[q]] = frame[cur[q]]
      BY <1>10, <2>3 DEF Types
    <3> QED
      BY <2>1, <3>1, <3>2
  <2> QED
    BY <2>2, <2>3
<1>15. SoleInv'
  <2>1. Queues(t)' = {} /\ InHand(t)' = {} /\ t \notin blocked' /\ t \notin Range(idle')
    BY <1>5, <1>6
  <2>2. Sole(t)'
    BY <1>8, <2>1 DEF Sole
  <2> QED
    BY <1>1, <1>5, <1>9, <2>2, SameSole DEF SoleInv
<1>16. OnceInv'
  BY <1>1 DEF OnceInv, client
<1>17. ExecInv'
  <2> SUFFICES ASSUME NEW q \in Procs, NEW u \in Tasks, cur'[q] = u
               PROVE  ExecInv!(q, u)!2'
    BY DEF ExecInv
  <2>1. CASE q = p
    <3>1. u = t /\ y = t
      BY <1>4, <2>1, ProcsAssumption
    <3>2. \A r \in Procs : cur'[r] = t => r = p
      BY <1>4, <1>5
    <3>3. pc'[p] \notin {"yield", "yield_pop", "fault"} => ToDos(t)' = {}
      BY <1>4, <1>8, <3>1
    <3> QED
      BY <1>5, <1>6, <1>8, <2>1, <3>1, <3>2, <3>3
  <2>2. CASE q # p
    <3>1. cur[q] = u /\ u # t /\ pc'[q] = pc[q]
      BY <1>4, <1>5, <2>2
    <3>2. ExecInv!(q, u)!2
      BY <1>1, <3>1 DEF ExecInv
    <3>3. \A r \in Procs : cur'[r] = u => r = q
      BY <1>4, <3>1, <3>2, ProcsAssumption
    <3> QED
      BY <1>6, <1>7, <3>1, <3>2, <3>3
  <2> QED
    BY <2>1, <2>2
<1>18. RefetchInv'
  <2> SUFFICES ASSUME NEW u \in Tasks, frame'[u].at = "refetch"
               PROVE  RefetchInv!(u)!2'
    BY DEF RefetchInv
  <2>1. CASE frame'[u] = frame[u] /\ (u = t => pc[p] # "yield_pop")
    <3>1. PICK q \in Procs :
            /\ frame[u].proc = q
            /\ \/ cur[q] = u /\ pc[q] = "yield_pop"
               \/ stop[q] /\ cur[q] = NULL /\ pc[q] \in {"after", "loop", "end"}
      BY <1>1, <2>1 DEF RefetchInv
    <3>2. q # p
      BY <1>3, <2>1, <3>1
    <3> QED
      BY <1>4, <2>1, <3>1, <3>2
  <2>2. CASE u = t /\ frame'[t].proc = p /\ ((y = t /\ l = "yield_pop") \/ (stop[p] /\ y = NULL))
    <3>1. \/ cur'[p] = u /\ pc'[p] = "yield_pop"
          \/ stop'[p] /\ cur'[p] = NULL /\ pc'[p] \in {"after", "loop", "end"}
      BY <1>4, <2>2
    <3> QED
      BY <2>2, <3>1
  <2> QED
    BY <2>1, <2>2
<1>19. LateInv'
  <2> SUFFICES ASSUME NEW q \in Procs
               PROVE  LateInv!(q)'
    BY DEF LateInv
  <2>1. LateInv!(q)
    BY <1>1 DEF LateInv
  <2>2. CASE q = p
    BY <1>4, <2>1, <2>2
  <2>3. CASE q # p
    <3>1. pc'[q] = pc[q] /\ cur'[q] = cur[q]
      BY <1>4, <2>3
    <3>2. pc[q] = "yield_pop" => frame'[cur[q]] = frame[cur[q]]
      BY <1>10, <2>3 DEF Types
    <3> QED
      BY <2>1, <3>1, <3>2
  <2> QED
    BY <2>2, <2>3
<1>m. \A u \in Tasks : (Alone(u) => Alone(u)') /\ (Reused(u) => Reused(u)') /\ (Forgotten(u)' <=> Forgotten(u))
  BY DEF Alone, Reused, Forgotten
<1>c. \A q \in Procs : cur[q] # NULL => cur[q] \in Tasks
  BY DEF Types
<1>20. ASSUME More PROVE LossInv'
  <2>1. YieldInv /\ PresentInv /\ ForgotInv
    BY <1>20 DEF More, LossInv
  <2>2. /\ l = "yield" => b # <<>> \/ tstat'[t] # "block" \/ Forgotten(t)
        /\ l = "yield_pop" => /\ b # <<>> \/ Forgotten(t)
                              /\ tstat'[t] = "done" => b # <<>> /\ b[1].kind = "release"
        /\ y = NULL => b # <<>> \/ Forgotten(t)
        /\ Forgotten(t) => /\ b = <<>> /\ tstat'[t] = "block"
                           /\ y = t => l \in {"yield", "yield_pop", "fault"}
    BY <1>20 DEF Lasts
  <2>3. YieldInv'
    <3> SUFFICES ASSUME NEW q \in Procs
                 PROVE  YieldInv!(q)'
      BY DEF YieldInv
    <3>1. CASE q = p
      <4>1. pc'[p] = l /\ todos'[p] = b /\ (l \in {"yield", "yield_pop"} => cur'[p] = t)
        BY <1>2, <1>4
      <4> QED
        BY <1>m, <2>2, <3>1, <4>1
    <3>2. CASE q # p
      <4>1. pc'[q] = pc[q] /\ cur'[q] = cur[q] /\ todos'[q] = todos[q]
        BY <1>2, <1>4, <3>2
      <4>2. pc[q] \in {"yield", "yield_pop"} =>
              /\ tstat'[cur[q]] = tstat[cur[q]] /\ frame'[cur[q]] = frame[cur[q]]
              /\ Forgotten(cur[q])' <=> Forgotten(cur[q])
        BY <1>10, <1>m, <1>c, <3>2 DEF Types
      <4> QED
        BY <2>1, <4>1, <4>2 DEF YieldInv
    <3> QED
      BY <3>1, <3>2
  <2>4. ASSUME NEW u \in alive PROVE Executing(u)' # {} \/ Somewhere(u)' \/ Forgotten(u)'
    <3>1. u \in Tasks
      BY DEF Types
    <3>2. CASE u = t
      <4>1. CASE y = t
        BY <1>4, <3>2, <4>1 DEF Executing
      <4>2. CASE y = NULL /\ b # <<>>
        <5>1. p \in ToDos(t)'
          BY <1>2, <4>2
        <5> QED
          BY <3>2, <5>1 DEF Somewhere
      <4> QED
        BY <1>m, <2>2, <3>2, <4>1, <4>2
    <3>3. CASE u # t
      <4>1. Executing(u) # {} => Executing(u)' # {}
        BY <1>4, <3>3 DEF Executing
      <4> QED
        BY <1>9, <1>m, <2>1, <3>1, <3>3, <4>1, SameSole DEF PresentInv
    <3> QED
      BY <3>2, <3>3
  <2>5. ForgotInv'
    <3> SUFFICES ASSUME NEW u \in alive, Forgotten(u) PROVE ForgotInv!(u)!2'
      BY <1>m DEF ForgotInv, Types
    <3>1. u \in Tasks /\ ForgotInv!(u)!2
      BY <2>1 DEF ForgotInv, Types
    <3>2. CASE u = t
      <4>1. ~Somewhere(t)'
        BY <1>5, <1>6, <1>8, <2>2, <3>2 DEF Somewhere
      <4>2. \A q \in Procs : cur'[q] = t => pc'[q] \in {"yield", "yield_pop", "fault"}
        BY <1>4, <1>5, <2>2, <3>2
      <4> QED
        BY <2>2, <3>2, <4>1, <4>2
    <3>3. CASE u # t
      <4>1. ~Somewhere(u)'
        BY <1>9, <3>1, <3>3, SameSole
      <4>2. \A q \in Procs : cur'[q] = u => pc'[q] \in {"yield", "yield_pop", "fault"}
        BY <1>4, <3>1, <3>3, ProcsAssumption
      <4> QED
        BY <3>1, <3>3, <4>1, <4>2
    <3> QED
      BY <3>2, <3>3
  <2> QED
    BY <2>3, <2>4, <2>5 DEF LossInv, PresentInv
<1>21. ASSUME More PROVE FaultInv'
  <2>1. OwnInv /\ ExitInv /\ LostInv
    BY <1>21 DEF More, FaultInv
  <2>2. /\ y = t /\ l \in {"after", "yield"} => running'[p] = t \/ Alone(t)'
        /\ frame'[t].at = "exit" => (b # <<>> /\ b[1].kind = "release") \/ Reused(t)
        /\ l = "fault" => y = t /\ (Alone(t) \/ "yield_null" \in Literal)
        /\ l = "yield_pop" => frame'[t].proc = p
    BY <1>21 DEF Lasts
  <2>3. OwnInv'
    <3> SUFFICES ASSUME NEW q \in Procs, pc'[q] \in {"after", "body", "yield"}
                 PROVE  running'[q] = cur'[q] \/ (cur'[q] # NULL /\ Alone(cur[q])')
      BY DEF OwnInv
    <3>1. CASE q = p
      BY <1>3, <1>4, <2>2, <3>1
    <3>2. CASE q # p
      BY <1>4, <1>m, <1>c, <2>1, <3>2 DEF OwnInv
    <3> QED
      BY <3>1, <3>2
  <2>4. ExitInv'
    <3> SUFFICES ASSUME NEW u \in alive, frame'[u].at = "exit"
                 PROVE  Returning(u)' \/ u \in Range(idle') \/ Reused(u)'
      BY DEF ExitInv
    <3>0. u \in Tasks
      BY DEF Types
    <3>1. CASE u = t
      <4>1. (todos'[p] # <<>> /\ todos'[p][1].task = t /\ todos'[p][1].kind = "release") \/ Reused(t)
        BY <1>2, <2>2, <3>1
      <4> QED
        BY <1>m, <3>1, <4>1 DEF Returning
    <3>2. CASE u # t
      <4>1. Returning(u) \/ u \in Range(idle) \/ Reused(u)
        BY <2>1, <3>0, <3>2 DEF ExitInv
      <4>2. ASSUME Returning(u) PROVE Returning(u)'
        <5>1. PICK q \in Procs : todos[q] # <<>> /\ todos[q][1].task = u /\ todos[q][1].kind = "release"
          BY <4>2 DEF Returning
        <5>2. q # p
          BY <3>2, <5>1
        <5> QED
          BY <1>2, <5>1, <5>2 DEF Returning
      <4> QED
        BY <1>m, <3>0, <4>1, <4>2
    <3> QED
      BY <3>1, <3>2
  <2>5. LostInv'
    <3> SUFFICES ASSUME NEW q \in Procs
                 PROVE  LostInv!(q)'
      BY DEF LostInv
    <3>1. CASE q = p
      BY <1>3, <1>4, <1>m, <2>2, <3>1
    <3>2. CASE q # p
      <4>1. pc'[q] = pc[q] /\ cur'[q] = cur[q]
        BY <1>4, <3>2
      <4>2. cur[q] # NULL => frame'[cur[q]] = frame[cur[q]]
        BY <1>10, <3>2
      <4>3. cur[q] # NULL /\ Elsewhere(q) => Elsewhere(q)'
        BY <4>1, <4>2 DEF Elsewhere
      <4>4. pc[q] = "yield_pop" => cur[q] # NULL
        BY DEF Types
      <4>5. LostInv!(q)
        BY <2>1 DEF LostInv
      <4> QED
        BY <1>m, <1>c, <4>1, <4>2, <4>3, <4>4, <4>5
    <3> QED
      BY <3>1, <3>2
  <2> QED
    BY <2>3, <2>4, <2>5 DEF FaultInv
<1> QED
  BY <1>11, <1>12, <1>13, <1>14, <1>15, <1>16, <1>17, <1>18, <1>19, <1>20, <1>21 DEF Inv, Kept,
       More

\* The coroutine a thread is executing has not returned, unless it was recycled,
\* is not forgotten, and the thread finds it in runningTask_ unless it has yielded
\* alone.
LEMMA InBody ==
  ASSUME Types, Inv, More, NEW p \in Procs, NEW t \in Tasks, t = cur[p], pc[p] = "body"
  PROVE  /\ frame[t].at = "exit" => Reused(t)
         /\ ~Forgotten(t)
         /\ running[p] = t \/ Alone(t)
<1>1. t \in alive /\ ToDos(t) = {} /\ t \notin Range(idle)
  BY ZenonT(40) DEF Inv, ExecInv
<1>2. ~Returning(t)
  BY <1>1, ToDoAt DEF Inv, Returning
<1>3. frame[t].at = "exit" => Reused(t)
  BY <1>1, <1>2 DEF More, FaultInv, ExitInv
<1>4. ~Forgotten(t)
  BY <1>1 DEF More, LossInv, ForgotInv
<1>5. running[p] = t \/ Alone(t)
  BY DEF More, FaultInv, OwnInv
<1> QED
  BY <1>3, <1>4, <1>5

\* The body of a coroutine ends.
LEMMA FinishStep == ASSUME Types, Inv, NEW p \in Procs, Finish(p) PROVE Kept
<1>1. ClientInv /\ RunInv /\ ToDoInv /\ SoleInv /\ OnceInv /\ ExecInv /\ RefetchInv /\ LateInv
  BY DEF Inv
<1>2. PICK t \in Tasks : t = cur[p]
  BY DEF Finish, Types
<1>3. todos[p] = <<>> /\ pc[p] = "body" /\ todos \in [Procs -> Seq(ToDo)]
  BY <1>1 DEF Finish, ToDoInv, Types
<1>4. /\ todos' = [todos EXCEPT ![p] = <<>>] /\ cur' = [cur EXCEPT ![p] = t]
      /\ pc' = [pc EXCEPT ![p] = "yield"] /\ running' = running
      /\ UNCHANGED <<queue, status, stop, late, frame, alive, blocked, idle, count, marks, client>>
      /\ tstat' = [tstat EXCEPT ![t] = "done"]
  BY <1>2, <1>3 DEF Finish, Goto, object, Types
<1>5. tstat' \in [Tasks -> {"runnable", "block",
     "done"}] /\ \A u \in Tasks : u # t => tstat'[u] = tstat[u]
  BY <1>4 DEF Types
<1>6. frame' \in [Tasks -> FrameType] /\ <<>> \in Seq(ToDo) /\ Len(<<>>) <= 1 /\ marks' = marks /\ marks \in MarksType
  BY <1>4 DEF Types, FrameType
<1>m. \A u : (Forgotten(u)' <=> Forgotten(u)) /\ (Alone(u)' <=> Alone(u))
  BY <1>6 DEF Forgotten, Alone
<1>7. Leaves(p, t, <<>>, t, "yield") /\ Leads(p, t, <<>>, t, "yield")
  BY <1>2, <1>3, <1>4, <1>5, <1>6, <1>m, ProcsAssumption DEF Leaves, Leads
<1>8. More => Lasts(p, t, <<>>, t, "yield")
  <2>1. tstat'[t] = "done" /\ t # NULL
    BY <1>4, ProcsAssumption DEF Types
  <2>2. More => /\ ~Forgotten(t) /\ (frame'[t].at = "exit" => Reused(t))
                /\ running'[p] = t \/ Alone(t)'
    BY <1>2, <1>3, <1>4, <1>m, InBody
  <2> QED
    BY <2>1, <2>2 DEF Lasts
<1> QED
  BY <1>7, <1>8, LeaveStep

\* A coroutine suspends.
LEMMA SuspendStep == ASSUME Types, Inv, NEW p \in Procs, Suspend(p) PROVE Kept
<1>1. ClientInv /\ RunInv /\ ToDoInv /\ SoleInv /\ OnceInv /\ ExecInv /\ RefetchInv /\ LateInv
  BY DEF Inv
<1>2. PICK t \in Tasks : t = cur[p]
  BY DEF Suspend, Types
<1>3. todos[p] = <<>> /\ pc[p] = "body" /\ running[p] \in {NULL, t} /\ t # NULL
  BY <1>1, <1>2, ProcsAssumption DEF Suspend, ToDoInv, RunInv
<1>4. PICK b : b = <<[kind |-> "register", task |-> t, proc |-> p]>>
  OBVIOUS
<1>5. b \in Seq(ToDo) /\ Len(b) = 1 /\ b[1].task = t /\ b[1].proc = p /\ b # <<>>
  BY <1>4 DEF ToDo
<1>6. /\ todos' = [todos EXCEPT ![p] = b] /\ cur' = [cur EXCEPT ![p] = t] /\ running' = running
      /\ UNCHANGED <<queue, status, stop, late, frame, alive, blocked, idle, count, marks, client>>
  <2>1. Append(todos[p], [kind |-> "register", task |-> t, proc |-> p]) = b
    BY <1>3, <1>4
  <2> QED
    BY <1>2, <2>1 DEF Suspend, Types
<1>7. frame' \in [Tasks -> FrameType] /\ marks' = marks /\ marks \in MarksType
  BY <1>6 DEF Types, FrameType
<1>m. \A u : (Forgotten(u)' <=> Forgotten(u)) /\ (Alone(u)' <=> Alone(u))
  BY <1>6 DEF Forgotten, Alone
<1>i. More => /\ ~Forgotten(t) /\ (frame'[t].at = "exit" => Reused(t))
              /\ running'[p] = t \/ Alone(t)
  BY <1>2, <1>3, <1>6, InBody
<1>8. CASE running[p] # NULL
  <2>1. pc' = [pc EXCEPT ![p] = "yield"] /\ tstat' = [tstat EXCEPT ![t] = "block"] /\ running'[p] = t
    BY <1>3, <1>6, <1>8 DEF Suspend, Goto
  <2>2. /\ tstat' \in [Tasks -> {"runnable", "block", "done"}] /\ tstat'[t] = "block"
        /\ \A u \in Tasks : u # t => tstat'[u] = tstat[u]
    BY <2>1 DEF Types
  <2>3. Leaves(p, t, b, t, "yield") /\ Leads(p, t, b, t, "yield")
    BY <1>2, <1>3, <1>5, <1>6, <1>7, <1>m, <2>1, <2>2 DEF Leaves, Leads
  <2>4. More => Lasts(p, t, b, t, "yield")
    BY <1>3, <1>5, <1>i, <2>1 DEF Lasts
  <2> QED
    BY <2>3, <2>4, LeaveStep
<1>9. CASE running[p] = NULL
  <2>1. pc' = [pc EXCEPT ![p] = "fault"] /\ tstat' = tstat
    BY <1>9 DEF Suspend, Goto
  <2>2. tstat' \in [Tasks -> {"runnable", "block", "done"}]
    BY <2>1 DEF Types
  <2>3. Leaves(p, t, b, t, "fault") /\ Leads(p, t, b, t, "fault")
    BY <1>2, <1>3, <1>5, <1>6, <1>7, <1>m, <2>1, <2>2 DEF Leaves, Leads
  <2>4. More => Alone(t)
    BY <1>3, <1>6, <1>9, <1>i
  <2>5. More => Lasts(p, t, b, t, "fault")
    BY <1>3, <1>i, <2>4 DEF Lasts
  <2> QED
    BY <2>3, <2>5, LeaveStep
<1> QED
  BY <1>8, <1>9

\* Yield, up to its test of stop_: the context it saves is left by this thread
\* only, in yield_pop or when it ends.
LEMMA YieldStep == ASSUME Types, Inv, NEW p \in Procs, Yield(p) PROVE Kept
<1>1. ClientInv /\ RunInv /\ ToDoInv /\ SoleInv /\ OnceInv /\ ExecInv /\ RefetchInv /\ LateInv
  BY DEF Inv
<1>2. PICK t \in Tasks : t = cur[p]
  BY DEF Yield, Types
<1>3. pc[p] = "yield" /\ running[p] \in {NULL, t} /\ t # NULL
  BY <1>1, <1>2, ProcsAssumption DEF Yield, RunInv
<1>4. /\ running' = [running EXCEPT ![p] = NULL] /\ running'[p] = NULL
      /\ UNCHANGED <<queue, status, stop, tstat, alive, blocked, idle, count, marks, client>>
  BY DEF Yield, Types
<1>m. /\ marks' \in MarksType /\ (\A u \in Tasks : marks[u] \subseteq marks'[u])
      /\ \A u \in Tasks : Forgotten(u)' => Forgotten(u)
  BY <1>4 DEF Types, Forgotten
<1>5. CASE running[p] = NULL \/ "yield_null" \in Literal
  <2>1. Goto(p, "fault") /\ UNCHANGED <<todos, frame, cur, late>>
    BY <1>5 DEF Yield
  <2>2. UNCHANGED <<queue, todos, cur>> /\ UNCHANGED Rest /\ "fault" \in Places
    BY <1>4, <2>1 DEF Rest, Places, client
  <2>3. pc' = [pc EXCEPT ![p] = "fault"] /\ status' \in [Procs -> {"running", "waiting"}]
    BY <1>4, <2>1 DEF Goto, Types
  <2>4. pc[p] # "yield_pop" /\ "fault" \notin Main
    BY <1>3 DEF Main
  <2>5. More => cur[p] # NULL /\ (Alone(cur[p]) \/ "yield_null" \in Literal)
    BY <1>2, <1>3, <1>5 DEF More, FaultInv, OwnInv
  <2> QED
    BY <1>3, <1>4, <1>m, <2>2, <2>3, <2>4, <2>5, ControlStep
<1>6. CASE running[p] # NULL /\ "yield_null" \notin Literal
  <2>1. /\ running[p] = t
        /\ todos' = [todos EXCEPT ![p] = @ \o Deferred(p, t)]
        /\ frame' = [frame EXCEPT ![t] = Frame("refetch", p)]
        /\ \/ stop[p] /\ SwapToMain(p)
           \/ ~stop[p] /\ Goto(p, "yield_pop") /\ UNCHANGED <<cur, late>>
    BY <1>3, <1>6 DEF Yield, YieldEnds
  <2>2. PICK b : b = todos[p] \o Deferred(p, t)
    OBVIOUS
  <2>3. /\ b \in Seq(ToDo) /\ Len(b) <= 1
        /\ b # <<>> => b[1].task = t /\ b[1].proc = p
        /\ todos[p] # <<>> => todos[p][1].task = t
        /\ todos[p] # <<>> => b # <<>> /\ tstat[t] = "block"
        /\ tstat[t] = "done" => b # <<>> /\ b[1].kind = "release"
    <3>1. todos[p] \in Seq(ToDo) /\ Len(todos[p]) <= 1
      BY <1>1 DEF ToDoInv, Types
    <3>2. CASE todos[p] # <<>>
      <4>1. todos[p][1].task = t /\ todos[p][1].proc = p /\ tstat[t] = "block"
        BY <1>1, <1>2, <1>3, <3>2 DEF ToDoInv
      <4>2. Deferred(p, t) = <<>>
        BY <4>1 DEF Deferred
      <4>3. todos[p] \o <<>> = todos[p]
        BY <3>1, OneToDo
      <4> QED
        BY <2>2, <3>1, <4>1, <4>2, <4>3
    <3>3. CASE todos[p] = <<>>
      <4>1. CASE tstat[t] = "runnable"
        <5>1. b = <<[kind |-> "requeue", task |-> t, proc |-> p]>>
          BY <2>2, <3>3, <4>1 DEF Deferred
        <5> QED
          BY <3>3, <4>1, <5>1 DEF ToDo
      <4>2. CASE tstat[t] = "done"
        <5>1. b = <<[kind |-> "release", task |-> t, proc |-> p]>>
          BY <2>2, <3>3, <4>2 DEF Deferred
        <5> QED
          BY <3>3, <5>1 DEF ToDo
      <4>3. CASE tstat[t] = "block"
        <5>1. b = <<>>
          BY <2>2, <3>3, <4>3 DEF Deferred
        <5> QED
          BY <3>3, <4>3, <5>1
      <4> QED
        BY <4>1, <4>2, <4>3 DEF Types
    <3> QED
      BY <3>2, <3>3
  <2>4. todos' = [todos EXCEPT ![p] = b]
    BY <2>1, <2>2
  <2>5. /\ frame' \in [Tasks -> FrameType] /\ frame'[t].proc = p
        /\ \A u \in Tasks : u # t => frame'[u] = frame[u]
    BY <2>1 DEF Types, FrameType, Frame
  <2>6. tstat' \in [Tasks -> {"runnable", "block", "done"}]
    BY <1>4 DEF Types
  <2>7. /\ More => b # <<>> \/ Forgotten(t)
        /\ More /\ Forgotten(t) => b = <<>> /\ tstat'[t] = "block"
        /\ tstat'[t] = "done" => b # <<>> /\ b[1].kind = "release"
    <3>1. More => todos[p] # <<>> \/ tstat[t] # "block" \/ Forgotten(t)
      BY <1>2, <1>3 DEF More, LossInv, YieldInv
    <3>2. tstat[t] # "block" => b # <<>>
      <4>1. tstat[t] # "block" => tstat[t] \in {"runnable", "done"}
        BY DEF Types
      <4> QED
        BY <2>2, <2>3, <4>1 DEF Deferred
    <3>3. ASSUME More, Forgotten(t) PROVE b = <<>> /\ tstat[t] = "block"
      <4>1. t \in alive
        BY <1>1, <1>2 DEF ExecInv
      <4>2. ~Somewhere(t) /\ tstat[t] = "block"
        BY <3>3, <4>1 DEF More, LossInv, ForgotInv
      <4>3. todos[p] = <<>>
        BY <1>1, <2>3, <4>2, ToDoAt DEF Somewhere
      <4>4. Deferred(p, t) = <<>>
        BY <4>2 DEF Deferred
      <4> QED
        BY <2>2, <4>2, <4>3, <4>4
    <3> QED
      BY <1>4, <2>3, <3>1, <3>2, <3>3
  <2>8. frame'[t].at = "refetch"
    BY <2>1 DEF Types, Frame
  <2>9. CASE stop[p] /\ SwapToMain(p)
    <3>1. cur' = [cur EXCEPT ![p] = NULL] /\ pc' = [pc EXCEPT ![p] = "after"] /\ UNCHANGED late
      BY <2>9 DEF SwapToMain, Goto
    <3>2. Leaves(p, t, b, NULL, "after")
      BY <1>2, <1>4, <1>m, <2>3, <2>4, <2>5, <2>6, <3>1 DEF Leaves
    <3>3. Leads(p, t, b, NULL, "after")
      BY <1>3, <1>4, <2>5, <2>9 DEF Leads
    <3>4. More => Lasts(p, t, b, NULL, "after")
      BY <1>3, <2>7, <2>8 DEF Lasts
    <3> QED
      BY <3>2, <3>3, <3>4, LeaveStep
  <2>10. CASE ~stop[p] /\ Goto(p, "yield_pop") /\ UNCHANGED <<cur, late>>
    <3>1. cur' = [cur EXCEPT ![p] = t] /\ pc' = [pc EXCEPT ![p] = "yield_pop"] /\ UNCHANGED late
      BY <1>2, <2>10 DEF Goto, Types
    <3>2. Leaves(p, t, b, t, "yield_pop")
      BY <1>2, <1>4, <1>m, <2>3, <2>4, <2>5, <2>6, <3>1 DEF Leaves
    <3>3. late[p] # 1
      BY <1>1, <2>10 DEF LateInv
    <3>4. Leads(p, t, b, t, "yield_pop")
      <4>1. t # NULL /\ running'[p] = NULL /\ frame'[t].proc = p
        BY <1>3, <1>4, <2>5
      <4> QED
        BY ONLY <3>3, <4>1 DEF Leads
    <3>5. More => Lasts(p, t, b, t, "yield_pop")
      BY <1>3, <2>5, <2>7, <2>8 DEF Lasts
    <3> QED
      BY <3>2, <3>4, <3>5, LeaveStep
  <2> QED
    BY <2>1, <2>9, <2>10
<1> QED
  BY <1>5, <1>6

\* The rest of Yield.
LEMMA YieldPopStep == ASSUME Types, Inv, NEW p \in Procs, YieldPop(p) PROVE Kept
<1>1. ClientInv /\ RunInv /\ ToDoInv /\ SoleInv /\ OnceInv /\ ExecInv /\ RefetchInv /\ LateInv
  BY DEF Inv
<1>2. PICK t \in Tasks : t = cur[p]
  BY DEF YieldPop, Types
<1>3. pc[p] = "yield_pop" /\ t # NULL
  BY ProcsAssumption DEF YieldPop
<1>4. UNCHANGED <<status, stop, tstat, alive, blocked, idle, count, client>>
  BY DEF YieldPop
<1>5. CASE frame[t].proc # p
  <2>1. Goto(p, "fault") /\ UNCHANGED <<queue, running, todos, frame, cur, late>>
    BY <1>2, <1>5 DEF YieldPop
  <2>2. UNCHANGED <<queue, todos,
       cur>> /\ UNCHANGED Rest /\ "fault" \in Places /\ "fault" \notin Main
    BY <1>4, <2>1 DEF Rest, Places, Main, client
  <2>3. pc' = [pc EXCEPT ![p] = "fault"] /\ status' \in [Procs -> {"running",
       "waiting"}] /\ running' = running
    BY <1>4, <2>1 DEF Goto, Types
  <2>4. More => cur[p] # NULL /\ Elsewhere(p)
    BY <1>2, <1>3, <1>5 DEF More, FaultInv, LostInv
  <2>5. /\ marks' \in MarksType /\ (\A u \in Tasks : marks[u] \subseteq marks'[u])
        /\ \A u \in Tasks : Forgotten(u)' => Forgotten(u)
    BY <1>2, <1>5 DEF YieldPop, Types, Forgotten
  <2> QED
    BY <1>2, <1>3, <1>5, <2>2, <2>3, <2>4, <2>5, ControlStep
<1>6. CASE frame[t].proc = p
  <2>1. /\ running[p] = NULL /\ (todos[p] # <<>> => todos[p][1].task = t /\ todos[p][1].proc = p)
        /\ todos[p] \in Seq(ToDo) /\ Len(todos[p]) <= 1 /\ late[p] # 1
    BY <1>1, <1>2, <1>3, <1>6 DEF ToDoInv, LateInv, Types
  <2>2. PICK a \in {"exit", "body"} : /\ frame' = [frame EXCEPT ![t].at = a]
                                      /\ a = "exit" => tstat[t] = "done"
    BY <1>2, <1>6 DEF YieldPop
  <2>3. ASSUME More
        PROVE  /\ todos[p] # <<>> \/ Forgotten(t)
               /\ tstat[t] = "done" => todos[p] # <<>> /\ todos[p][1].kind = "release"
               /\ Forgotten(t) => todos[p] = <<>> /\ tstat[t] = "block"
    <3>1. /\ todos[p] # <<>> \/ Forgotten(t)
          /\ tstat[t] = "done" => todos[p] # <<>> /\ todos[p][1].kind = "release"
      BY <1>2, <1>3, <1>6, <2>3 DEF More, LossInv, YieldInv
    <3>2. ASSUME Forgotten(t) PROVE todos[p] = <<>> /\ tstat[t] = "block"
      <4>1. t \in alive
        BY <1>1, <1>2 DEF ExecInv
      <4>2. ~Somewhere(t) /\ tstat[t] = "block"
        BY <2>3, <3>2, <4>1 DEF More, LossInv, ForgotInv
      <4> QED
        BY <1>1, <2>1, <4>2, ToDoAt DEF Somewhere
    <3> QED
      BY <3>1, <3>2
  <2>4. /\ frame' \in [Tasks -> FrameType] /\ frame'[t].at # "refetch"
        /\ frame'[t].at = "exit" => tstat[t] = "done"
        /\ \A u \in Tasks : u # t => frame'[u] = frame[u]
    <3>1. frame \in [Tasks -> FrameType]
      BY DEF Types, FrameType
    <3> QED
      BY <2>2, <3>1 DEF FrameType
  <2>5. CASE PopAndSwap(p) /\ UNCHANGED <<todos, marks>>
    <3>1. status' \in [Procs -> {"running", "waiting"}]
      BY <1>4 DEF Types
    <3>2. frame' \in [Tasks -> [at : {"entry", "refetch", "body", "exit"},
         proc : Procs \cup {NULL}]]
      BY <2>4 DEF FrameType
    <3>3. \A u \in Tasks : IF u = cur[p] THEN frame'[u].at # "refetch" ELSE frame'[u] = frame[u]
      BY <1>2, <2>4
    <3>4. UNCHANGED <<stop, todos, tstat, alive, blocked, idle, count, marks, cpc, batch, src, dst>>
      BY <1>4, <2>5 DEF client
    <3>5. frame'[cur[p]].at = "exit" => tstat[cur[p]] = "done"
      BY <1>2, <2>4
    <3> QED
      BY <1>2, <1>3, <1>6, <2>5, <3>1, <3>2, <3>3, <3>4, <3>5, SwapStep
  <2>6. tstat' \in [Tasks -> {"runnable", "block",
       "done"}] /\ <<>> \in Seq(ToDo) /\ Len(<<>>) <= 1
    BY <1>4 DEF Types
  <2>7. CASE PopEmpty(p, "after") /\ tstat[t] = "runnable" /\ todos' = [todos EXCEPT ![p] = Front(@)]
             /\ marks' = [marks EXCEPT ![t] = @ \cup {"alone"}]
    <3>1. todos' = [todos EXCEPT ![p] = <<>>]
      BY <2>1, <2>7, OneToDo
    <3>2. /\ running' = [running EXCEPT ![p] = NULL] /\ pc' = [pc EXCEPT ![p] = "after"]
          /\ cur' = [cur EXCEPT ![p] = t] /\ UNCHANGED <<queue, late>>
      BY <1>2, <2>7 DEF PopEmpty, Goto, Types
    <3>m. /\ marks' \in MarksType /\ (\A u \in Tasks : marks[u] \subseteq marks'[u])
          /\ (\A u \in Tasks : Forgotten(u)' => Forgotten(u)) /\ Alone(t)'
      BY <2>7 DEF Types, MarksType, Forgotten, Alone
    <3>3. Leaves(p, t, <<>>, t, "after")
      BY <1>2, <1>4, <2>1, <2>4, <2>6, <3>1, <3>2, <3>m DEF Leaves
    <3>4. Leads(p, t, <<>>, t, "after")
      BY <1>3, <2>1, <2>4 DEF Leads
    <3>5. More => ~Forgotten(t)
      BY <2>7, <2>3
    <3>6. More => Lasts(p, t, <<>>, t, "after")
      BY <1>3, <2>4, <2>7, <3>5, <3>m DEF Lasts
    <3> QED
      BY <3>3, <3>4, <3>6, LeaveStep
  <2>8. CASE SwapToMain(p) /\ UNCHANGED <<queue, running, todos, marks>>
    <3>1. todos' = [todos EXCEPT ![p] = todos[p]]
      BY <2>8 DEF Types
    <3>2. /\ running' = running /\ pc' = [pc EXCEPT ![p] = "after"]
          /\ cur' = [cur EXCEPT ![p] = NULL] /\ UNCHANGED <<queue, late>>
      BY <2>8 DEF SwapToMain, Goto
    <3>m. marks' \in MarksType /\ \A u \in Tasks : (marks[u] \subseteq marks'[u]) /\ (Forgotten(u)' => Forgotten(u))
      BY <2>8 DEF Types, Forgotten
    <3>3. Leaves(p, t, todos[p], NULL, "after")
      BY <1>2, <1>4, <2>1, <2>4, <2>6, <3>1, <3>2, <3>m DEF Leaves
    <3>4. Leads(p, t, todos[p], NULL, "after")
      BY <1>3, <2>1, <2>4, <3>2 DEF Leads
    <3>5. More => Lasts(p, t, todos[p], NULL, "after")
      BY <1>3, <1>4, <2>4, <2>3 DEF Lasts
    <3> QED
      BY <3>3, <3>4, <3>5, LeaveStep
  <2> QED
    BY <1>2, <1>6, <2>5, <2>7, <2>8 DEF YieldPop, Mark
<1> QED
  BY <1>5, <1>6

\* One deferred function: the task it is about has been left, so nobody is in it.
LEMMA RunToDoStep == ASSUME Types, Inv, NEW p \in Procs, RunToDo(p) PROVE Kept
<1>1. ClientInv /\ RunInv /\ ToDoInv /\ SoleInv /\ OnceInv /\ ExecInv /\ RefetchInv /\ LateInv
  BY DEF Inv
<1>2. /\ pc[p] = "after" /\ todos[p] # <<>> /\ todos[p] \in Seq(ToDo) /\ Len(todos[p]) <= 1
  BY <1>1 DEF RunToDo, ToDoInv, Types
<1>3. PICK d, x : d = todos[p][1] /\ x = d.task
  OBVIOUS
<1>4. /\ Head(todos[p]) = d /\ Tail(todos[p]) = <<>> /\ d \in ToDo /\ x \in Tasks /\ d.proc = p
  BY <1>1, <1>2, <1>3, OneToDo DEF ToDoInv, ToDo
<1>5. todos' = [todos EXCEPT ![p] = <<>>] /\ <<>> \in Seq(ToDo) /\ Len(<<>>) <= 1
  <2>1. todos' = [todos EXCEPT ![p] = Tail(@)]
    BY DEF RunToDo
  <2>2. todos' = [todos EXCEPT ![p] = <<>>]
    BY <1>4, <2>1
  <2> QED
    BY <2>2
<1>6. /\ todos' \in [Procs -> Seq(ToDo)] /\ todos'[p] = <<>>
      /\ \A q \in Procs : q # p => todos'[q] = todos[q]
      /\ \A u \in Tasks : \A q \in Procs : q \in ToDos(u)' <=> q # p /\ q \in ToDos(u)
  BY <1>5, Defer
<1>7. p \in ToDos(x) /\ \A u \in Tasks : u # x => p \notin ToDos(u)
  BY <1>1, <1>2, <1>3, <1>4, ToDoAt
<1>8. /\ \A q \in ToDos(x) : q = p
      /\ Queues(x) = {} /\ InHand(x) = {} /\ x \notin blocked /\ x \notin Range(idle) /\ x \in alive
  BY <1>1, <1>4, <1>7 DEF SoleInv, Sole, Somewhere
<1>9. /\ ToDos(x)' = {} /\ \A u \in Tasks : u # x => ToDos(u)' = ToDos(u)
  <2>1. \A u : ToDos(u) \subseteq Procs /\ ToDos(u)' \subseteq Procs
    BY DEF ToDos
  <2>2. \A q \in Procs : q \notin ToDos(x)'
    BY <1>4, <1>6, <1>8
  <2>3. \A u \in Tasks : u # x => \A q \in Procs : q \in ToDos(u)' <=> q \in ToDos(u)
    BY <1>6, <1>7
  <2> QED
    BY <2>1, <2>2, <2>3
<1>10. \A q \in Procs : cur[q] # x
  BY <1>1, <1>2, <1>4, <1>7 DEF ExecInv
<1>11. UNCHANGED <<status, stop, running, pc, cur, late, frame, tstat, marks, client>>
  BY DEF RunToDo, thread
<1>12. \A u \in Tasks : InHand(u)' = InHand(u)
  BY <1>11 DEF InHand, client
<1>13. RunInv' /\ RefetchInv' /\ LateInv' /\ ClientInv'
  BY <1>1, <1>11 DEF RunInv, RefetchInv, LateInv, ClientInv, client
<1>14. ToDoInv'
  <2> SUFFICES ASSUME NEW q \in Procs
               PROVE  ToDoInv!(q)'
    BY DEF ToDoInv
  <2>1. ToDoInv!(q)
    BY <1>1 DEF ToDoInv
  <2>2. CASE q = p
    BY <1>2, <1>5, <1>6, <1>11, <2>2
  <2>3. CASE q # p
    BY <1>6, <1>11, <2>1, <2>3
  <2> QED
    BY <2>2, <2>3
<1>m. \A u : /\ Forgotten(u)' <=> Forgotten(u)
             /\ Alone(u)' <=> Alone(u)
             /\ Reused(u)' <=> Reused(u)
  BY <1>11 DEF Forgotten, Alone, Reused
<1>15. ASSUME More,
              \A u \in Tasks : u # x => Same(u) /\ (u \in alive' <=> u \in alive),
              alive' \subseteq Tasks,
              x \in alive' => Somewhere(x)' /\ (d.kind = "release" => x \in Range(idle'))
       PROVE  More'
  <2>1. YieldInv /\ PresentInv /\ ForgotInv /\ OwnInv /\ ExitInv /\ LostInv
    BY <1>15 DEF More, LossInv, FaultInv
  <2>0. ~Forgotten(x)
    BY <1>7, <1>8, <2>1 DEF ForgotInv, Somewhere
  <2>2. YieldInv'
    BY <1>m, <1>2, <1>6, <1>11, <2>1 DEF YieldInv
  <2>3. PresentInv'
    <3> SUFFICES ASSUME NEW u \in alive', u # x
                 PROVE  Executing(u)' # {} \/ Somewhere(u)' \/ Forgotten(u)'
      BY <1>15 DEF PresentInv
    <3>1. Executing(u) # {} \/ Somewhere(u) \/ Forgotten(u)
      BY <1>15, <2>1 DEF PresentInv
    <3> QED
      BY <1>11, <1>15, <1>m, <3>1, SameSole DEF Executing
  <2>4. ForgotInv'
    <3> SUFFICES ASSUME NEW u \in alive', Forgotten(u) PROVE ForgotInv!(u)!2'
      BY <1>m DEF ForgotInv
    <3>1. u # x /\ u \in Tasks /\ u \in alive
      BY <1>15, <2>0
    <3>2. ForgotInv!(u)!2
      BY <2>1, <3>1 DEF ForgotInv
    <3>3. ~Somewhere(u)'
      BY <1>15, <3>1, <3>2, SameSole
    <3> QED
      BY <1>11, <3>2, <3>3
  <2>5. OwnInv' /\ LostInv'
    <3>1. \A q \in Procs : Elsewhere(q)' <=> Elsewhere(q)
      BY <1>11 DEF Elsewhere
    <3>2. OwnInv'
      BY <1>11, <1>m, <2>1 DEF OwnInv
    <3>3. LostInv'
      BY <1>11, <1>m, <2>1, <3>1 DEF LostInv
    <3> QED
      BY <3>2, <3>3
  <2>6. ExitInv'
    <3> SUFFICES ASSUME NEW u \in alive', frame[u].at = "exit"
                 PROVE  Returning(u)' \/ u \in Range(idle') \/ Reused(u)'
      BY <1>11 DEF ExitInv
    <3>1. u \in Tasks /\ u \in alive
      BY <1>8, <1>15
    <3>2. CASE Returning(u)
      <4>1. PICK q \in Procs : todos[q] # <<>> /\ todos[q][1].task = u /\ todos[q][1].kind = "release"
        BY <3>2 DEF Returning
      <4>2. CASE q = p
        BY <1>3, <1>15, <4>1, <4>2
      <4>3. CASE q # p
        BY <1>6, <4>1, <4>3 DEF Returning
      <4> QED
        BY <4>2, <4>3
    <3>3. CASE u \in Range(idle)
      <4>1. u # x
        BY <1>8, <3>3
      <4> QED
        BY <1>15, <3>1, <3>3, <4>1 DEF Same
    <3> QED
      BY <1>m, <2>1, <3>1, <3>2, <3>3 DEF ExitInv
  <2> QED
    BY <2>2, <2>3, <2>4, <2>5, <2>6 DEF More, LossInv, FaultInv
<1>16. CASE /\ d.kind = "requeue"
            /\ queue' = [queue EXCEPT ![p] = Append(@, x)]
            /\ UNCHANGED <<alive, blocked, idle, count>>
  <2>1. /\ queue' \in [Procs -> Seq(Tasks)] /\ \A q \in Procs : IsInjective(queue'[q])
        /\ Queues(x)' = {p} /\ \A u \in Tasks : u # x => Queues(u)' = Queues(u)
    BY <1>1, <1>4, <1>8, <1>16, Enqueue
  <2>2. /\ \A u \in Tasks : u # x => Same(u)
    BY <1>9, <1>12, <1>16, <2>1 DEF Same
  <2>3. InHand(x)' = {} /\ x \notin blocked' /\ x \notin Range(idle') /\ x \in alive'
    BY <1>4, <1>8, <1>12, <1>16
  <2>4. Sole(x)'
    BY <1>9, <2>1, <2>3 DEF Sole
  <2>5. SoleInv' /\ ExecInv'
    BY <1>1, <1>4, <1>10, <1>11, <1>16, <2>2, <2>3, <2>4, Moved
  <2>6. Types' /\ OnceInv'
    BY <1>1, <1>6, <1>11, <1>16, <2>1 DEF Types, OnceInv, client
  <2>7. Somewhere(x)' /\ d.kind # "release" /\ alive' \subseteq Tasks
    BY <1>16, <2>1 DEF Somewhere, Types
  <2>8. \A u \in Tasks : u \in alive' <=> u \in alive
    BY <1>16
  <2>9. More => More'
    BY <1>15, <2>2, <2>7, <2>8
  <2> QED
    BY <1>13, <1>14, <2>5, <2>6, <2>9 DEF Inv, Kept
<1>17. CASE d.kind = "release" /\ Release(x) /\ UNCHANGED <<queue, blocked>>
  <2>1. \A u \in Tasks : Queues(u)' = Queues(u)
    BY <1>17 DEF Queues
  <2>2. CASE alive' = alive \ {x} /\ UNCHANGED <<idle, count>>
    <3>1. \A u \in Tasks : u # x => Same(u) /\ (u \in alive' <=> u \in alive)
      BY <1>9, <1>12, <1>17, <2>1, <2>2 DEF Same
    <3>2. Queues(x)' = {} /\ InHand(x)' = {} /\ x \notin blocked' /\ x \notin Range(idle')
      BY <1>4, <1>8, <1>12, <1>17, <2>1, <2>2
    <3>3. Sole(x)' /\ ~Somewhere(x)'
      BY <1>9, <3>2 DEF Sole, Somewhere
    <3>4. SoleInv' /\ ExecInv'
      BY <1>1, <1>4, <1>10, <1>11, <3>1, <3>3, Moved
    <3>5. Types' /\ OnceInv'
      BY <1>1, <1>6, <1>11, <1>17, <2>2 DEF Types, OnceInv, client
    <3>6. x \notin alive' /\ alive' \subseteq Tasks
      BY <2>2 DEF Types
    <3>7. More => More'
      BY <1>15, <3>1, <3>6
    <3> QED
      BY <1>13, <1>14, <3>4, <3>5, <3>7 DEF Inv, Kept
  <2>3. CASE count + 1 <= MaxIdle /\ count' = count + 1 /\ idle' = Append(idle,
       x) /\ UNCHANGED alive
    <3>1. /\ idle' \in Seq(Tasks) /\ Range(idle') = Range(idle) \cup {x} /\ IsInjective(idle')
      BY <1>1, <1>4, <1>8, <2>3, AppendFacts DEF Types, OnceInv
    <3>2. \A u \in Tasks : u # x => Same(u) /\ (u \in alive' <=> u \in alive)
      BY <1>9, <1>12, <1>17, <2>1, <2>3, <3>1 DEF Same
    <3>3. Queues(x)' = {} /\ InHand(x)' = {} /\ x \notin blocked' /\ x \in alive'
      BY <1>4, <1>8, <1>12, <1>17, <2>1, <2>3
    <3>4. Sole(x)'
      BY <1>9, <3>3 DEF Sole
    <3>5. SoleInv' /\ ExecInv'
      BY <1>1, <1>4, <1>10, <1>11, <3>2, <3>3, <3>4, Moved
    <3>6. Types' /\ OnceInv'
      BY <1>1, <1>6, <1>11, <1>17, <2>3, <3>1, SMTT(20) DEF Types, OnceInv, client
    <3>7. Somewhere(x)' /\ alive' \subseteq Tasks /\ x \in Range(idle')
      BY <2>3, <3>1 DEF Somewhere, Types
    <3>9. More => More'
      BY <1>15, <3>2, <3>7
    <3> QED
      BY <1>13, <1>14, <3>5, <3>6, <3>9 DEF Inv, Kept
  <2> QED
    BY <1>17, <2>2, <2>3 DEF Release
<1>18. CASE d.kind = "register" /\ blocked' = blocked \cup {x} /\ UNCHANGED <<queue, alive,
     idle, count>>
  <2>1. \A u \in Tasks : Queues(u)' = Queues(u)
    BY <1>18 DEF Queues
  <2>2. \A u \in Tasks : u # x => Same(u) /\ (u \in alive' <=> u \in alive)
    BY <1>9, <1>12, <1>18, <2>1 DEF Same
  <2>3. Queues(x)' = {} /\ InHand(x)' = {} /\ x \notin Range(idle') /\ x \in alive'
    BY <1>4, <1>8, <1>12, <1>18, <2>1
  <2>4. Sole(x)'
    BY <1>9, <2>3 DEF Sole
  <2>5. SoleInv' /\ ExecInv'
    BY <1>1, <1>4, <1>10, <1>11, <2>2, <2>3, <2>4, Moved
  <2>6. Types' /\ OnceInv'
    BY <1>1, <1>4, <1>6, <1>11, <1>18 DEF Types, OnceInv, client
  <2>7. Somewhere(x)' /\ d.kind # "release" /\ alive' \subseteq Tasks
    BY <1>18 DEF Somewhere, Types
  <2>8. More => More'
    BY <1>15, <2>2, <2>7
  <2> QED
    BY <1>13, <1>14, <2>5, <2>6, <2>8 DEF Inv, Kept
<1> QED
  BY <1>3, <1>4, <1>16, <1>17, <1>18 DEF RunToDo

-----------------------------------------------------------------------------
(* Calls from coroutines and from other threads *)

\* A task from the pool, recycled or new, is nowhere and nobody is in it.
LEMMA GetFacts ==
  ASSUME Types, Inv, NEW x \in Tasks, Get(x)
  PROVE  /\ Queues(x) = {} /\ InHand(x) = {} /\ ToDos(x) = {} /\ x \notin blocked
         /\ x \notin Range(idle') /\ x \in alive' /\ \A q \in Procs : cur[q] # x
         /\ \A u \in Tasks : u # x => /\ (u \in Range(idle') <=> u \in Range(idle))
                                      /\ (u \in alive' <=> u \in alive)
         /\ idle' \in Seq(Tasks) /\ IsInjective(idle') /\ alive' \subseteq Tasks
         /\ frame' \in [Tasks -> FrameType] /\ tstat' \in [Tasks -> {"runnable", "block", "done"}]
         /\ \A u \in alive : frame'[u] = frame[u] /\ tstat'[u] = tstat[u]
         /\ \A u \in Tasks : frame'[u] = frame[u] \/ frame'[u].at = "entry"
         /\ marks' \in MarksType /\ MarksKept
         /\ \A u \in alive' : u \in alive \/ (frame'[u].at = "entry" /\ ~Forgotten(u)')
         /\ x \in alive => Somewhere(x)
         /\ x \in Range(idle) => Reused(x)'
<1>1. ClientInv /\ RunInv /\ ToDoInv /\ SoleInv /\ OnceInv /\ ExecInv /\ RefetchInv /\ LateInv
  BY DEF Inv
<1>2. CASE idle # <<>>
  <2>1. /\ idle # <<>> /\ x = Head(idle) /\ idle' = Tail(idle) /\ UNCHANGED <<alive, frame, tstat>>
        /\ marks' = [marks EXCEPT ![x] = @ \cup {"reused"}]
    BY <1>2 DEF Get, Mark
  <2>2. /\ idle' \in Seq(Tasks) /\ Range(idle) = {x} \cup Range(idle')
        /\ IsInjective(idle') /\ x \notin Range(idle')
    BY <1>1, <2>1, TailFacts DEF Types, OnceInv
  <2>3. /\ Queues(x) = {} /\ InHand(x) = {} /\ ToDos(x) = {} /\ x \notin blocked /\ x \in alive
    BY <1>1, <2>2 DEF SoleInv, Sole, Somewhere
  <2>4. \A q \in Procs : cur[q] # x
    BY <1>1, <2>2 DEF ExecInv
  <2>5. Somewhere(x)
    BY <2>2 DEF Somewhere
  <2>6. marks' \in MarksType /\ MarksKept /\ Reused(x)'
    BY <2>1 DEF Types, MarksType, MarksKept, Forgotten, Reused
  <2> QED
    BY <2>1, <2>2, <2>3, <2>4, <2>5, <2>6 DEF Types, FrameType
<1>3. CASE idle = <<>>
  <2>1. /\ x \notin alive /\ alive' = alive \cup {x} /\ UNCHANGED idle
        /\ frame' = [frame EXCEPT ![x] = Frame("entry", NULL)]
        /\ tstat' = [tstat EXCEPT ![x] = "runnable"]
        /\ marks' = [marks EXCEPT ![x] = {}]
    BY <1>3 DEF Get
  <2>2. ~Somewhere(x) /\ \A q \in Procs : cur[q] # x
    BY <1>1, <2>1 DEF SoleInv, ExecInv
  <2>3. /\ frame' \in [Tasks -> FrameType] /\ tstat' \in [Tasks -> {"runnable", "block", "done"}]
        /\ frame'[x].at = "entry"
        /\ \A u \in Tasks : u # x => frame'[u] = frame[u] /\ tstat'[u] = tstat[u]
    BY <2>1 DEF Types, FrameType, Frame
  <2>4. idle \in Seq(Tasks) /\ IsInjective(idle) /\ alive \subseteq Tasks
    BY <1>1 DEF Types, OnceInv
  <2>5. marks' \in MarksType /\ marks'[x] = {} /\ \A u \in Tasks : u # x => marks'[u] = marks[u]
    BY <2>1 DEF Types, MarksType
  <2>6. MarksKept /\ ~Forgotten(x)'
    BY <2>1, <2>4, <2>5 DEF MarksKept, Forgotten
  <2> QED
    BY <2>1, <2>2, <2>3, <2>4, <2>5, <2>6 DEF Somewhere
<1> QED
  BY <1>2, <1>3

\* ... and neither is a task that was suspended.
LEMMA FetchFacts ==
  ASSUME Types, Inv, NEW x \in Tasks,
         \/ Get(x) /\ UNCHANGED blocked
         \/ x \in blocked /\ blocked' = blocked \ {x} /\ UNCHANGED <<frame, tstat, alive, idle, marks>>
  PROVE  /\ Queues(x) = {} /\ InHand(x) = {} /\ ToDos(x) = {}
         /\ x \notin blocked' /\ x \notin Range(idle') /\ x \in alive' /\ \A q \in Procs : cur[q] # x
         /\ \A u \in Tasks : u # x => /\ (u \in Range(idle') <=> u \in Range(idle))
                                      /\ (u \in alive' <=> u \in alive)
                                      /\ (u \in blocked' <=> u \in blocked)
         /\ idle' \in Seq(Tasks) /\ IsInjective(idle') /\ alive' \subseteq Tasks /\ blocked' \subseteq Tasks
         /\ frame' \in [Tasks -> FrameType] /\ tstat' \in [Tasks -> {"runnable", "block", "done"}]
         /\ \A u \in alive : frame'[u] = frame[u] /\ tstat'[u] = tstat[u]
         /\ \A u \in Tasks : frame'[u] = frame[u] \/ frame'[u].at = "entry"
         /\ marks' \in MarksType /\ MarksKept
         /\ \A u \in alive' : u \in alive \/ (frame'[u].at = "entry" /\ ~Forgotten(u)')
         /\ x \in alive => Somewhere(x)
         /\ x \in Range(idle) => Reused(x)'
<1>1. ClientInv /\ RunInv /\ ToDoInv /\ SoleInv /\ OnceInv /\ ExecInv /\ RefetchInv /\ LateInv
  BY DEF Inv
<1>2. CASE Get(x) /\ UNCHANGED blocked
  BY <1>2, GetFacts DEF Types
<1>3. CASE x \in blocked /\ blocked' = blocked \ {x} /\ UNCHANGED <<frame, tstat, alive, idle, marks>>
  <2>1. /\ Queues(x) = {} /\ InHand(x) = {} /\ ToDos(x) = {} /\ x \notin Range(idle) /\ x \in alive
    BY <1>1, <1>3 DEF SoleInv, Sole, Somewhere
  <2>2. \A q \in Procs : cur[q] # x
    BY <1>1, <1>3 DEF ExecInv
  <2>3. IsInjective(idle) /\ Somewhere(x)
    BY <1>1, <1>3 DEF OnceInv, Somewhere
  <2>4. marks' \in MarksType /\ MarksKept
    BY <1>3 DEF Types, MarksKept, Forgotten
  <2> QED
    BY <1>3, <2>1, <2>2, <2>3, <2>4 DEF Types, FrameType
<1> QED
  BY <1>2, <1>3

\* A coroutine adds a task or resumes one.
LEMMA BodyAddStep == ASSUME Types, Inv, NEW p \in Procs, BodyAdd(p) PROVE Kept
<1>1. ClientInv /\ RunInv /\ ToDoInv /\ SoleInv /\ OnceInv /\ ExecInv /\ RefetchInv /\ LateInv
  BY DEF Inv
<1>2. PICK x \in Tasks :
        \/ /\ Call("add") /\ Get(x)
           /\ queue' = [queue EXCEPT ![p] = Append(@, x)]
           /\ UNCHANGED <<blocked, count>>
        \/ /\ x \in blocked
           /\ blocked' = blocked \ {x}
           /\ queue' = [queue EXCEPT ![p] = Append(@, x)]
           /\ UNCHANGED <<frame, tstat, alive, idle, count, marks, calls>>
  BY DEF BodyAdd
<1>3. /\ Queues(x) = {} /\ InHand(x) = {} /\ ToDos(x) = {}
      /\ x \notin blocked' /\ x \notin Range(idle') /\ x \in alive' /\ \A q \in Procs : cur[q] # x
      /\ \A u \in Tasks : u # x => /\ (u \in Range(idle') <=> u \in Range(idle))
                                   /\ (u \in alive' <=> u \in alive)
                                   /\ (u \in blocked' <=> u \in blocked)
      /\ idle' \in Seq(Tasks) /\ IsInjective(idle') /\ alive' \subseteq Tasks /\ blocked' \subseteq Tasks
      /\ frame' \in [Tasks -> FrameType] /\ tstat' \in [Tasks -> {"runnable", "block", "done"}]
      /\ \A u \in alive : frame'[u] = frame[u] /\ tstat'[u] = tstat[u]
      /\ \A u \in Tasks : frame'[u] = frame[u] \/ frame'[u].at = "entry"
      /\ marks' \in MarksType /\ MarksKept
      /\ \A u \in alive' : u \in alive \/ (frame'[u].at = "entry" /\ ~Forgotten(u)')
      /\ x \in alive => Somewhere(x)
      /\ x \in Range(idle) => Reused(x)'
  BY <1>2, FetchFacts
<1>4. queue' = [queue EXCEPT ![p] = Append(@, x)] /\ UNCHANGED count
  BY <1>2
<1>5. /\ queue' \in [Procs -> Seq(Tasks)] /\ \A q \in Procs : IsInjective(queue'[q])
      /\ Queues(x)' = {p} /\ \A u \in Tasks : u # x => Queues(u)' = Queues(u)
  BY <1>1, <1>3, <1>4, Enqueue, ZenonT(40)
<1>6. UNCHANGED <<status, stop, running, todos, pc, cur, late, cpc, batch, src, dst>>
  BY DEF BodyAdd, thread, client
<1>7. \A u \in Tasks : InHand(u)' = InHand(u) /\ ToDos(u)' = ToDos(u)
  BY <1>6 DEF InHand, ToDos
<1>8. \A u \in Tasks : u # x => Same(u)
  BY <1>3, <1>5, <1>7 DEF Same
<1>9. Sole(x)'
  <2>1. InHand(x)' = {} /\ ToDos(x)' = {}
    BY <1>3, <1>7
  <2> QED
    BY <1>3, <1>5, <2>1 DEF Sole
<1>10. SoleInv' /\ ExecInv'
  BY <1>1, <1>3, <1>6, <1>8, <1>9, Moved
<1>11. RunInv' /\ ToDoInv' /\ RefetchInv' /\ LateInv'
  BY <1>1, <1>3, <1>6, ControlKept
<1>12. Types' /\ ClientInv' /\ OnceInv'
  BY <1>1, <1>3, <1>4, <1>5, <1>6 DEF Types, ClientInv, OnceInv, FrameType
<1>13. More => More'
  <2>1. Somewhere(x)'
    BY <1>5 DEF Somewhere
  <2>2. /\ \A u \in alive' : u \in alive => (Somewhere(u)' <=> Somewhere(u))
        /\ \A u \in alive' : u \in alive \/ (frame'[u].at = "entry" /\ ~Forgotten(u)' /\ Somewhere(u)')
        /\ \A u \in alive' : u \in alive /\ u \in Range(idle) => u \in Range(idle') \/ Reused(u)'
    BY <1>3, <1>8, <2>1, SameSole
  <2> QED
    BY <1>3, <1>6, <2>2, MoreKept
<1> QED
  BY <1>10, <1>11, <1>12, <1>13 DEF Inv, Kept

\* Client c takes the task x of the pool or of the suspended ones in hand.
LEMMA TakeStep ==
  ASSUME Types, Inv, NEW c \in Clients, NEW p \in Procs, AddTask(c, p) \/ Resume(c, p)
  PROVE  Kept
<1>1. ClientInv /\ RunInv /\ ToDoInv /\ SoleInv /\ OnceInv /\ ExecInv /\ RefetchInv /\ LateInv
  BY DEF Inv
<1>2. PICK x \in Tasks : /\ Take(c, <<x>>, p, "push")
                        /\ \/ Get(x) /\ UNCHANGED blocked
                           \/ /\ x \in blocked /\ blocked' = blocked \ {x}
                              /\ UNCHANGED <<frame, tstat, alive, idle, marks>>
  BY DEF AddTask, Resume, Types
<1>3. /\ Queues(x) = {} /\ InHand(x) = {} /\ ToDos(x) = {}
      /\ x \notin blocked' /\ x \notin Range(idle') /\ x \in alive' /\ \A q \in Procs : cur[q] # x
      /\ \A u \in Tasks : u # x => /\ (u \in Range(idle') <=> u \in Range(idle))
                                   /\ (u \in alive' <=> u \in alive)
                                   /\ (u \in blocked' <=> u \in blocked)
      /\ idle' \in Seq(Tasks) /\ IsInjective(idle') /\ alive' \subseteq Tasks /\ blocked' \subseteq Tasks
      /\ frame' \in [Tasks -> FrameType] /\ tstat' \in [Tasks -> {"runnable", "block", "done"}]
      /\ \A u \in alive : frame'[u] = frame[u] /\ tstat'[u] = tstat[u]
      /\ \A u \in Tasks : frame'[u] = frame[u] \/ frame'[u].at = "entry"
      /\ marks' \in MarksType /\ MarksKept
      /\ \A u \in alive' : u \in alive \/ (frame'[u].at = "entry" /\ ~Forgotten(u)')
      /\ x \in alive => Somewhere(x)
      /\ x \in Range(idle) => Reused(x)'
  BY <1>2, FetchFacts
<1>4. UNCHANGED <<queue, status, stop, running, todos, pc, cur, late, count, src>>
  BY DEF AddTask, Resume, object, thread
<1>5. /\ <<x>> \in Seq(Tasks) /\ Range(<<x>>) = {x} /\ IsInjective(<<x>>) /\ <<x>> # <<>>
  BY DEF Range, IsInjective
<1>6. /\ batch' = [batch EXCEPT ![c] = <<x>>] /\ cpc' = [cpc EXCEPT ![c] = "push"]
      /\ dst' = [dst EXCEPT ![c] = p] /\ batch[c] = <<>>
  BY <1>1, <1>2 DEF Take, AddTask, Resume, ClientInv
<1>7. /\ batch' \in [Clients -> Seq(Tasks)] /\ batch'[c] = <<x>>
      /\ \A d \in Clients : d # c => batch'[d] = batch[d]
      /\ \A u \in Tasks : \A d \in Clients :
           d \in InHand(u)' <=> IF d = c THEN u = x ELSE d \in InHand(u)
  BY <1>5, <1>6, Hand
<1>8. InHand(x)' = {c} /\ \A u \in Tasks : u # x => InHand(u)' = InHand(u)
  <2>1. \A u : InHand(u) \subseteq Clients /\ InHand(u)' \subseteq Clients
    BY DEF InHand
  <2>2. \A u \in Tasks : c \notin InHand(u)
    BY <1>6, EmptyFacts DEF InHand
  <2>3. \A d \in Clients : d \in InHand(x)' <=> d = c
    BY <1>3, <1>7
  <2>4. \A u \in Tasks : u # x => \A d \in Clients : d \in InHand(u)' <=> d \in InHand(u)
    BY <1>7, <2>2
  <2> QED
    BY <2>1, <2>3, <2>4
<1>9. \A u \in Tasks : Queues(u)' = Queues(u) /\ ToDos(u)' = ToDos(u)
  BY <1>4 DEF Queues, ToDos
<1>10. \A u \in Tasks : u # x => Same(u)
  BY <1>3, <1>8, <1>9 DEF Same
<1>11. Sole(x)'
  <2>1. Queues(x)' = {} /\ ToDos(x)' = {}
    BY <1>3, <1>9
  <2> QED
    BY <1>3, <1>8, <2>1 DEF Sole
<1>12. SoleInv' /\ ExecInv'
  BY <1>1, <1>3, <1>4, <1>10, <1>11, Moved
<1>13. RunInv' /\ ToDoInv' /\ RefetchInv' /\ LateInv'
  BY <1>1, <1>3, <1>4, ControlKept
<1>14. /\ cpc'[c] = "push" /\ dst'[c] = p
       /\ \A d \in Clients : d # c => cpc'[d] = cpc[d] /\ dst'[d] = dst[d]
       /\ cpc' \in [Clients -> {"idle", "steal", "push", "check", "wake"}]
       /\ dst' \in [Clients -> Procs \cup {NULL}]
  BY <1>6 DEF Types
<1>15. ClientInv'
  BY <1>1, <1>4, <1>5, <1>7, <1>14 DEF ClientInv
<1>16. Types'
  BY <1>3, <1>4, <1>7, <1>14 DEF Types, FrameType
<1>17. OnceInv'
  BY <1>1, <1>3, <1>4, <1>5, <1>7 DEF OnceInv
<1>18. More => More'
  <2>1. Somewhere(x)'
    BY <1>8 DEF Somewhere
  <2>2. /\ \A u \in alive' : u \in alive => (Somewhere(u)' <=> Somewhere(u))
        /\ \A u \in alive' : u \in alive \/ (frame'[u].at = "entry" /\ ~Forgotten(u)' /\ Somewhere(u)')
        /\ \A u \in alive' : u \in alive /\ u \in Range(idle) => u \in Range(idle') \/ Reused(u)'
    BY <1>3, <1>10, <2>1, SameSole
  <2> QED
    BY <1>3, <1>4, <2>2, MoreKept
<1> QED
  BY <1>12, <1>13, <1>15, <1>16, <1>17, <1>18 DEF Inv, Kept

\* A client goes on without touching a task; Stop and WakeUp set stop_ and status_.
LEMMA ClientControl ==
  ASSUME Types, Inv, NEW c \in Clients, NEW l \in {"idle", "steal", "push", "check", "wake"},
         UNCHANGED <<queue, running, todos, pc, cur, late, frame, tstat, alive, blocked, idle,
              count, marks>>,
         status' \in [Procs -> {"running", "waiting"}], stop' \in [Procs -> BOOLEAN],
         \A p \in Procs : stop[p] => stop'[p],
         batch' = batch, cpc' = [cpc EXCEPT ![c] = l],
         src' \in [Clients -> Procs \cup {NULL}], dst' \in [Clients -> Procs \cup {NULL}],
         \A d \in Clients : d # c => src'[d] = src[d] /\ dst'[d] = dst[d],
         l = "steal" => src'[c] \in Procs, l # "idle" => dst'[c] \in Procs,
         l = "push" => batch[c] # <<>>, l \in {"idle", "check", "wake"} => batch[c] = <<>>
  PROVE  Kept
<1>1. ClientInv /\ RunInv /\ ToDoInv /\ SoleInv /\ OnceInv /\ ExecInv /\ RefetchInv /\ LateInv
  BY DEF Inv
<1>2. /\ cpc'[c] = l /\ \A d \in Clients : d # c => cpc'[d] = cpc[d]
      /\ cpc' \in [Clients -> {"idle", "steal", "push", "check", "wake"}]
  BY DEF Types
<1>3. SoleInv' /\ OnceInv' /\ \A u \in Tasks : Same(u)
  BY <1>1, PlacesKept
<1>4. ExecInv'
  <2> SUFFICES ASSUME NEW q \in Procs, NEW t \in Tasks, cur'[q] = t
               PROVE  ExecInv!(q, t)!2'
    BY DEF ExecInv
  <2>1. Same(t) /\ ExecInv!(q, t)!2
    BY <1>1, <1>3 DEF ExecInv
  <2> QED
    BY <2>1 DEF Same
<1>5. RunInv' /\ ToDoInv' /\ RefetchInv' /\ LateInv'
  <2>1. \A u \in Tasks : frame'[u] = frame[u]
    OBVIOUS
  <2>2. \A u \in alive : frame'[u] = frame[u] /\ tstat'[u] = tstat[u]
    OBVIOUS
  <2>3. UNCHANGED <<running, todos, pc, cur, late>>
    OBVIOUS
  <2> QED
    BY <1>1, <2>1, <2>2, <2>3, ControlKept
<1>6. ClientInv'
  BY <1>1, <1>2 DEF ClientInv
<1>7. Types'
  BY <1>2 DEF Types
<1>8. More => More'
  <2>1. \A u \in alive' : u \in Tasks /\ u \in alive /\ (Somewhere(u)' <=> Somewhere(u))
    BY <1>3, SameSole DEF Types
  <2>2. \A u \in alive : frame'[u] = frame[u] /\ tstat'[u] = tstat[u]
    OBVIOUS
  <2>3. MarksKept
    BY DEF MarksKept, Forgotten
  <2> QED
    BY <2>1, <2>2, <2>3, MoreKept
<1> QED
  BY <1>3, <1>4, <1>5, <1>6, <1>7, <1>8 DEF Inv, Kept

\* The steps of Steal, AddTask, Stop and WakeUp that move no task.
LEMMA ClientControlStep ==
  ASSUME Types, Inv, NEW c \in Clients,
         \/ \E p, q \in Procs : StealCall(c, p, q)
         \/ \E p \in Procs : StopCall(c, p)
         \/ StealEnd(c) \/ Check(c) \/ WakeUp(c)
  PROVE  Kept
<1>1. ClientInv /\ RunInv /\ ToDoInv /\ SoleInv /\ OnceInv /\ ExecInv /\ RefetchInv /\ LateInv
  BY DEF Inv
<1>2. ASSUME NEW p \in Procs, NEW q \in Procs, StealCall(c, p, q) PROVE Kept
  <2>1. /\ UNCHANGED <<queue, status, stop, running, todos, pc, cur, late, frame, tstat>>
        /\ UNCHANGED <<alive, blocked, idle, count, marks>>
        /\ cpc' = [cpc EXCEPT ![c] = "steal"] /\ dst' = [dst EXCEPT ![c] = q]
        /\ src' = [src EXCEPT ![c] = p] /\ batch' = batch
    BY <1>1, <1>2 DEF StealCall, Take, object, thread, task, ClientInv, Types
  <2>2. /\ src' \in [Clients -> Procs \cup {NULL}] /\ dst' \in [Clients -> Procs \cup {NULL}]
        /\ \A d \in Clients : d # c => src'[d] = src[d] /\ dst'[d] = dst[d]
        /\ src'[c] = p /\ dst'[c] = q
    BY <2>1 DEF Types
  <2>3. status' \in [Procs -> {"running", "waiting"}] /\ stop' \in [Procs -> BOOLEAN]
    BY <2>1 DEF Types
  <2> QED
    BY <2>1, <2>2, <2>3, ClientControl
<1>3. ASSUME NEW p \in Procs, StopCall(c, p) PROVE Kept
  <2>1. /\ UNCHANGED <<queue, status, running, todos, pc, cur, late, frame, tstat>>
        /\ UNCHANGED <<alive, blocked, idle, count, marks, src>> /\ stop' = [stop EXCEPT ![p] = TRUE]
        /\ cpc' = [cpc EXCEPT ![c] = "wake"] /\ dst' = [dst EXCEPT ![c] = p]
        /\ batch' = batch /\ batch[c] = <<>>
    BY <1>1, <1>3 DEF StopCall, Take, thread, task, ClientInv, Types
  <2>2. /\ src' \in [Clients -> Procs \cup {NULL}] /\ dst' \in [Clients -> Procs \cup {NULL}]
        /\ \A d \in Clients : d # c => src'[d] = src[d] /\ dst'[d] = dst[d]
        /\ dst'[c] = p
    BY <2>1 DEF Types
  <2>3. status' \in [Procs -> {"running", "waiting"}] /\ stop' \in [Procs -> BOOLEAN]
    BY <2>1 DEF Types
  <2>4. \A q \in Procs : stop[q] => stop'[q]
    BY <2>1 DEF Types
  <2> QED
    BY <2>1, <2>2, <2>3, <2>4, ClientControl
<1>4. ASSUME Back(c), batch[c] = <<>>, status' \in [Procs -> {"running", "waiting"}],
             UNCHANGED <<queue, stop, running, todos, thread, task>>
      PROVE  Kept
  <2>1. /\ UNCHANGED <<queue, stop, running, todos, pc, cur, late, frame, tstat>>
        /\ UNCHANGED <<alive, blocked, idle, count, marks>>
        /\ cpc' = [cpc EXCEPT ![c] = "idle"] /\ dst' = [dst EXCEPT ![c] = NULL]
        /\ src' = [src EXCEPT ![c] = NULL] /\ batch' = batch
    BY <1>4 DEF Back, Take, thread, task, Types
  <2>2. /\ src' \in [Clients -> Procs \cup {NULL}] /\ dst' \in [Clients -> Procs \cup {NULL}]
        /\ \A d \in Clients : d # c => src'[d] = src[d] /\ dst'[d] = dst[d]
    BY <2>1 DEF Types
  <2>3. stop' \in [Procs -> BOOLEAN]
    BY <2>1 DEF Types
  <2> QED
    BY <1>4, <2>1, <2>2, <2>3, ClientControl
<1>5. ASSUME NEW l \in {"push", "wake"}, cpc' = [cpc EXCEPT ![c] = l], cpc[c] \in {"steal",
     "check"},
             (l = "push" => batch[c] # <<>>), (l = "wake" => batch[c] = <<>>),
             UNCHANGED <<batch, src, dst>>, UNCHANGED <<object, thread, task>>
      PROVE  Kept
  <2>1. /\ UNCHANGED <<queue, status, stop, running, todos, pc, cur, late, frame, tstat>>
        /\ UNCHANGED <<alive, blocked, idle, count, marks>> /\ batch' = batch
    BY <1>5 DEF object, thread, task
  <2>2. /\ src' \in [Clients -> Procs \cup {NULL}] /\ dst' \in [Clients -> Procs \cup {NULL}]
        /\ \A d \in Clients : d # c => src'[d] = src[d] /\ dst'[d] = dst[d]
        /\ dst'[c] \in Procs
    BY <1>1, <1>5 DEF Types, ClientInv
  <2>3. status' \in [Procs -> {"running", "waiting"}] /\ stop' \in [Procs -> BOOLEAN]
    BY <2>1 DEF Types
  <2> QED
    BY <1>5, <2>1, <2>2, <2>3, ClientControl
<1>6. CASE StealEnd(c)
  <2>1. UNCHANGED <<object, thread, task>> /\ cpc[c] = "steal"
    BY <1>6 DEF StealEnd
  <2>2. CASE batch[c] = <<>> /\ Back(c)
    BY <1>4, <2>1, <2>2 DEF object, Types
  <2>3. CASE batch[c] # <<>> /\ cpc' = [cpc EXCEPT ![c] = "push"] /\ UNCHANGED <<batch, src, dst>>
    BY <1>5, <2>1, <2>3
  <2> QED
    BY <1>6, <2>2, <2>3 DEF StealEnd, Stolen
<1>7. CASE Check(c)
  <2>1. UNCHANGED <<object, thread, task>> /\ cpc[c] = "check" /\ batch[c] = <<>>
    BY <1>1, <1>7 DEF Check, ClientInv
  <2>2. CASE Back(c)
    BY <1>4, <2>1, <2>2 DEF object, Types
  <2>3. CASE cpc' = [cpc EXCEPT ![c] = "wake"] /\ UNCHANGED <<batch, src, dst>>
    BY <1>5, <2>1, <2>3
  <2> QED
    BY <1>7, <2>2, <2>3 DEF Check
<1>8. CASE WakeUp(c)
  <2>1. status' \in [Procs -> {"running", "waiting"}] /\ batch[c] = <<>>
    BY <1>1, <1>8 DEF WakeUp, Types, ClientInv
  <2> QED
    BY <1>4, <1>8, <2>1 DEF WakeUp
<1> QED
  BY <1>2, <1>3, <1>6, <1>7, <1>8

\* One pop of Steal.
LEMMA StealPopStep == ASSUME Types, Inv, NEW c \in Clients, StealPop(c) PROVE Kept
<1>1. ClientInv /\ RunInv /\ ToDoInv /\ SoleInv /\ OnceInv /\ ExecInv /\ RefetchInv /\ LateInv
  BY DEF Inv
<1>2. PICK p \in Procs : p = src[c]
  BY <1>1 DEF StealPop, ClientInv
<1>3. PICK x : x = Head(queue[p])
  OBVIOUS
<1>4. x \in Tasks /\ queue[p] # <<>> /\ queue' = [queue EXCEPT ![p] = Tail(@)]
  BY <1>2, <1>3, TailFacts DEF StealPop, Types
<1>5. Sole(x)
  BY <1>1, <1>4 DEF SoleInv
<1>6. /\ queue' \in [Procs -> Seq(Tasks)] /\ \A q \in Procs : IsInjective(queue'[q])
      /\ p \in Queues(x) /\ Queues(x)' = {}
      /\ \A u \in Tasks : u # x => Queues(u)' = Queues(u)
  BY <1>1, <1>3, <1>4, <1>5, Dequeue
<1>7. /\ InHand(x) = {} /\ ToDos(x) = {} /\ x \notin blocked /\ x \notin Range(idle) /\ x \in alive
      /\ \A q \in Procs : cur[q] # x
  BY <1>1, <1>4, <1>5, <1>6 DEF SoleInv, Sole, Somewhere, ExecInv
<1>8. UNCHANGED <<status, stop, running, todos, pc, cur, late, frame, tstat, alive, blocked,
     idle, count, marks, src, dst>>
  BY DEF StealPop, thread, task
<1>9. PICK b : b = Append(batch[c], x)
  OBVIOUS
<1>10. x \notin Range(batch[c])
  BY <1>7 DEF InHand
<1>11. /\ b \in Seq(Tasks) /\ Range(b) = Range(batch[c]) \cup {x} /\ IsInjective(b) /\ b # <<>>
  BY <1>1, <1>4, <1>9, <1>10, AppendFacts DEF Types, OnceInv
<1>12. batch' = [batch EXCEPT ![c] = b]
  BY <1>2, <1>3, <1>9 DEF StealPop
<1>13. /\ batch' \in [Clients -> Seq(Tasks)] /\ batch'[c] = b
       /\ \A d \in Clients : d # c => batch'[d] = batch[d]
       /\ \A u \in Tasks : \A d \in Clients :
            d \in InHand(u)' <=> IF d = c THEN u \in Range(b) ELSE d \in InHand(u)
  BY <1>11, <1>12, Hand
<1>14. InHand(x)' = {c} /\ \A u \in Tasks : u # x => InHand(u)' = InHand(u)
  <2>1. \A u : InHand(u) \subseteq Clients /\ InHand(u)' \subseteq Clients
    BY DEF InHand
  <2>2. \A u \in Tasks : c \in InHand(u) <=> u \in Range(batch[c])
    BY DEF InHand
  <2>3. \A d \in Clients : d \in InHand(x)' <=> d = c
    BY <1>4, <1>7, <1>11, <1>13
  <2>4. \A u \in Tasks : u # x => \A d \in Clients : d \in InHand(u)' <=> d \in InHand(u)
    BY <1>11, <1>13, <2>2
  <2> QED
    BY <2>1, <2>3, <2>4
<1>15. \A u \in Tasks : ToDos(u)' = ToDos(u)
  BY <1>8 DEF ToDos
<1>16. \A u \in Tasks : u # x => Same(u) /\ (u \in alive' <=> u \in alive)
  BY <1>6, <1>8, <1>14, <1>15 DEF Same
<1>17. Sole(x)' /\ x \in alive'
  <2>1. ToDos(x)' = {} /\ x \notin blocked' /\ x \notin Range(idle') /\ x \in alive'
    BY <1>4, <1>7, <1>8, <1>15
  <2> QED
    BY <1>6, <1>14, <2>1 DEF Sole
<1>18. SoleInv' /\ ExecInv'
  BY <1>1, <1>4, <1>7, <1>8, <1>16, <1>17, Moved
<1>19. RunInv' /\ ToDoInv' /\ RefetchInv' /\ LateInv'
  BY <1>1, <1>8 DEF RunInv, ToDoInv, RefetchInv, LateInv
<1>20. /\ cpc'[c] \in {"steal", "push"} /\ \A d \in Clients : d # c => cpc'[d] = cpc[d]
       /\ cpc' \in [Clients -> {"idle", "steal", "push", "check", "wake"}] /\ cpc[c] = "steal"
  BY DEF StealPop, Types
<1>21. ClientInv'
  BY <1>1, <1>8, <1>11, <1>13, <1>20 DEF ClientInv
<1>22. Types' /\ OnceInv'
  BY <1>1, <1>6, <1>8, <1>11, <1>13, <1>20 DEF Types, OnceInv
<1>23. More => More'
  <2>1. Somewhere(x)' /\ Somewhere(x) /\ alive' \subseteq Tasks
    BY <1>6, <1>8, <1>14 DEF Somewhere, Types
  <2>2. \A u \in alive' : u \in alive /\ (Somewhere(u)' <=> Somewhere(u))
    BY <1>8, <1>16, <2>1, SameSole
  <2>3. (\A u \in alive : frame'[u] = frame[u] /\ tstat'[u] = tstat[u]) /\ MarksKept
    BY <1>8 DEF MarksKept, Forgotten
  <2> QED
    BY <1>8, <2>1, <2>2, <2>3, MoreKept
<1> QED
  BY <1>18, <1>19, <1>21, <1>22, <1>23 DEF Inv, Kept

\* One push of AddTask.
LEMMA PushStep == ASSUME Types, Inv, NEW c \in Clients, Push(c) PROVE Kept
<1>1. ClientInv /\ RunInv /\ ToDoInv /\ SoleInv /\ OnceInv /\ ExecInv /\ RefetchInv /\ LateInv
  BY DEF Inv
<1>2. PICK p \in Procs : p = dst[c]
  BY <1>1 DEF Push, ClientInv
<1>3. PICK x, b : x = Head(batch[c]) /\ b = Tail(batch[c])
  OBVIOUS
<1>4. batch[c] \in Seq(Tasks) /\ batch[c] # <<>> /\ IsInjective(batch[c])
  BY <1>1 DEF Push, ClientInv, Types, OnceInv
<1>5. /\ x \in Tasks /\ b \in Seq(Tasks) /\ Range(batch[c]) = {x} \cup Range(b)
      /\ IsInjective(b) /\ x \notin Range(b)
  BY <1>3, <1>4, TailFacts
<1>6. c \in InHand(x)
  BY <1>5 DEF InHand
<1>7. /\ Queues(x) = {} /\ ToDos(x) = {} /\ x \notin blocked /\ x \notin Range(idle) /\ x \in alive
      /\ (\A q \in Procs : cur[q] # x) /\ (\A d \in InHand(x) : d = c)
  BY <1>1, <1>5, <1>6 DEF SoleInv, Sole, Somewhere, ExecInv
<1>8. UNCHANGED <<status, stop, running, todos, pc, cur, late, frame, tstat, alive, blocked,
     idle, count, marks, src, dst>>
  BY DEF Push, thread, task
<1>9. queue' = [queue EXCEPT ![p] = Append(@, x)] /\ batch' = [batch EXCEPT ![c] = b]
  BY <1>2, <1>3 DEF Push
<1>10. /\ queue' \in [Procs -> Seq(Tasks)] /\ \A q \in Procs : IsInjective(queue'[q])
       /\ Queues(x)' = {p} /\ \A u \in Tasks : u # x => Queues(u)' = Queues(u)
  BY <1>1, <1>5, <1>7, <1>9, Enqueue
<1>11. /\ batch' \in [Clients -> Seq(Tasks)] /\ batch'[c] = b
       /\ \A d \in Clients : d # c => batch'[d] = batch[d]
       /\ \A u \in Tasks : \A d \in Clients :
            d \in InHand(u)' <=> IF d = c THEN u \in Range(b) ELSE d \in InHand(u)
  BY <1>5, <1>9, Hand
<1>12. InHand(x)' = {} /\ \A u \in Tasks : u # x => InHand(u)' = InHand(u)
  <2>1. \A u : InHand(u) \subseteq Clients /\ InHand(u)' \subseteq Clients
    BY DEF InHand
  <2>2. \A u \in Tasks : c \in InHand(u) <=> u \in Range(batch[c])
    BY DEF InHand
  <2>3. \A d \in Clients : d \notin InHand(x)'
    BY <1>5, <1>7, <1>11
  <2>4. \A u \in Tasks : u # x => \A d \in Clients : d \in InHand(u)' <=> d \in InHand(u)
    BY <1>5, <1>11, <2>2
  <2> QED
    BY <2>1, <2>3, <2>4
<1>13. \A u \in Tasks : ToDos(u)' = ToDos(u)
  BY <1>8 DEF ToDos
<1>14. \A u \in Tasks : u # x => Same(u) /\ (u \in alive' <=> u \in alive)
  BY <1>8, <1>10, <1>12, <1>13 DEF Same
<1>15. Sole(x)' /\ x \in alive'
  <2>1. ToDos(x)' = {} /\ x \notin blocked' /\ x \notin Range(idle') /\ x \in alive'
    BY <1>5, <1>7, <1>8, <1>13
  <2> QED
    BY <1>10, <1>12, <2>1 DEF Sole
<1>16. SoleInv' /\ ExecInv'
  BY <1>1, <1>5, <1>7, <1>8, <1>14, <1>15, Moved
<1>17. RunInv' /\ ToDoInv' /\ RefetchInv' /\ LateInv'
  BY <1>1, <1>8 DEF RunInv, ToDoInv, RefetchInv, LateInv
<1>18. /\ cpc'[c] = (IF Len(batch[c]) = 1 THEN "check" ELSE "push")
       /\ \A d \in Clients : d # c => cpc'[d] = cpc[d]
       /\ cpc' \in [Clients -> {"idle", "steal", "push", "check", "wake"}] /\ cpc[c] = "push"
  BY DEF Push, Types
<1>19. b = <<>> <=> Len(batch[c]) = 1
  <2>1. PICK n \in Nat \ {0} : n = Len(batch[c])
    BY <1>4, EmptySeq, Zenon
  <2>2. Len(b) = Len(batch[c]) - 1
    BY <1>3, <1>4, HeadTailProperties, Zenon
  <2>3. b # <<>> => Len(b) \in Nat \ {0}
    BY <1>5, EmptySeq, Zenon
  <2>4. b = <<>> => Len(b) = 0
    OBVIOUS
  <2> QED
    BY <2>1, <2>2, <2>3, <2>4
<1>20. ClientInv'
  BY <1>1, <1>8, <1>11, <1>18, <1>19 DEF ClientInv
<1>21. Types' /\ OnceInv'
  BY <1>1, <1>5, <1>8, <1>10, <1>11, <1>18 DEF Types, OnceInv
<1>22. More => More'
  <2>1. Somewhere(x)' /\ Somewhere(x) /\ alive' \subseteq Tasks
    BY <1>6, <1>8, <1>10 DEF Somewhere, Types
  <2>2. \A u \in alive' : u \in alive /\ (Somewhere(u)' <=> Somewhere(u))
    BY <1>8, <1>14, <2>1, SameSole
  <2>3. (\A u \in alive : frame'[u] = frame[u] /\ tstat'[u] = tstat[u]) /\ MarksKept
    BY <1>8 DEF MarksKept, Forgotten
  <2> QED
    BY <1>8, <2>1, <2>2, <2>3, MoreKept
<1> QED
  BY <1>16, <1>17, <1>20, <1>21, <1>22 DEF Inv, Kept

-----------------------------------------------------------------------------
(* Every step *)

\* The initial states.
LEMMA InitInv ==
  ASSUME Init
  PROVE  Types /\ Inv /\ More /\ WakeInv /\ MisledInv
<1> USE DEF Init
<1>1. Types
  BY PoolAssumption DEF Types, Main, Places, Frame, MarksType
<1>2. \A t \in Tasks : Queues(t) = {} /\ InHand(t) = {} /\ ToDos(t) = {}
  BY EmptyFacts DEF Queues, InHand, ToDos
<1>3. \A t \in Tasks : Sole(t) /\ ~Somewhere(t)
  BY <1>2, EmptyFacts DEF Sole, Somewhere
<1>4. ClientInv /\ RunInv /\ ToDoInv /\ SoleInv /\ OnceInv
  BY <1>3, EmptyFacts DEF ClientInv, RunInv, ToDoInv, SoleInv, OnceInv
<1>5. ExecInv /\ RefetchInv /\ LateInv
  BY ProcsAssumption DEF ExecInv, RefetchInv, LateInv, Frame
<1>6. More
  BY DEF More, LossInv, YieldInv, PresentInv, ForgotInv, FaultInv, OwnInv, ExitInv, LostInv
<1>7. WakeInv /\ MisledInv
  BY DEF WakeInv, MisledInv
<1> QED
  BY <1>1, <1>4, <1>5, <1>6, <1>7 DEF Inv

\* Nothing happens.
LEMMA StutterStep ==
  ASSUME Types, Inv, UNCHANGED vars
  PROVE  Kept
<1>1. ClientInv /\ RunInv /\ ToDoInv /\ SoleInv /\ OnceInv /\ ExecInv /\ RefetchInv /\ LateInv
  BY DEF Inv
<1>2. UNCHANGED <<queue, status, stop, running, todos, pc, cur, late, frame, tstat, alive,
     blocked, idle,
                  count, marks, cpc, batch, src, dst>>
  BY DEF vars, object, thread, task, client
<1>3. Types' /\ ClientInv'
  BY <1>1, <1>2 DEF Types, ClientInv
<1>4. SoleInv' /\ OnceInv' /\ \A u \in Tasks : Same(u)
  BY <1>1, <1>2, PlacesKept
<1>5. ExecInv'
  <2> SUFFICES ASSUME NEW q \in Procs, NEW t \in Tasks, cur'[q] = t
               PROVE  ExecInv!(q, t)!2'
    BY DEF ExecInv
  <2>1. Same(t) /\ ExecInv!(q, t)!2
    BY <1>1, <1>2, <1>4 DEF ExecInv
  <2> QED
    BY <1>2, <2>1 DEF Same
<1>6. RunInv' /\ ToDoInv' /\ RefetchInv' /\ LateInv'
  BY <1>1, <1>2 DEF RunInv, ToDoInv, RefetchInv, LateInv
<1>7. More => More'
  <2>1. \A u \in alive' : u \in Tasks /\ u \in alive /\ (Somewhere(u)' <=> Somewhere(u))
    BY <1>2, <1>4, SameSole DEF Types
  <2>2. MarksKept
    BY <1>2 DEF MarksKept, Forgotten
  <2> QED
    BY <1>2, <2>1, <2>2, MoreKept
<1> QED
  BY <1>3, <1>4, <1>5, <1>6, <1>7 DEF Inv, Kept

\* Every step keeps the invariant.
LEMMA NextInv ==
  ASSUME Types, Inv, [Next]_vars
  PROVE  Kept
<1>1. CASE UNCHANGED vars
  BY <1>1, StutterStep
<1>2. ASSUME NEW p \in Procs, ProcStep(p) PROVE Kept
  <2>1. CASE Start(p)
    BY <2>1, StartStep
  <2>2. CASE Loop(p)
    BY <2>2, LoopStep
  <2>3. CASE Pop(p) \/ WaitPop(p) \/ Woken(p)
    BY <2>3, PopStep
  <2>4. CASE WaitLock(p)
    BY <2>4, WaitLockStep
  <2>5. CASE Park(p)
    BY <2>5, ParkStep
  <2>6. CASE RunToDo(p)
    BY <2>6, RunToDoStep
  <2>7. CASE AfterDone(p)
    BY <2>7, AfterDoneStep
  <2>8. CASE Finish(p)
    BY <2>8, FinishStep
  <2>9. CASE Suspend(p)
    BY <2>9, SuspendStep
  <2>10. CASE YieldCall(p)
    BY <2>10, YieldCallStep
  <2>11. CASE BodyAdd(p)
    BY <2>11, BodyAddStep
  <2>12. CASE Yield(p)
    BY <2>12, YieldStep
  <2>13. CASE YieldPop(p)
    BY <2>13, YieldPopStep
  <2> QED
    BY <1>2, <2>1, <2>2, <2>3, <2>4, <2>5, <2>6, <2>7, <2>8, <2>9, <2>10, <2>11, <2>12,
         <2>13 DEF ProcStep
<1>3. ASSUME NEW c \in Clients, ClientStep(c) \/ ClientCall(c) PROVE Kept
  <2>1. CASE StealPop(c)
    BY <2>1, StealPopStep
  <2>2. CASE Push(c)
    BY <2>2, PushStep
  <2>3. CASE \E p \in Procs : AddTask(c, p) \/ Resume(c, p)
    BY <2>3, TakeStep
  <2>4. CASE \/ \E p, q \in Procs : StealCall(c, p, q)
             \/ \E p \in Procs : StopCall(c, p)
             \/ StealEnd(c) \/ Check(c) \/ WakeUp(c)
    BY <2>4, ClientControlStep
  <2> QED
    BY <1>3, <2>1, <2>2, <2>3, <2>4 DEF ClientStep, ClientCall
<1> QED
  BY <1>1, <1>2, <1>3 DEF Next

-----------------------------------------------------------------------------
(* Sleeping and waking *)

\* The places where a client still is on its way to WakeUp.
Coming == {"push", "check", "wake"}

\* Who is misled changes in AddTask's test of status_ and in Wait's waking up only.
LEMMA MisledStep ==
  ASSUME Types, Inv, [Next]_vars
  PROVE  /\ MisledInv => MisledInv'
         /\ \A p \in Procs : ProcStep(p) => \A q \in misled : q = p \/ q \in misled'
         /\ \A p \in Procs : Park(p) => misled' = misled
         /\ \A c \in Clients : ClientStep(c) \/ ClientCall(c) => misled \subseteq misled'
<1>1. ASSUME NEW p \in Procs, ProcStep(p)
      PROVE  misled' = misled \/ (Woken(p) /\ misled' = misled \ {p})
  BY <1>1 DEF ProcStep, Start, Loop, Pop, WaitLock, WaitPop, Park, Woken, RunToDo, AfterDone,
       Finish, Suspend, YieldCall, BodyAdd, Yield, YieldPop, client
<1>2. ASSUME NEW c \in Clients, Check(c)
      PROVE  \/ misled' = misled
             \/ "plain_status" \in Literal /\ dst[c] \in Procs /\ misled' = misled \cup {dst[c]}
  <2>1. PICK s \in StatusRead(dst[c]) :
          misled' = IF s # status[dst[c]] /\ pc[dst[c]] = "wait_park"
                      THEN misled \cup {dst[c]} ELSE misled
    BY <1>2 DEF Check
  <2>2. s = status[dst[c]] \/ "plain_status" \in Literal
    BY <2>1 DEF StatusRead
  <2>3. dst[c] \in Procs
    BY <1>2 DEF Check, Inv, ClientInv
  <2> QED
    BY <2>1, <2>2, <2>3
<1>3. ASSUME NEW c \in Clients, ClientStep(c) \/ ClientCall(c), ~Check(c) PROVE misled' = misled
  BY <1>3 DEF ClientStep, ClientCall, StealPop, StealEnd, Push, WakeUp, AddTask, Resume, StopCall,
       StealCall
<1>4. UNCHANGED vars => misled' = misled
  BY DEF vars, client
<1>5. MisledInv => MisledInv'
  BY <1>1, <1>2, <1>3, <1>4 DEF MisledInv, Next
<1>6. \A p \in Procs : Park(p) => misled' = misled
  BY DEF Park, client
<1> QED
  BY <1>1, <1>2, <1>3, <1>5, <1>6

\* A step of the thread of p.
LEMMA ThreadWake ==
  ASSUME WakeInv, NEW p \in Procs, UNCHANGED <<cpc, dst>>,
         \A q \in misled : q = p \/ q \in misled',
         \A q \in Procs : q # p => pc'[q] = pc[q] /\ status'[q] = status[q] /\ queue'[q] = queue[q],
         \/ pc'[p] \notin {"wait_pop", "wait_park", "parked"}
         \/ pc'[p] = "wait_pop" /\ status'[p] = "waiting"
         \/ pc'[p] = "wait_park" /\ status'[p] = "waiting" /\ queue'[p] = <<>>
         \/ /\ pc'[p] = "parked" /\ pc[p] = "wait_park" /\ status'[p] = status[p]
            /\ queue'[p] = queue[p] /\ misled' = misled
  PROVE  WakeInv'
<1> SUFFICES ASSUME NEW q \in Procs
             PROVE  WakeInv!(q)'
  BY DEF WakeInv
<1>1. WakeInv!(q)
  BY DEF WakeInv
<1>2. CASE q = p
  BY <1>1, <1>2
<1>3. CASE q # p
  BY <1>1, <1>3
<1> QED
  BY <1>2, <1>3

\* A step of client c.
LEMMA ClientWake ==
  ASSUME WakeInv, NEW c \in Clients, UNCHANGED pc, misled \subseteq misled',
         \A d \in Clients : d # c => cpc'[d] = cpc[d] /\ dst'[d] = dst[d],
         \A p \in Procs : status'[p] = status[p] \/ (status'[p] = "running" /\ pc[p] \notin InWait),
         \A p \in Procs : \/ cpc'[c] \in Coming /\ dst'[c] = p
                          \/ status'[p] # "waiting"
                          \/ p \in misled' \/ pc[p] \notin {"wait_park", "parked"}
                          \/ /\ queue'[p] # <<>> => queue[p] # <<>>
                             /\ ~(cpc[c] \in Coming /\ dst[c] = p)
  PROVE  WakeInv'
<1> SUFFICES ASSUME NEW p \in Procs
             PROVE  WakeInv!(p)'
  BY DEF WakeInv
<1>1. WakeInv!(p)
  BY DEF WakeInv
<1>2. pc'[p] \in {"wait_pop", "wait_park"} => status'[p] = "waiting"
  BY <1>1 DEF InWait
<1>3. ASSUME pc'[p] \in {"wait_park", "parked"}, status'[p] = "waiting", queue'[p] # <<>>, p \notin misled'
      PROVE  \E d \in Clients : dst'[d] = p /\ cpc'[d] \in {"push", "check", "wake"}
  <2>1. CASE cpc'[c] \in Coming /\ dst'[c] = p
    BY <2>1 DEF Coming
  <2>2. CASE ~(cpc'[c] \in Coming /\ dst'[c] = p)
    <3>1. /\ queue[p] # <<>> /\ ~(cpc[c] \in Coming /\ dst[c] = p) /\ status[p] = "waiting"
          /\ p \notin misled
      BY <1>3, <2>2
    <3>2. PICK d \in Clients : dst[d] = p /\ cpc[d] \in {"push", "check", "wake"}
      BY <1>1, <1>3, <3>1
    <3>3. d # c
      BY <3>1, <3>2 DEF Coming
    <3> QED
      BY <3>2, <3>3
  <2> QED
    BY <2>1, <2>2
<1> QED
  BY <1>2, <1>3

\* Every step keeps what sleeping goes by.
LEMMA WakeStep ==
  ASSUME Types, Inv, WakeInv, [Next]_vars
  PROVE  WakeInv'
<1>1. CASE UNCHANGED vars
  BY <1>1 DEF WakeInv, vars, object, thread, client
<1>2. ASSUME NEW p \in Procs, ProcStep(p) PROVE WakeInv'
  <2>1. \A q \in Procs : q # p => pc'[q] = pc[q] /\ status'[q] = status[q]
    <3>1. pc' = pc \/ \E l : pc' = [pc EXCEPT ![p] = l]
      BY <1>2 DEF ProcStep, Start, Loop, Pop, WaitLock, WaitPop, Park, Woken, RunToDo,
           AfterDone, Finish,
                  Suspend, YieldCall, BodyAdd, Yield, YieldPop, PopAndSwap, PopEmpty, SwapTo,
                       SwapToMain,
                  Goto, thread
    <3>2. status' = status \/ \E l : status' = [status EXCEPT ![p] = l]
      BY <1>2 DEF ProcStep, Start, Loop, Pop, WaitLock, WaitPop, Park, Woken, RunToDo,
           AfterDone, Finish,
                  Suspend, YieldCall, BodyAdd, Yield, YieldPop, object
    <3> QED
      BY <3>1, <3>2 DEF Types
  <2>2. \A q \in Procs : q # p => queue'[q] = queue[q]
    <3>1. CASE RunToDo(p)
      <4>1. todos[p] # <<>> /\ todos[p] \in Seq(ToDo) /\ Len(todos[p]) <= 1 /\ todos[p][1].proc = p
        BY <3>1 DEF RunToDo, Types, Inv, ToDoInv
      <4>2. Head(todos[p]).proc = p
        BY <4>1, OneToDo
      <4> QED
        BY <3>1, <4>2 DEF RunToDo, Types
    <3>2. CASE ~RunToDo(p)
      <4>1. queue' = queue \/ \E b : queue' = [queue EXCEPT ![p] = b]
        BY <1>2, <3>2 DEF ProcStep, Start, Loop, Pop, WaitLock, WaitPop, Park, Woken,
             AfterDone, Finish,
                    Suspend, YieldCall, BodyAdd, Yield, YieldPop, PopAndSwap, PopEmpty, object
      <4> QED
        BY <4>1 DEF Types
    <3> QED
      BY <3>1, <3>2
  <2>3. UNCHANGED <<cpc, dst>>
    BY <1>2 DEF ProcStep, Start, Loop, Pop, WaitLock, WaitPop, Park, Woken, RunToDo, AfterDone,
         Finish,
                Suspend, YieldCall, BodyAdd, Yield, YieldPop, client
  <2>m. (\A q \in misled : q = p \/ q \in misled') /\ (Park(p) => misled' = misled)
    BY <1>2, MisledStep
  <2>4. CASE WaitLock(p)
    <3>1. pc'[p] = "wait_pop" /\ status'[p] = "waiting"
      BY <2>4 DEF WaitLock, Goto, Types
    <3> QED
      BY <2>1, <2>2, <2>3, <2>m, <3>1, ThreadWake
  <2>5. CASE WaitPop(p) /\ PopEmpty(p, "wait_park") /\ UNCHANGED status
    <3>1. pc'[p] = "wait_park" /\ status'[p] = "waiting" /\ queue'[p] = <<>>
      BY <2>5 DEF WaitPop, PopEmpty, Goto, Types, WakeInv
    <3> QED
      BY <2>1, <2>2, <2>3, <2>m, <3>1, ThreadWake
  <2>6. CASE Park(p)
    <3>1. /\ pc'[p] = "parked" /\ pc[p] = "wait_park" /\ status'[p] = status[p] /\ queue'[p] = queue[p]
          /\ misled' = misled
      BY <2>6, <2>m DEF Park, Goto, Types, object
    <3> QED
      BY <2>1, <2>2, <2>3, <2>m, <3>1, ThreadWake
  <2>7. CASE ~(WaitLock(p) \/ Park(p) \/ (WaitPop(p) /\ PopEmpty(p,
       "wait_park") /\ UNCHANGED status))
    <3>1. pc'[p] \notin {"wait_pop", "wait_park", "parked"}
      <4>1. CASE RunToDo(p) \/ BodyAdd(p)
        BY <4>1 DEF RunToDo, BodyAdd, thread
      <4>2. CASE PopAndSwap(p)
        BY <4>2 DEF PopAndSwap, SwapTo, Goto, Types
      <4>3. CASE WaitPop(p)
        BY <2>7, <4>3 DEF WaitPop, PopAndSwap, SwapTo, PopEmpty, Goto, Types
      <4>4. CASE Start(p) \/ Loop(p) \/ Pop(p) \/ Woken(p) \/ AfterDone(p)
        BY <4>4 DEF Start, Loop, Pop, Woken, AfterDone, PopAndSwap, SwapTo, PopEmpty, SwapToMain,
                    NullTest, Goto, Types
      <4>5. CASE Finish(p) \/ Suspend(p) \/ YieldCall(p) \/ Yield(p) \/ YieldPop(p)
        BY <4>5 DEF Finish, Suspend, YieldCall, Yield, YieldPop, PopAndSwap, SwapTo, PopEmpty,
                    SwapToMain, NullTest, Goto, Types
      <4> QED
        BY <1>2, <2>7, <4>1, <4>2, <4>3, <4>4, <4>5 DEF ProcStep
    <3> QED
      BY <2>1, <2>2, <2>3, <2>m, <3>1, ThreadWake
  <2> QED
    BY <2>4, <2>5, <2>6, <2>7
<1>3. ASSUME NEW c \in Clients, ClientStep(c) \/ ClientCall(c) PROVE WakeInv'
  <2>1. \A d \in Clients : d # c => cpc'[d] = cpc[d] /\ dst'[d] = dst[d]
    <3>1. cpc' = cpc \/ \E l : cpc' = [cpc EXCEPT ![c] = l]
      BY <1>3 DEF ClientStep, ClientCall, StealPop, StealEnd, Push, Check, WakeUp, AddTask,
           Resume, StopCall,
                  StealCall, Take, Back
    <3>2. dst' = dst \/ \E l : dst' = [dst EXCEPT ![c] = l]
      BY <1>3 DEF ClientStep, ClientCall, StealPop, StealEnd, Push, Check, WakeUp, AddTask,
           Resume, StopCall,
                  StealCall, Take, Back
    <3> QED
      BY <3>1, <3>2 DEF Types
  <2>2. UNCHANGED pc
    BY <1>3 DEF ClientStep, ClientCall, StealPop, StealEnd, Push, Check, WakeUp, AddTask,
         Resume, StopCall,
                StealCall, thread
  <2>m. misled \subseteq misled'
    BY <1>3, MisledStep
  <2>3. CASE ClientCall(c)
    <3>1. UNCHANGED <<queue, status>> /\ cpc[c] = "idle"
      BY <2>3 DEF ClientCall, AddTask, Resume, StopCall, StealCall, object
    <3> QED
      BY <2>1, <2>2, <2>m, <3>1, ClientWake DEF Coming
  <2>4. CASE StealPop(c)
    <3>1. PICK p \in Procs : p = src[c]
      BY <2>4 DEF StealPop, Inv, ClientInv
    <3>2. UNCHANGED status /\ cpc[c] = "steal" /\ queue[p] # <<>> /\ queue' = [queue EXCEPT ![p] = Tail(@)]
      BY <2>4, <3>1 DEF StealPop
    <3>3. \A q \in Procs : queue'[q] # <<>> => queue[q] # <<>>
      BY <3>2 DEF Types
    <3> QED
      BY <2>1, <2>2, <2>m, <3>2, <3>3, ClientWake DEF Coming
  <2>5. CASE StealEnd(c)
    <3>1. UNCHANGED <<queue, status>> /\ cpc[c] = "steal"
      BY <2>5 DEF StealEnd, object
    <3> QED
      BY <2>1, <2>2, <2>m, <3>1, ClientWake DEF Coming
  <2>6. CASE Push(c)
    <3>1. PICK p \in Procs : p = dst[c]
      BY <2>6 DEF Push, Inv, ClientInv
    <3>2. /\ UNCHANGED <<status, dst>> /\ cpc'[c] \in Coming
          /\ \A q \in Procs : q # p => queue'[q] = queue[q]
      BY <2>6, <3>1 DEF Push, Types, Coming
    <3> QED
      BY <2>1, <2>2, <2>m, <3>1, <3>2, ClientWake
  <2>7. CASE Check(c)
    <3>1. PICK p \in Procs : p = dst[c]
      BY <2>7 DEF Check, Inv, ClientInv
    <3>2. UNCHANGED <<queue, status>>
      BY <2>7 DEF Check, object
    <3>3. \/ status[p] = "waiting" /\ cpc'[c] = "wake" /\ dst'[c] = p
          \/ status[p] # "waiting"
          \/ p \in misled' \/ pc[p] \notin {"wait_park", "parked"}
      <4>1. PICK s \in StatusRead(p) :
              /\ (Asleep(s) /\ cpc' = [cpc EXCEPT ![c] = "wake"] /\ dst' = dst) \/ ~Asleep(s)
              /\ misled' = IF s # status[p] /\ pc[p] = "wait_park" THEN misled \cup {p} ELSE misled
        BY <2>7, <3>1 DEF Check
      <4>2. s = status[p] \/ pc[p] \in InWait
        BY <4>1 DEF StatusRead
      <4>3. CASE s = status[p]
        BY <3>1, <4>1, <4>3 DEF Asleep, Types
      <4>4. CASE s # status[p]
        BY <4>1, <4>2, <4>4 DEF InWait
      <4> QED
        BY <4>3, <4>4
    <3> QED
      BY <2>1, <2>2, <2>m, <3>1, <3>2, <3>3, ClientWake DEF Coming
  <2>8. CASE WakeUp(c)
    <3>1. PICK p \in Procs : p = dst[c]
      BY <2>8 DEF WakeUp, Inv, ClientInv
    <3>2. /\ UNCHANGED queue /\ pc[p] \notin InWait /\ status'[p] = "running"
          /\ \A q \in Procs : q # p => status'[q] = status[q]
      BY <2>8, <3>1 DEF WakeUp, Types
    <3> QED
      BY <2>1, <2>2, <2>m, <3>1, <3>2, ClientWake
  <2> QED
    BY <1>3, <2>3, <2>4, <2>5, <2>6, <2>7, <2>8 DEF ClientStep
<1> QED
  BY <1>1, <1>2, <1>3 DEF Next

-----------------------------------------------------------------------------
(* Theorems *)

\* The inductive invariant of the specification.
LEMMA Invariant == Spec => [](Types /\ Inv /\ More /\ WakeInv /\ MisledInv)
<1>1. Init => Types /\ Inv /\ More /\ WakeInv /\ MisledInv
  BY InitInv
<1>2. Types /\ Inv /\ More /\ WakeInv /\ MisledInv /\ [Next]_vars
       => (Types /\ Inv /\ More /\ WakeInv /\ MisledInv)'
  BY NextInv, WakeStep, MisledStep DEF Kept
<1> QED
  BY <1>1, <1>2, PTL DEF Spec

\* Every variable has its type, and a thread is in a coroutine's context where
\* the code of Yield and TaskFunc runs.
THEOREM Typing == Spec => []TypeOK
<1>1. Types /\ Inv /\ MisledInv => TypeOK
  <2> SUFFICES ASSUME Types, Inv, MisledInv PROVE TypeOK
    OBVIOUS
  <2>1. blocked \subseteq alive /\ misled \subseteq Procs
    BY DEF Types, Inv, SoleInv, Somewhere, MisledInv
  <2> QED
    BY <2>1 DEF Types, TypeOK, Main, Places, ToDo, MarksType
<1> QED
  BY <1>1, Invariant, PTL

\* No two threads are ever in the context of one coroutine, and one that a thread
\* is in is in no queue, in nobody's hand, not suspended and not recycled: what
\* Yield defers through LastScheToDos_ runs on the next context only.
THEOREM Contexts == Spec => []OneContext
<1>1. Types /\ Inv => OneContext
  <2> SUFFICES ASSUME Types, Inv, NEW t \in Tasks
               PROVE  /\ Cardinality(Executing(t)) <= 1
                      /\ Executing(t) # {} => InQueue(t) = {} /\ InHand(t) = {} /\ Waiting(t) = 0
    BY DEF OneContext
  <2>1. CASE Executing(t) = {}
    BY <2>1, FS_EmptySet
  <2>2. CASE Executing(t) # {}
    <3>1. PICK p \in Procs : cur[p] = t
      BY <2>2 DEF Executing
    <3>2. /\ \A q \in Procs : cur[q] = t => q = p
          /\ Queues(t) = {} /\ InHand(t) = {} /\ t \notin blocked /\ t \notin Range(idle)
      BY <3>1 DEF Inv, ExecInv
    <3>3. Executing(t) = {p}
      BY <3>1, <3>2 DEF Executing
    <3>4. InQueue(t) = {}
      BY <3>2 DEF InQueue, Queues, Range
    <3> QED
      BY <3>2, <3>3, <3>4, FS_Singleton DEF Waiting
  <2> QED
    BY <2>1, <2>2
<1> QED
  BY <1>1, Invariant, PTL

\* A thread enters at most one coroutine after stop_ is set, whatever it was
\* doing then.
THEOREM StopsSoon == Spec => []OneMoreAfterStop
<1>1. Inv => OneMoreAfterStop
  BY DEF Inv, LateInv, OneMoreAfterStop
<1> QED
  BY <1>1, Invariant, PTL

\* A Processer that sleeps on a queue with a task in it is about to be woken, or
\* the AddTask that put it there read a status_ that is out of date; where the
\* store of status_ is seen by everybody, that does not happen.
THEOREM Wakeup == Spec => []NoLostWakeup
<1>1. WakeInv /\ MisledInv => NoLostWakeup
  BY DEF WakeInv, MisledInv, NoLostWakeup
<1> QED
  BY <1>1, Invariant, PTL

\* Where a task is counts once.
LEMMA CountOne ==
  ASSUME Types, Inv, NEW t \in Tasks, Queues(t) # {}
  PROVE  Cardinality(InQueue(t)) = 1
<1>1. PICK p \in Procs : t \in Range(queue[p])
  BY DEF Queues
<1>2. PICK i \in DOMAIN queue[p] : queue[p][i] = t
  BY <1>1 DEF Range
<1>3. \A q \in Procs : t \in Range(queue[q]) => q = p
  BY <1>1 DEF Queues, Inv, SoleInv, Sole
<1>4. \A j \in DOMAIN queue[p] : queue[p][j] = t => j = i
  BY <1>2 DEF Inv, OnceInv, IsInjective
<1>5. \A q \in Procs : \A j \in DOMAIN queue[q] : queue[q][j] = t => q = p /\ j = i
  BY <1>3, <1>4 DEF Range
<1>6. InQueue(t) = {<<p, i>>}
  BY <1>2, <1>5 DEF InQueue
<1> QED
  BY <1>6, FS_Singleton

\* Whatever is yielded, suspended, stolen, recycled and stopped, a task that no
\* thread is in is in exactly one place as long as it exists, and nowhere when it
\* does not: the one way out is the Yield after a suspension, which forgets it.
THEOREM NoTaskLost == Spec => []OnlyYieldForgets
<1>1. Types /\ Inv /\ More => OnlyYieldForgets
  <2> SUFFICES ASSUME Types, Inv, More, NEW t \in Tasks, Executing(t) = {}
               PROVE  Cardinality(InQueue(t)) + Cardinality(InHand(t)) + Cardinality(ToDos(t)) + Waiting(t)
                        = IF t \in alive /\ "forgotten" \notin marks[t] THEN 1 ELSE 0
    BY DEF OnlyYieldForgets, Found
  <2>1. Sole(t) /\ (Somewhere(t) <=> t \in alive /\ "forgotten" \notin marks[t])
    BY DEF Inv, SoleInv, More, LossInv, PresentInv, ForgotInv, Forgotten
  <2>2. Queues(t) = {} => InQueue(t) = {}
    BY DEF InQueue, Queues, Range
  <2>3. Cardinality({}) = 0 /\ (Queues(t) = {} => Cardinality(InQueue(t)) = 0)
    BY <2>2, FS_EmptySet
  <2>4. /\ InHand(t) # {} => Cardinality(InHand(t)) = 1
        /\ ToDos(t) # {} => Cardinality(ToDos(t)) = 1
    <3>1. ASSUME InHand(t) # {} PROVE Cardinality(InHand(t)) = 1
      <4>1. PICK c : InHand(t) = {c}
        BY <2>1, <3>1 DEF Sole
      <4> QED
        BY <4>1, FS_Singleton
    <3>2. ASSUME ToDos(t) # {} PROVE Cardinality(ToDos(t)) = 1
      <4>1. PICK p : ToDos(t) = {p}
        BY <2>1, <3>2 DEF Sole
      <4> QED
        BY <4>1, FS_Singleton
    <3> QED
      BY <3>1, <3>2
  <2>5. CASE Queues(t) # {}
    <3>1. InHand(t) = {} /\ ToDos(t) = {} /\ Waiting(t) = 0 /\ Somewhere(t)
      BY <2>1, <2>5 DEF Sole, Somewhere, Waiting
    <3>2. Cardinality(InQueue(t)) = 1
      BY <2>5, CountOne
    <3> QED
      BY <2>1, <2>3, <3>1, <3>2
  <2>6. CASE InHand(t) # {}
    <3>1. Queues(t) = {} /\ ToDos(t) = {} /\ Waiting(t) = 0 /\ Somewhere(t)
      BY <2>1, <2>6 DEF Sole, Somewhere, Waiting
    <3> QED
      BY <2>1, <2>3, <2>4, <2>6, <3>1
  <2>7. CASE ToDos(t) # {}
    <3>1. Queues(t) = {} /\ InHand(t) = {} /\ Waiting(t) = 0 /\ Somewhere(t)
      BY <2>1, <2>7 DEF Sole, Somewhere, Waiting
    <3> QED
      BY <2>1, <2>3, <2>4, <2>7, <3>1
  <2>8. CASE t \in blocked \/ t \in Range(idle)
    <3>1. Queues(t) = {} /\ InHand(t) = {} /\ ToDos(t) = {} /\ Waiting(t) = 1 /\ Somewhere(t)
      BY <2>1, <2>8 DEF Sole, Somewhere, Waiting
    <3> QED
      BY <2>1, <2>3, <3>1
  <2>9. CASE ~Somewhere(t)
    <3>1. Queues(t) = {} /\ InHand(t) = {} /\ ToDos(t) = {} /\ Waiting(t) = 0 /\ ~Somewhere(t)
      BY <2>1, <2>9 DEF Somewhere, Waiting
    <3> QED
      BY <2>1, <2>3, <3>1
  <2> QED
    BY <2>5, <2>6, <2>7, <2>8, <2>9 DEF Somewhere
<1> QED
  BY <1>1, Invariant, PTL

\* A thread is lost in the ways the code has for it and in no other: in a
\* recycled coroutine that has returned, in one that has yielded alone, or in a
\* Yield that another, stopped, Processer began.
THEOREM Faults == Spec => []FaultsExplained
<1>1. More => FaultsExplained
  BY DEF More, FaultInv, LostInv, FaultsExplained, Alone, Reused
<1> QED
  BY <1>1, Invariant, PTL
=============================================================================
