------------------------------ MODULE CoMutex ------------------------------
(***************************************************************************)
(* CoMutex (sync/co_mutex.hpp): an atomic word {locked, waiters}, a queue  *)
(* of waiting coroutines, and the hand-over between them.                  *)
(*                                                                         *)
(* A load followed by compare-exchanges until one succeeds is one step.    *)
(* Suspension is as Processer promises: the function given to AddToDo runs *)
(* once the coroutine is switched away from, and a task given to AddTask   *)
(* runs again.  waiterQueue_ is a FIFO queue.                              *)
(*                                                                         *)
(* Two lines can be read literally or as evidently meant; a behaviour reads*)
(* literally those whose name is in `literal`, chosen initially:           *)
(*  "lock_test"  lock() tests newS.locked, which is 1 whatever happened,   *)
(*               so a coroutine that counted itself as a waiter goes on as *)
(*               the holder; as meant it tests what it found, oldS.locked; *)
(*  "try_value"  try_lock() on a locked mutex ends without a return        *)
(*               statement, so it may answer anything; as meant, false.    *)
(* `counted` and `answered` are history: how many calls went on as a holder*)
(* past a locked mutex through each of the two lines.                      *)
(***************************************************************************)
EXTENDS Integers, Sequences, FiniteSets

CONSTANTS
  Tasks,       \* coroutines
  Readings,    \* the choices of `literal`; the source is {"lock_test", "try_value"}
  MaxCalls     \* bound: calls of lock and try_lock

ASSUME TasksAssumption == IsFiniteSet(Tasks)
ASSUME CallsAssumption == MaxCalls \in Nat
ASSUME ReadingsAssumption == Readings \subseteq SUBSET {"lock_test", "try_value"}

VARIABLES
  locked, waiters,   \* mState
  waiterQueue,       \* waiterQueue_
  pc,                \* where each coroutine is
  seen,              \* oldS.waiters between the two exchanges of unlock
  literal,           \* the lines read literally
  counted, answered, \* history: holders past a locked mutex, by lock, by try_lock
  calls              \* calls made so far

history == <<counted, answered>>
vars == <<locked, waiters, waiterQueue, pc, seen, literal, history, calls>>

Goto(t, l) == pc' = [pc EXCEPT ![t] = l]

Init ==
  /\ locked = 0 /\ waiters = 0
  /\ waiterQueue = <<>>
  /\ pc = [t \in Tasks |-> "out"]
  /\ seen = [t \in Tasks |-> 0]
  /\ literal \in Readings
  /\ counted = 0 /\ answered = 0
  /\ calls = 0

Lock(t) ==
  /\ pc[t] = "out"
  /\ calls < MaxCalls /\ calls' = calls + 1
  /\ Goto(t, "locking")
  /\ UNCHANGED <<locked, waiters, waiterQueue, seen, literal, history>>

\* One round of lock()'s loop: the mutex is taken, or its waiters counted up;
\* the coroutine is then suspended, or goes on all the same.
LockCas(t) ==
  /\ pc[t] = "locking"
  /\ \/ /\ locked = 0
        /\ locked' = 1
        /\ Goto(t, "held")
        /\ UNCHANGED <<waiters, counted>>
     \/ /\ locked = 1
        /\ waiters' = waiters + 1
        /\ \/ "lock_test" \in literal /\ Goto(t, "held") /\ counted' = counted + 1
           \/ "lock_test" \notin literal /\ Goto(t, "defer") /\ UNCHANGED counted
        /\ UNCHANGED locked
  /\ UNCHANGED <<waiterQueue, seen, literal, answered, calls>>

\* Mutant of Enqueue: the deferred push is dropped.
EnqueueLost(t) ==
  /\ pc[t] = "defer"
  /\ Goto(t, "queued")
  /\ UNCHANGED <<locked, waiters, waiterQueue, seen, literal, history, calls>>

\* The deferred waiterQueue_.push.
Enqueue(t) ==
  /\ pc[t] = "defer"
  /\ waiterQueue' = Append(waiterQueue, t)
  /\ Goto(t, "queued")
  /\ UNCHANGED <<locked, waiters, seen, literal, history, calls>>

\* Mutant of TryFree: try_lock stores without comparing.
TryFreeBlind == TRUE

\* try_lock() may answer true: its exchange succeeds on a free mutex.
TryFree == locked = 0

\* try_lock(): its one compare-exchange may also fail, and without a return
\* statement the answer on a locked mutex is anything.
TryLock(t) ==
  /\ pc[t] = "out"
  /\ calls < MaxCalls /\ calls' = calls + 1
  /\ \/ /\ TryFree
        /\ locked' = 1
        /\ Goto(t, "held")
        /\ UNCHANGED answered
     \/ UNCHANGED <<locked, pc, answered>>
     \/ /\ locked = 1 /\ "try_value" \in literal
        /\ Goto(t, "held")
        /\ answered' = answered + 1
        /\ UNCHANGED locked
  /\ UNCHANGED <<waiters, waiterQueue, seen, literal, counted>>

\* unlock(): the first exchange clears locked.
Unlock(t) ==
  /\ pc[t] = "held"
  /\ locked' = 0
  /\ seen' = [seen EXCEPT ![t] = waiters]
  /\ Goto(t, "release")
  /\ UNCHANGED <<waiters, waiterQueue, literal, history, calls>>

\* Mutant of Swaps: oldS still says locked, so the exchange always fails.
SwapsStale(t) == FALSE

\* Mutant of Swaps: the test for waiters is dropped.
SwapsUntested(t) == locked = 0 /\ waiters = seen[t]

\* There are waiters, and the word is still what the first exchange left.
Swaps(t) == seen[t] > 0 /\ locked = 0 /\ waiters = seen[t]

\* The second exchange takes one waiter off, unless somebody else has changed
\* the word: then that one's unlock will.
UnlockCas(t) ==
  /\ pc[t] = "release"
  /\ \/ /\ Swaps(t)
        /\ waiters' = waiters - 1
        /\ Goto(t, "wake")
     \/ /\ ~Swaps(t)
        /\ Goto(t, "out")
        /\ UNCHANGED waiters
  /\ seen' = [seen EXCEPT ![t] = 0]
  /\ UNCHANGED <<locked, waiterQueue, literal, history, calls>>

\* Mutant of UnlockPop: an empty queue is taken for no waiter.
UnlockPopOnce(t) ==
  /\ pc[t] = "wake"
  /\ \/ /\ waiterQueue # <<>>
        /\ waiterQueue' = Tail(waiterQueue)
        /\ pc' = [pc EXCEPT ![t] = "out", ![Head(waiterQueue)] = "locking"]
     \/ /\ waiterQueue = <<>>
        /\ Goto(t, "out")
        /\ UNCHANGED waiterQueue
  /\ UNCHANGED <<locked, waiters, seen, literal, history, calls>>

\* Mutant of WokenAt: the woken coroutine does not try again.
WokenAtEnd == "out"

\* Where a woken coroutine goes on: lock()'s loop.
WokenAt == "locking"

\* unlock() spins until it pops a waiter and makes it runnable: that one is
\* then at the top of lock()'s loop again.
UnlockPop(t) ==
  /\ pc[t] = "wake"
  /\ waiterQueue # <<>>
  /\ waiterQueue' = Tail(waiterQueue)
  /\ pc' = [pc EXCEPT ![t] = "out", ![Head(waiterQueue)] = WokenAt]
  /\ UNCHANGED <<locked, waiters, seen, literal, history, calls>>

Inside(t) ==
  LockCas(t) \/ Enqueue(t) \/ Unlock(t) \/ UnlockCas(t) \/ UnlockPop(t)

Next == \E t \in Tasks : Lock(t) \/ TryLock(t) \/ Inside(t)

Spec == Init /\ [][Next]_vars

\* A coroutine that is runnable runs, and leaves its critical section.
FairSpec == Spec /\ \A t \in Tasks : WF_vars(Inside(t))
-----------------------------------------------------------------------------
(* Properties *)

In(l) == {t \in Tasks : pc[t] = l}

\* Every variable has its type.
TypeOK ==
  /\ locked \in {0, 1}
  /\ waiters \in Nat
  /\ waiterQueue \in Seq(Tasks)
  /\ pc \in [Tasks -> {"out", "locking", "held", "defer", "queued", "release", "wake"}]
  /\ seen \in [Tasks -> Nat]
  /\ literal \in Readings
  /\ counted \in Nat /\ answered \in Nat
  /\ calls \in 0 .. MaxCalls

\* At most one coroutine is between lock and unlock, and the word says so.  The
\* source breaks it.
MutualExclusion ==
  /\ \A s, t \in Tasks : pc[s] = "held" /\ pc[t] = "held" => s = t
  /\ (\E t \in Tasks : pc[t] = "held") <=> locked = 1

Slips == counted + answered

\* A locked mutex has a holder, and nobody but the coroutines that slipped past
\* the two lines ever holds it beside another: however lock, try_lock, unlock
\* and the hand-over interleave, each slip costs one holder too many and
\* nothing else does.  Without a slip this is mutual exclusion.
HoldersCounted ==
  /\ locked <= Cardinality(In("held"))
  /\ Cardinality(In("held")) <= locked + Slips

\* The waiter count matches the coroutines that wait, those whose deferred
\* push has not run yet included, less the ones an unlock has set out to pop,
\* and counts besides each coroutine that counted itself and went on: unlock
\* spins for a waiter that does not come only on account of such a one, and
\* none is forgotten.
WaitersExact ==
  waiters + Cardinality(In("wake"))
    = Cardinality(In("defer")) + Cardinality(In("queued")) + counted

\* A free mutex with waiters has somebody who will wake one or lock it.
NoStrandedWaiter ==
  locked = 0 /\ waiters > 0 =>
    \E t \in Tasks : \/ pc[t] = "locking"
                     \/ pc[t] = "wake"
                     \/ pc[t] = "release" /\ seen[t] = waiters

\* Every call of lock returns, when calls are finitely many.
LockReturns == \A t \in Tasks : pc[t] = "locking" ~> pc[t] = "held"

Mode(t) ==
  CASE pc[t] \in {"out", "release", "wake"} -> "out"
    [] pc[t] = "held" -> "held"
    [] OTHER -> "trying"
Abstract == INSTANCE Mutex WITH mode <- [t \in Tasks |-> Mode(t)], slips <- Slips

\* CoMutex is a mutex but for its slips: the first exchange of lock that finds
\* the bit clear is the acquisition, the first exchange of unlock the release,
\* the traffic of waiters is invisible, and the two lines are the only way in
\* which a coroutine first becomes a holder beside another.
IsMutex == Abstract!Spec
=============================================================================
