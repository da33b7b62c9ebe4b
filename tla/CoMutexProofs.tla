--------------------------- MODULE CoMutexProofs ---------------------------
(***************************************************************************)
(* Proofs about CoMutex, for any number of coroutines and calls and for    *)
(* every reading of its two lines, the source's own included.              *)
(***************************************************************************)
EXTENDS CoMutex, FiniteSetTheorems, SequenceTheorems, TLAPS

-----------------------------------------------------------------------------
(* Typing *)

\* The word of the mutex, the queue and the labels of unlock keep their types:
\* in particular the waiter count never goes below zero, because unlock takes
\* one off only when the word still is what it has seen.
THEOREM Typing == Spec => []TypeOK
<1>1. Init => TypeOK
  BY CallsAssumption DEF Init, TypeOK
<1>2. TypeOK /\ [Next]_vars => TypeOK'
  <2> SUFFICES ASSUME TypeOK, [Next]_vars PROVE TypeOK'
    OBVIOUS
  <2>1. ASSUME NEW t \in Tasks, Lock(t) PROVE TypeOK'
    BY <2>1, CallsAssumption DEF TypeOK, Lock, Goto, history
  <2>2. ASSUME NEW t \in Tasks, TryLock(t) PROVE TypeOK'
    <3>1. /\ locked' \in {0, 1} /\ calls' \in 0 .. MaxCalls
          /\ answered' \in Nat
      BY <2>2, CallsAssumption DEF TypeOK, TryLock, TryFree
    <3>2. pc' = pc \/ pc' = [pc EXCEPT ![t] = "held"]
      BY <2>2 DEF TryLock, TryFree, Goto
    <3> QED
      BY <2>2, <3>1, <3>2 DEF TypeOK, TryLock, TryFree
  <2>3. ASSUME NEW t \in Tasks, LockCas(t) PROVE TypeOK'
    <3>1. CASE locked = 0
      BY <2>3, <3>1 DEF TypeOK, LockCas, Goto
    <3>2. CASE locked = 1
      <4>1. waiters' \in Nat /\ locked' = locked /\ counted' \in Nat
        BY <2>3, <3>2 DEF TypeOK, LockCas
      <4>2. \E l \in {"held", "defer"} : pc' = [pc EXCEPT ![t] = l]
        BY <2>3, <3>2 DEF LockCas, Goto
      <4> QED
        BY <2>3, <4>1, <4>2 DEF TypeOK, LockCas
    <3> QED
      BY <2>3, <3>1, <3>2 DEF LockCas
  <2>4. ASSUME NEW t \in Tasks, Enqueue(t) PROVE TypeOK'
    BY <2>4 DEF TypeOK, Enqueue, Goto, history
  <2>5. ASSUME NEW t \in Tasks, Unlock(t) PROVE TypeOK'
    BY <2>5 DEF TypeOK, Unlock, Goto, history
  <2>6. ASSUME NEW t \in Tasks, UnlockCas(t) PROVE TypeOK'
    <3>1. waiters' \in Nat
      BY <2>6 DEF TypeOK, UnlockCas, Swaps
    <3>2. \E l \in {"wake", "out"} : pc' = [pc EXCEPT ![t] = l]
      BY <2>6 DEF UnlockCas, Swaps, Goto
    <3> QED
      BY <2>6, <3>1, <3>2 DEF TypeOK, UnlockCas, Swaps, history
  <2>7. ASSUME NEW t \in Tasks, UnlockPop(t) PROVE TypeOK'
    <3>1. waiterQueue' \in Seq(Tasks)
      BY <2>7 DEF TypeOK, UnlockPop, WokenAt
    <3> QED
      BY <2>7, <3>1 DEF TypeOK, UnlockPop, WokenAt, history
  <2>8. CASE UNCHANGED vars
    BY <2>8 DEF TypeOK, vars, history
  <2> QED
    BY <2>1, <2>2, <2>3, <2>4, <2>5, <2>6, <2>7, <2>8 DEF Next, Inside
<1> QED
  BY <1>1, <1>2, PTL DEF Spec

-----------------------------------------------------------------------------
(* The queue of waiting coroutines *)

\* The queue holds exactly the coroutines suspended in lock(), each once: a
\* popped coroutine is never one that runs or already holds the mutex.
QueueInv ==
  /\ \A i \in 1 .. Len(waiterQueue) : pc[waiterQueue[i]] = "queued"
  /\ \A i, j \in 1 .. Len(waiterQueue) : waiterQueue[i] = waiterQueue[j] => i = j

\* Every step keeps the queue in order.
LEMMA QueueStep ==
  ASSUME TypeOK, QueueInv, [Next]_vars
  PROVE  QueueInv'
<1>1. ASSUME NEW t \in Tasks, Lock(t) PROVE QueueInv'
  BY <1>1 DEF TypeOK, QueueInv, Lock, Goto
<1>2. ASSUME NEW t \in Tasks, TryLock(t) PROVE QueueInv'
  BY <1>2 DEF TypeOK, QueueInv, TryLock, TryFree, Goto
<1>3. ASSUME NEW t \in Tasks, LockCas(t) PROVE QueueInv'
  BY <1>3 DEF TypeOK, QueueInv, LockCas, Goto
<1>4. ASSUME NEW t \in Tasks, Enqueue(t) PROVE QueueInv'
  BY <1>4 DEF TypeOK, QueueInv, Enqueue, Goto
<1>5. ASSUME NEW t \in Tasks, Unlock(t) PROVE QueueInv'
  BY <1>5 DEF TypeOK, QueueInv, Unlock, Goto
<1>6. ASSUME NEW t \in Tasks, UnlockCas(t) PROVE QueueInv'
  BY <1>6 DEF TypeOK, QueueInv, UnlockCas, Swaps, Goto
<1>7. ASSUME NEW t \in Tasks, UnlockPop(t) PROVE QueueInv'
  <2> DEFINE w == Head(waiterQueue)
  <2>1. /\ waiterQueue \in Seq(Tasks) /\ waiterQueue # <<>>
        /\ pc \in [Tasks -> {"out", "locking", "held", "defer", "queued", "release", "wake"}]
    BY <1>7 DEF TypeOK, UnlockPop, WokenAt
  <2>2. w = waiterQueue[1] /\ 1 \in 1 .. Len(waiterQueue) /\ w \in Tasks
    BY <2>1
  <2>3. pc[w] = "queued" /\ pc[t] = "wake" /\ w # t
    BY <1>7, <2>2 DEF QueueInv, UnlockPop, WokenAt
  <2>4. /\ Len(Tail(waiterQueue)) = Len(waiterQueue) - 1
        /\ \A i \in 1 .. Len(Tail(waiterQueue)) :
             i + 1 \in 1 .. Len(waiterQueue) /\ Tail(waiterQueue)[i] = waiterQueue[i + 1]
    BY <2>1
  <2> QED
    BY <1>7, <2>1, <2>2, <2>3, <2>4 DEF QueueInv, UnlockPop, WokenAt
<1>8. CASE UNCHANGED vars
  BY <1>8 DEF QueueInv, vars
<1> QED
  BY <1>1, <1>2, <1>3, <1>4, <1>5, <1>6, <1>7, <1>8 DEF Next, Inside

\* The coroutine that unlock() pops is suspended in lock().
LEMMA PoppedIsQueued ==
  ASSUME TypeOK, QueueInv, NEW t \in Tasks, UnlockPop(t)
  PROVE  Head(waiterQueue) \in Tasks /\ pc[Head(waiterQueue)] = "queued"
BY DEF TypeOK, QueueInv, UnlockPop, WokenAt

\* The queue is in order in every reading.
LEMMA QueueAlways == Spec => [](TypeOK /\ QueueInv)
<1>1. Init => QueueInv
  BY DEF Init, QueueInv
<1>2. TypeOK /\ QueueInv /\ [Next]_vars => QueueInv'
  BY QueueStep
<1> QED
  BY <1>1, <1>2, Typing, PTL DEF Spec

-----------------------------------------------------------------------------
(* Holders *)

\* The coroutines that hold the mutex, their number, and what the step of a
\* coroutine that does not change them leaves to show.
LEMMA HoldersFinite ==
  /\ IsFiniteSet(In("held")) /\ Cardinality(In("held")) \in Nat
BY TasksAssumption, FS_Subset, FS_CardinalityType DEF In

\* A coroutine that takes the mutex, and the others, before and after.
LEMMA OneMoreHolder ==
  ASSUME TypeOK, NEW t \in Tasks, pc[t] # "held", pc' = [pc EXCEPT ![t] = "held"]
  PROVE  Cardinality(In("held")') = Cardinality(In("held")) + 1
<1>1. In("held")' = In("held") \cup {t} /\ t \notin In("held")
  BY DEF In, TypeOK
<1> QED
  BY <1>1, HoldersFinite, FS_AddElement

\* Every step keeps the count of holders: a slip adds one to both sides, and
\* the coroutine that unlock makes runnable was suspended, not a holder.
LEMMA HoldersStep ==
  ASSUME TypeOK, QueueInv, HoldersCounted, [Next]_vars
  PROVE  HoldersCounted'
<1> DEFINE H == In("held")
<1>f. /\ Cardinality(H) \in Nat /\ locked \in {0, 1}
      /\ counted \in Nat /\ answered \in Nat
  BY HoldersFinite DEF TypeOK
<1>s. ASSUME H' = H, locked' = locked, history' = history PROVE HoldersCounted'
  BY <1>s DEF HoldersCounted, Slips, history
<1>1. ASSUME NEW t \in Tasks, Lock(t) PROVE HoldersCounted'
  <2>1. H' = H
    BY <1>1 DEF Lock, Goto, In, TypeOK
  <2> QED
    BY <1>1, <1>s, <2>1 DEF Lock
<1>2. ASSUME NEW t \in Tasks, TryLock(t) PROVE HoldersCounted'
  <2>1. CASE pc' = pc /\ locked' = locked /\ answered' = answered
    <3>1. H' = H
      BY <2>1 DEF In
    <3> QED
      BY <1>2, <1>s, <2>1, <3>1 DEF TryLock, history
  <2>2. CASE /\ pc' = [pc EXCEPT ![t] = "held"]
             /\ \/ locked = 0 /\ locked' = 1 /\ answered' = answered
                \/ locked = 1 /\ locked' = 1 /\ answered' = answered + 1
    <3>1. Cardinality(H') = Cardinality(H) + 1
      BY <1>2, <2>2, OneMoreHolder DEF TryLock
    <3>2. counted' = counted
      BY <1>2 DEF TryLock
    <3> QED
      BY <1>f, <2>2, <3>1, <3>2 DEF HoldersCounted, Slips
  <2> QED
    BY <1>2, <2>1, <2>2 DEF TryLock, TryFree, Goto
<1>3. ASSUME NEW t \in Tasks, LockCas(t) PROVE HoldersCounted'
  <2>1. CASE pc' = [pc EXCEPT ![t] = "defer"] /\ locked' = locked /\ counted' = counted
    <3>1. H' = H
      BY <1>3, <2>1 DEF LockCas, In, TypeOK
    <3> QED
      BY <1>3, <1>s, <2>1, <3>1 DEF LockCas, history
  <2>2. CASE /\ pc' = [pc EXCEPT ![t] = "held"]
             /\ \/ locked = 0 /\ locked' = 1 /\ counted' = counted
                \/ locked = 1 /\ locked' = 1 /\ counted' = counted + 1
    <3>1. Cardinality(H') = Cardinality(H) + 1
      BY <1>3, <2>2, OneMoreHolder DEF LockCas
    <3>2. answered' = answered
      BY <1>3 DEF LockCas
    <3> QED
      BY <1>f, <2>2, <3>1, <3>2 DEF HoldersCounted, Slips
  <2> QED
    BY <1>3, <2>1, <2>2 DEF LockCas, Goto
<1>4. ASSUME NEW t \in Tasks, Enqueue(t) PROVE HoldersCounted'
  <2>1. H' = H
    BY <1>4 DEF Enqueue, Goto, In, TypeOK
  <2> QED
    BY <1>4, <1>s, <2>1 DEF Enqueue
<1>5. ASSUME NEW t \in Tasks, Unlock(t) PROVE HoldersCounted'
  <2>1. H' = H \ {t} /\ t \in H
    BY <1>5 DEF Unlock, Goto, In, TypeOK
  <2>2. Cardinality(H') = Cardinality(H) - 1
    BY <2>1, HoldersFinite, FS_RemoveElement
  <2>3. Cardinality(H) >= 1
    BY <2>1, HoldersFinite, FS_EmptySet
  <2>4. locked' = 0 /\ counted' = counted /\ answered' = answered
    BY <1>5 DEF Unlock, history
  <2> QED
    BY <1>f, <2>2, <2>3, <2>4 DEF HoldersCounted, Slips
<1>6. ASSUME NEW t \in Tasks, UnlockCas(t) PROVE HoldersCounted'
  <2>1. H' = H
    BY <1>6 DEF UnlockCas, Swaps, Goto, In, TypeOK
  <2> QED
    BY <1>6, <1>s, <2>1 DEF UnlockCas
<1>7. ASSUME NEW t \in Tasks, UnlockPop(t) PROVE HoldersCounted'
  <2>1. Head(waiterQueue) \in Tasks /\ pc[Head(waiterQueue)] = "queued" /\ pc[t] = "wake"
    BY <1>7, PoppedIsQueued DEF UnlockPop, WokenAt
  <2>2. H' = H
    BY <1>7, <2>1 DEF UnlockPop, WokenAt, In, TypeOK
  <2> QED
    BY <1>7, <1>s, <2>2 DEF UnlockPop, WokenAt
<1>8. CASE UNCHANGED vars
  <2>1. H' = H
    BY <1>8 DEF vars, In
  <2> QED
    BY <1>8, <1>s, <2>1 DEF vars
<1> QED
  BY <1>1, <1>2, <1>3, <1>4, <1>5, <1>6, <1>7, <1>8 DEF Next, Inside

\* In every reading a locked mutex has a holder, and each coroutine that went
\* on past a locked mutex makes room for one holder too many, no more.
THEOREM Holders == Spec => []HoldersCounted
<1>1. Init => HoldersCounted
  <2> SUFFICES ASSUME Init PROVE HoldersCounted
    OBVIOUS
  <2>1. In("held") = {}
    BY DEF Init, In
  <2>2. Cardinality(In("held")) = 0
    BY <2>1, FS_EmptySet
  <2> QED
    BY <2>2 DEF Init, HoldersCounted, Slips
<1>2. TypeOK /\ QueueInv /\ HoldersCounted /\ [Next]_vars => HoldersCounted'
  BY HoldersStep
<1> QED
  BY <1>1, <1>2, QueueAlways, PTL DEF Spec

\* Until the first slip the mutex excludes: one holder at a time, and the locked
\* bit says whether there is one.
THEOREM Exclusion == Spec => [](Slips = 0 => MutualExclusion)
<1>1. TypeOK /\ HoldersCounted => (Slips = 0 => MutualExclusion)
  <2> SUFFICES ASSUME TypeOK, HoldersCounted, Slips = 0 PROVE MutualExclusion
    OBVIOUS
  <2>1. locked \in {0, 1} /\ Cardinality(In("held")) \in Nat
    BY HoldersFinite DEF TypeOK
  <2>2. Cardinality(In("held")) = locked
    BY <2>1 DEF HoldersCounted
  <2>3. CASE locked = 0
    <3>1. In("held") = {}
      BY <2>2, <2>3, HoldersFinite, FS_EmptySet
    <3> QED
      BY <2>3, <3>1 DEF In, MutualExclusion
  <2>4. CASE locked = 1
    <3>1. PICK h : In("held") = {h}
      BY <2>2, <2>4, HoldersFinite, FS_Singleton
    <3> QED
      BY <2>4, <3>1 DEF In, MutualExclusion
  <2> QED
    BY <2>1, <2>3, <2>4
<1> QED
  BY <1>1, Typing, Holders, PTL

-----------------------------------------------------------------------------
(* Refinement *)

\* CoMutex implements the abstract mutex with its slips, in every reading: the
\* first exchange of lock() that finds the bit clear is the acquisition, the
\* first exchange of unlock() the release, and the traffic of waiters is
\* invisible.
THEOREM Refinement == Spec => IsMutex
<1> DEFINE mode == [t \in Tasks |-> Mode(t)]
<1>1. Init => Abstract!Init
  BY DEF Init, Abstract!Init, Mode, Slips
<1>2. TypeOK /\ QueueInv /\ HoldersCounted /\ [Next]_vars
        => [Abstract!Next]_<<mode, Slips>>
  <2> SUFFICES ASSUME TypeOK, QueueInv, HoldersCounted, [Next]_vars
               PROVE  Abstract!Next \/ (mode' = mode /\ Slips' = Slips)
    OBVIOUS
  <2>0. /\ pc \in [Tasks -> {"out", "locking", "held", "defer", "queued", "release", "wake"}]
        /\ locked \in {0, 1} /\ counted \in Nat /\ answered \in Nat
    BY DEF TypeOK
  <2>h. Abstract!Holders = In("held")
    BY <2>0 DEF Abstract!Holders, In, Mode
  <2>f. ASSUME locked = 0, Slips = 0 PROVE Abstract!Holders = {}
    <3>1. Cardinality(In("held")) = 0
      BY <2>f, HoldersFinite DEF HoldersCounted
    <3> QED
      BY <2>h, <3>1, HoldersFinite, FS_EmptySet
  <2>l. ASSUME locked = 1 PROVE Abstract!Holders # {}
    BY <2>0, <2>l, <2>h, HoldersFinite, FS_EmptySet DEF HoldersCounted
  <2>m. ASSUME NEW t \in Tasks, pc[t] \in {"out", "locking"},
               pc' = [pc EXCEPT ![t] = "held"]
        PROVE  /\ mode[t] \in {"out", "trying"}
               /\ mode' = [mode EXCEPT ![t] = "held"]
    BY <2>0, <2>m DEF Mode
  <2>1. ASSUME NEW t \in Tasks, Lock(t) PROVE Abstract!Request(t)
    BY <2>0, <2>1 DEF Lock, Goto, Mode, Abstract!Request, Slips, history
  <2>2. ASSUME NEW t \in Tasks, TryLock(t)
        PROVE  \/ Abstract!Acquire(t) \/ Abstract!Slip(t)
               \/ mode' = mode /\ Slips' = Slips
    <3>0. counted' = counted /\ pc[t] = "out"
      BY <2>2 DEF TryLock
    <3>1. CASE pc' = pc /\ answered' = answered
      BY <3>0, <3>1 DEF Mode, Slips
    <3>2. CASE locked = 0 /\ pc' = [pc EXCEPT ![t] = "held"] /\ answered' = answered
      <4>1. Slips' = Slips
        BY <3>0, <3>2 DEF Slips
      <4> QED
        BY <2>f, <2>m, <3>0, <3>2, <4>1 DEF Abstract!Acquire
    <3>3. CASE locked = 1 /\ pc' = [pc EXCEPT ![t] = "held"] /\ answered' = answered + 1
      <4>1. Slips' = Slips + 1
        BY <2>0, <3>0, <3>3 DEF Slips
      <4> QED
        BY <2>l, <2>m, <3>0, <3>3, <4>1 DEF Abstract!Slip
    <3> QED
      BY <2>2, <3>1, <3>2, <3>3 DEF TryLock, TryFree, Goto
  <2>3. ASSUME NEW t \in Tasks, LockCas(t)
        PROVE  \/ Abstract!Acquire(t) \/ Abstract!Slip(t)
               \/ mode' = mode /\ Slips' = Slips
    <3>0. answered' = answered /\ pc[t] = "locking"
      BY <2>3 DEF LockCas
    <3>1. CASE pc' = [pc EXCEPT ![t] = "defer"] /\ counted' = counted
      BY <2>0, <3>0, <3>1 DEF Mode, Slips
    <3>2. CASE locked = 0 /\ pc' = [pc EXCEPT ![t] = "held"] /\ counted' = counted
      <4>1. Slips' = Slips
        BY <3>0, <3>2 DEF Slips
      <4> QED
        BY <2>f, <2>m, <3>0, <3>2, <4>1 DEF Abstract!Acquire
    <3>3. CASE locked = 1 /\ pc' = [pc EXCEPT ![t] = "held"] /\ counted' = counted + 1
      <4>1. Slips' = Slips + 1
        BY <2>0, <3>0, <3>3 DEF Slips
      <4> QED
        BY <2>l, <2>m, <3>0, <3>3, <4>1 DEF Abstract!Slip
    <3> QED
      BY <2>3, <3>1, <3>2, <3>3 DEF LockCas, Goto
  <2>4. ASSUME NEW t \in Tasks, Enqueue(t) PROVE mode' = mode /\ Slips' = Slips
    BY <2>0, <2>4 DEF Enqueue, Goto, Mode, Slips, history
  <2>5. ASSUME NEW t \in Tasks, Unlock(t) PROVE Abstract!Release(t)
    BY <2>0, <2>5 DEF Unlock, Goto, Mode, Abstract!Release, Slips, history
  <2>6. ASSUME NEW t \in Tasks, UnlockCas(t) PROVE mode' = mode /\ Slips' = Slips
    <3>1. \E l \in {"wake", "out"} : pc' = [pc EXCEPT ![t] = l]
      BY <2>6 DEF UnlockCas, Swaps, Goto
    <3> QED
      BY <2>0, <2>6, <3>1 DEF UnlockCas, Swaps, Mode, Slips, history
  <2>7. ASSUME NEW t \in Tasks, UnlockPop(t) PROVE mode' = mode /\ Slips' = Slips
    <3>1. Head(waiterQueue) \in Tasks /\ pc[Head(waiterQueue)] = "queued"
      BY <2>7, PoppedIsQueued
    <3> QED
      BY <2>0, <2>7, <3>1 DEF UnlockPop, WokenAt, Mode, Slips, history
  <2>8. CASE UNCHANGED vars
    BY <2>8 DEF vars, Mode, Slips, history
  <2> QED
    BY <2>1, <2>2, <2>3, <2>4, <2>5, <2>6, <2>7, <2>8 DEF Next, Inside, Abstract!Next
<1> QED
  BY <1>1, <1>2, QueueAlways, Holders, PTL DEF Spec, IsMutex, Abstract!Spec

-----------------------------------------------------------------------------
(* No waiter is left behind *)

\* unlock() may leave its second exchange to somebody else only when somebody
\* else is there: a free mutex with waiters always has a coroutine that will
\* wake one of them or lock it.
THEOREM NobodyStranded == Spec => []NoStrandedWaiter
<1>1. Init => NoStrandedWaiter
  BY DEF Init, NoStrandedWaiter
<1>2. TypeOK /\ TypeOK' /\ NoStrandedWaiter /\ [Next]_vars => NoStrandedWaiter'
  <2> SUFFICES ASSUME TypeOK, TypeOK', NoStrandedWaiter, [Next]_vars,
                      locked' = 0, waiters' > 0
               PROVE  \E t \in Tasks : \/ pc'[t] = "locking"
                                       \/ pc'[t] = "wake"
                                       \/ pc'[t] = "release" /\ seen'[t] = waiters'
    BY DEF NoStrandedWaiter
  <2>1. ASSUME NEW t \in Tasks, Lock(t) PROVE pc'[t] = "locking"
    BY <2>1 DEF TypeOK, Lock, Goto
  <2>2. ASSUME NEW t \in Tasks, TryLock(t)
        PROVE  locked = 0 /\ pc' = pc /\ waiters' = waiters /\ seen' = seen
    BY <2>2 DEF TypeOK, TryLock, TryFree, Goto
  <2>3. ASSUME NEW t \in Tasks, LockCas(t) PROVE FALSE
    BY <2>3 DEF TypeOK, LockCas
  <2>4. ASSUME NEW t \in Tasks, Enqueue(t)
        PROVE  \E s \in Tasks : \/ pc'[s] = "locking"
                                \/ pc'[s] = "wake"
                                \/ pc'[s] = "release" /\ seen'[s] = waiters'
    BY <2>4 DEF TypeOK, NoStrandedWaiter, Enqueue, Goto
  <2>5. ASSUME NEW t \in Tasks, Unlock(t)
        PROVE  pc'[t] = "release" /\ seen'[t] = waiters'
    BY <2>5 DEF TypeOK, Unlock, Goto
  <2>6. ASSUME NEW t \in Tasks, UnlockCas(t)
        PROVE  \E s \in Tasks : \/ pc'[s] = "locking"
                                \/ pc'[s] = "wake"
                                \/ pc'[s] = "release" /\ seen'[s] = waiters'
    <3>1. CASE pc' = [pc EXCEPT ![t] = "wake"]
      BY <3>1 DEF TypeOK
    <3>2. CASE /\ ~(seen[t] > 0 /\ locked = 0 /\ waiters = seen[t])
               /\ pc' = [pc EXCEPT ![t] = "out"] /\ waiters' = waiters
      <4>1. locked = 0 /\ waiters > 0 /\ seen[t] # waiters
        BY <2>6, <3>2 DEF TypeOK, UnlockCas, Swaps
      <4>2. PICK s \in Tasks : \/ pc[s] = "locking"
                               \/ pc[s] = "wake"
                               \/ pc[s] = "release" /\ seen[s] = waiters
        BY <4>1 DEF NoStrandedWaiter
      <4>3. s # t
        BY <2>6, <4>1, <4>2 DEF UnlockCas, Swaps
      <4> QED
        BY <2>6, <3>2, <4>2, <4>3 DEF TypeOK, UnlockCas, Swaps
    <3> QED
      BY <2>6, <3>1, <3>2 DEF UnlockCas, Swaps, Goto
  <2>7. ASSUME NEW t \in Tasks, UnlockPop(t)
        PROVE  Head(waiterQueue) \in Tasks /\ pc'[Head(waiterQueue)] = "locking"
    BY <2>7 DEF TypeOK, UnlockPop, WokenAt
  <2>8. CASE UNCHANGED vars
    BY <2>8 DEF vars, NoStrandedWaiter
  <2> QED
    BY <2>1, <2>2, <2>3, <2>4, <2>5, <2>6, <2>7, <2>8 DEF Next, Inside, NoStrandedWaiter
<1> QED
  BY <1>1, <1>2, Typing, PTL DEF Spec

-----------------------------------------------------------------------------
(* The waiter count *)

\* The 31-bit waiter count is exact: it counts the coroutines suspended in
\* lock(), the ones whose deferred push has not run yet included, less those an
\* unlock() is already spinning for, and each that counted itself and went on.
\* So unlock() spins for nobody only on account of the latter.
THEOREM WaiterCount == Spec => []WaitersExact
<1>1. Init => WaitersExact
  <2> SUFFICES ASSUME Init PROVE WaitersExact
    OBVIOUS
  <2>1. In("wake") = {} /\ In("defer") = {} /\ In("queued") = {}
    BY DEF Init, In
  <2>2. /\ Cardinality(In("wake")) = 0 /\ Cardinality(In("defer")) = 0
        /\ Cardinality(In("queued")) = 0
    BY <2>1, FS_EmptySet
  <2> QED
    BY <2>2 DEF Init, WaitersExact
<1>2. TypeOK /\ QueueInv /\ WaitersExact /\ [Next]_vars => WaitersExact'
  <2> SUFFICES ASSUME TypeOK, QueueInv, WaitersExact, [Next]_vars
               PROVE  WaitersExact'
    OBVIOUS
  <2> DEFINE W == In("wake")
             D == In("defer")
             Q == In("queued")
  <2>f. /\ IsFiniteSet(W) /\ IsFiniteSet(D) /\ IsFiniteSet(Q)
        /\ Cardinality(W) \in Nat /\ Cardinality(D) \in Nat /\ Cardinality(Q) \in Nat
        /\ waiters \in Nat /\ counted \in Nat
    BY TasksAssumption, FS_Subset, FS_CardinalityType DEF In, TypeOK
  <2>s. ASSUME W' = W, D' = D, Q' = Q, waiters' = waiters, counted' = counted
        PROVE  WaitersExact'
    BY <2>s DEF WaitersExact
  <2>1. ASSUME NEW t \in Tasks, Lock(t) PROVE WaitersExact'
    <3>1. W' = W /\ D' = D /\ Q' = Q
      BY <2>1 DEF Lock, Goto, In, TypeOK
    <3> QED
      BY <2>1, <2>s, <3>1 DEF Lock, history
  <2>2. ASSUME NEW t \in Tasks, TryLock(t) PROVE WaitersExact'
    <3>1. W' = W /\ D' = D /\ Q' = Q
      BY <2>2 DEF TryLock, TryFree, Goto, In, TypeOK
    <3> QED
      BY <2>2, <2>s, <3>1 DEF TryLock, TryFree
  <2>3. ASSUME NEW t \in Tasks, LockCas(t) PROVE WaitersExact'
    <3>1. CASE /\ pc' = [pc EXCEPT ![t] = "held"] /\ waiters' = waiters
               /\ counted' = counted
      <4>1. W' = W /\ D' = D /\ Q' = Q
        BY <2>3, <3>1 DEF LockCas, In, TypeOK
      <4> QED
        BY <2>s, <3>1, <4>1
    <3>2. CASE /\ pc' = [pc EXCEPT ![t] = "defer"] /\ waiters' = waiters + 1
               /\ counted' = counted
      <4>1. W' = W /\ D' = D \cup {t} /\ t \notin D /\ Q' = Q
        BY <2>3, <3>2 DEF LockCas, In, TypeOK
      <4>2. Cardinality(D') = Cardinality(D) + 1
        BY <2>f, <4>1, FS_AddElement
      <4> QED
        BY <2>f, <3>2, <4>1, <4>2 DEF WaitersExact
    <3>3. CASE /\ pc' = [pc EXCEPT ![t] = "held"] /\ waiters' = waiters + 1
               /\ counted' = counted + 1
      <4>1. W' = W /\ D' = D /\ Q' = Q
        BY <2>3, <3>3 DEF LockCas, In, TypeOK
      <4> QED
        BY <2>f, <3>3, <4>1 DEF WaitersExact
    <3> QED
      BY <2>3, <3>1, <3>2, <3>3 DEF LockCas, Goto
  <2>4. ASSUME NEW t \in Tasks, Enqueue(t) PROVE WaitersExact'
    <3>1. W' = W /\ D' = D \ {t} /\ t \in D /\ Q' = Q \cup {t} /\ t \notin Q
      BY <2>4 DEF Enqueue, Goto, In, TypeOK
    <3>2. Cardinality(D') = Cardinality(D) - 1
      BY <2>f, <3>1, FS_RemoveElement
    <3>3. Cardinality(Q') = Cardinality(Q) + 1
      BY <2>f, <3>1, FS_AddElement
    <3> QED
      BY <2>f, <2>4, <3>1, <3>2, <3>3 DEF Enqueue, WaitersExact, history
  <2>5. ASSUME NEW t \in Tasks, Unlock(t) PROVE WaitersExact'
    <3>1. W' = W /\ D' = D /\ Q' = Q
      BY <2>5 DEF Unlock, Goto, In, TypeOK
    <3> QED
      BY <2>5, <2>s, <3>1 DEF Unlock, history
  <2>6. ASSUME NEW t \in Tasks, UnlockCas(t) PROVE WaitersExact'
    <3>0. counted' = counted
      BY <2>6 DEF UnlockCas, history
    <3>1. CASE pc' = [pc EXCEPT ![t] = "wake"] /\ waiters' = waiters - 1
      <4>1. W' = W \cup {t} /\ t \notin W /\ D' = D /\ Q' = Q
        BY <2>6, <3>1 DEF UnlockCas, Swaps, In, TypeOK
      <4>2. Cardinality(W') = Cardinality(W) + 1
        BY <2>f, <4>1, FS_AddElement
      <4> QED
        BY <2>f, <3>0, <3>1, <4>1, <4>2 DEF WaitersExact
    <3>2. CASE pc' = [pc EXCEPT ![t] = "out"] /\ waiters' = waiters
      <4>1. W' = W /\ D' = D /\ Q' = Q
        BY <2>6, <3>2 DEF UnlockCas, Swaps, In, TypeOK
      <4> QED
        BY <2>s, <3>0, <3>2, <4>1
    <3> QED
      BY <2>6, <3>1, <3>2 DEF UnlockCas, Swaps, Goto
  <2>7. ASSUME NEW t \in Tasks, UnlockPop(t) PROVE WaitersExact'
    <3> DEFINE w == Head(waiterQueue)
    <3>1. w \in Tasks /\ pc[w] = "queued" /\ pc[t] = "wake" /\ w # t
      BY <2>7, PoppedIsQueued DEF UnlockPop, WokenAt
    <3>2. /\ pc' = [pc EXCEPT ![t] = "out", ![w] = "locking"] /\ waiters' = waiters
          /\ counted' = counted
      BY <2>7 DEF UnlockPop, WokenAt, history
    <3> HIDE DEF w
    <3>3. W' = W \ {t} /\ t \in W /\ D' = D /\ Q' = Q \ {w} /\ w \in Q
      BY <3>1, <3>2 DEF In, TypeOK
    <3>4. Cardinality(W') = Cardinality(W) - 1 /\ Cardinality(Q') = Cardinality(Q) - 1
      BY <2>f, <3>3, FS_RemoveElement
    <3> QED
      BY <2>f, <3>2, <3>3, <3>4 DEF WaitersExact
  <2>8. CASE UNCHANGED vars
    <3>1. W' = W /\ D' = D /\ Q' = Q
      BY <2>8 DEF vars, In
    <3> QED
      BY <2>8, <2>s, <3>1 DEF vars, history
  <2> QED
    BY <2>1, <2>2, <2>3, <2>4, <2>5, <2>6, <2>7, <2>8 DEF Next, Inside
<1> QED
  BY <1>1, <1>2, QueueAlways, PTL DEF Spec
=============================================================================
