--------------------------- MODULE LFQueueProofs ---------------------------
(***************************************************************************)
(* Proofs about LFQueue, for any threads, addresses, stale data and number *)
(* of calls: the two-part reference count of lockfree_queue.hpp is exact   *)
(* and no node is used after it was deleted.                               *)
(*                                                                         *)
(* RefCountExact is the inductive invariant, together with TypeOK and with *)
(* EndInv (the destructor ends all threads at once).  The heart of it is   *)
(* DeleteSafe: whoever brings both counters of a node to zero is its only  *)
(* holder, and both pointers have left it.                                 *)
(***************************************************************************)
EXTENDS LFQueue, FiniteSetTheorems, TLAPS

\* What release_ref and free_external_counter do to everything but the two
\* counters: t gives up its reference, and a node they delete is one that both
\* pointers have left and nobody else holds.
Settles(t) ==
  /\ UNCHANGED <<head, tail, next, tailLeft, headLeft>>
  /\ live' \subseteq live
  /\ \A n \in live \ live' :
       /\ n \in tailLeft /\ n \in headLeft
       /\ \A u \in Threads : pc[u] \in Holding /\ old[u].ptr = n => u = t
  /\ \A u \in Threads \ {t} :
       /\ pc'[u] = pc[u] /\ old'[u] = old[u] /\ mine'[u] = mine[u]
       /\ nxt'[u] = nxt[u] /\ stored'[u] = stored[u]
  /\ pc[t] \in Holding /\ pc'[t] \notin Holding
  /\ mine'[t] \in {mine[t], NULL}
  /\ pc'[t] \in {"inc_tail", "push_stat", "pop_stat", "inc_head", "idle"}
  /\ pc'[t] = "inc_tail" => mine'[t] = mine[t] /\ mine[t] # NULL

\* A node without a pointer or a thread that still has to settle one of its
\* external counts has no surplus.
LEMMA Balance ==
  ASSUME TypeOK, PtrInv, FreerInv, CountInv, NEW n \in live
  PROVE  /\ external[n] = (IF TailPending(n) THEN 1 ELSE 0) + (IF HeadPending(n) THEN 1 ELSE 0)
         /\ \A a \in TailSurplus(n), b \in HeadSurplus(n) :
              internal[n] + a + b = Cardinality(Holders(n))
         /\ ~TailPending(n) => TailSurplus(n) = {0} /\ n \in tailLeft
         /\ ~HeadPending(n) => HeadSurplus(n) = {0} /\ n \in headLeft
         /\ \A t \in TailFreers(n) : old[t].cnt - 1 \in TailSurplus(n)
         /\ \A t \in HeadFreers(n) : old[t].cnt - 1 \in HeadSurplus(n)
         /\ IsFiniteSet(Holders(n))
<1>1. /\ external[n] = (IF TailPending(n) THEN 1 ELSE 0) + (IF HeadPending(n) THEN 1 ELSE 0)
      /\ \A a \in TailSurplus(n), b \in HeadSurplus(n) :
           internal[n] + a + b = Cardinality(Holders(n))
  BY DEF CountInv
<1>2. ~TailPending(n) => TailSurplus(n) = {0} /\ n \in tailLeft
  BY DEF TailPending, TailSurplus, PtrInv
<1>3. ~HeadPending(n) => HeadSurplus(n) = {0} /\ n \in headLeft
  BY DEF HeadPending, HeadSurplus, PtrInv
<1>4. \A t \in TailFreers(n) : old[t].cnt - 1 \in TailSurplus(n)
  BY DEF TailFreers, TailSurplus, PtrInv, FreerInv
<1>5. \A t \in HeadFreers(n) : old[t].cnt - 1 \in HeadSurplus(n)
  BY DEF HeadFreers, HeadSurplus, PtrInv, FreerInv
<1>6. IsFiniteSet(Holders(n))
  <2>1. Holders(n) \subseteq Threads
    BY DEF Holders
  <2> QED
    BY <2>1, ThreadsAssumption, FS_Subset
<1> QED
  BY <1>1, <1>2, <1>3, <1>4, <1>5, <1>6

\* A set with one element.
LEMMA Singleton ==
  ASSUME NEW S, IsFiniteSet(S), NEW x \in S, Cardinality(S) = 1
  PROVE  S = {x}
<1>1. Cardinality(S \ {x}) = 0 /\ IsFiniteSet(S \ {x})
  BY FS_RemoveElement
<1>2. S \ {x} = {}
  BY <1>1, FS_EmptySet
<1> QED
  BY <1>2

\* A node is deleted only by the last thread that holds it, after both pointers
\* have left it and both of their counts were settled.
LEMMA DeleteSafe ==
  ASSUME TypeOK, PtrInv, OwnInv, HoldInv, FreerInv, CountInv, NEW t \in Threads,
         FreeExternal(t) \/ ReleaseRef(t) \/ ReleaseEmpty(t)
  PROVE  Settles(t)
<1> DEFINE n == old[t].ptr
<1>1. /\ pc[t] \in Holding /\ n \in live /\ n \in Nodes /\ t \in Holders(n)
      /\ internal[n] \in Int /\ external[n] \in 0 .. 2 /\ old[t].cnt \in Nat
      /\ live \subseteq Nodes
  BY DEF FreeExternal, ReleaseRef, ReleaseEmpty, At, HoldInv, TypeOK, Holders, Word,
         Holding, TailHolding, HeadHolding
<1>2. /\ UNCHANGED <<head, tail, next, tailLeft, headLeft>>
      /\ live' \subseteq live /\ live \ live' \subseteq {n}
  BY DEF FreeExternal, ReleaseRef, ReleaseEmpty, SetCount, ptrs, log
<1>3. \A u \in Threads \ {t} :
        /\ pc'[u] = pc[u] /\ old'[u] = old[u] /\ mine'[u] = mine[u]
        /\ nxt'[u] = nxt[u] /\ stored'[u] = stored[u]
  BY DEF FreeExternal, ReleaseRef, ReleaseEmpty, Goto, Return, local, TypeOK
<1>4. /\ pc'[t] \in {"inc_tail", "push_stat", "pop_stat", "inc_head", "idle"}
      /\ pc'[t] \notin Holding
      /\ mine'[t] \in {mine[t], NULL}
      /\ pc'[t] = "inc_tail" => mine'[t] = mine[t] /\ mine[t] # NULL
  <2>1. CASE FreeExternal(t)
    BY <2>1 DEF FreeExternal, Goto, AfterCount, Again, local, TypeOK, OwnInv,
                Holding, TailHolding, HeadHolding
  <2>2. CASE ReleaseRef(t)
    BY <2>2 DEF ReleaseRef, Goto, AfterCount, Again, local, TypeOK, OwnInv,
                Holding, TailHolding, HeadHolding
  <2>3. CASE ReleaseEmpty(t)
    BY <2>3 DEF ReleaseEmpty, Goto, Return, TypeOK, Holding, TailHolding, HeadHolding
  <2> QED
    BY <2>1, <2>2, <2>3
<1>5. ASSUME n \notin live'
      PROVE  /\ n \in tailLeft /\ n \in headLeft
             /\ \A u \in Threads : pc[u] \in Holding /\ old[u].ptr = n => u = t
  <2>1. /\ ~TailPending(n) => TailSurplus(n) = {0} /\ n \in tailLeft
        /\ ~HeadPending(n) => HeadSurplus(n) = {0} /\ n \in headLeft
        /\ external[n] = (IF TailPending(n) THEN 1 ELSE 0) + (IF HeadPending(n) THEN 1 ELSE 0)
        /\ \A a \in TailSurplus(n), b \in HeadSurplus(n) :
             internal[n] + a + b = Cardinality(Holders(n))
        /\ IsFiniteSet(Holders(n))
    BY <1>1, Balance
  <2>2. CASE FreeExternal(t) /\ pc[t] = "free_tail"
    <3>1. /\ internal[n] + (old[t].cnt - 2) = 0 /\ external[n] - 1 = 0
      BY <1>1, <1>5, <2>2 DEF FreeExternal, SetCount, CountIncrease
    <3>2. t \in TailFreers(n) /\ TailPending(n) /\ n \in tailLeft
      BY <2>2 DEF TailFreers, TailPending, FreerInv
    <3>3. ~HeadPending(n)
      BY <1>1, <2>1, <3>1, <3>2
    <3>4. old[t].cnt - 1 \in TailSurplus(n) /\ 0 \in HeadSurplus(n)
      BY <1>1, <2>1, <3>2, <3>3, Balance
    <3>5. internal[n] + (old[t].cnt - 1) + 0 = Cardinality(Holders(n))
      BY <2>1, <3>4
    <3>6. Cardinality(Holders(n)) = 1
      BY ONLY <1>1, <3>1, <3>5
    <3>7. Holders(n) = {t}
      BY <1>1, <2>1, <3>6, Singleton
    <3> QED
      BY <2>1, <3>2, <3>3, <3>7 DEF Holders
  <2>3. CASE FreeExternal(t) /\ pc[t] = "free_head"
    <3>1. /\ internal[n] + (old[t].cnt - 2) = 0 /\ external[n] - 1 = 0
      BY <1>1, <1>5, <2>3 DEF FreeExternal, SetCount, CountIncrease
    <3>2. t \in HeadFreers(n) /\ HeadPending(n) /\ n \in headLeft
      BY <2>3 DEF HeadFreers, HeadPending, FreerInv
    <3>3. ~TailPending(n)
      BY <1>1, <2>1, <3>1, <3>2
    <3>4. 0 \in TailSurplus(n) /\ old[t].cnt - 1 \in HeadSurplus(n)
      BY <1>1, <2>1, <3>2, <3>3, Balance
    <3>5. internal[n] + 0 + (old[t].cnt - 1) = Cardinality(Holders(n))
      BY <2>1, <3>4
    <3>6. Cardinality(Holders(n)) = 1
      BY ONLY <1>1, <3>1, <3>5
    <3>7. Holders(n) = {t}
      BY <1>1, <2>1, <3>6, Singleton
    <3> QED
      BY <2>1, <3>2, <3>3, <3>7 DEF Holders
  <2>4. CASE ReleaseRef(t) \/ ReleaseEmpty(t)
    <3>1. internal[n] - 1 = 0 /\ external[n] = 0
      BY <1>1, <1>5, <2>4 DEF ReleaseRef, ReleaseEmpty, SetCount
    <3>2. ~TailPending(n) /\ ~HeadPending(n)
      BY <2>1, <3>1
    <3>3. internal[n] + 0 + 0 = Cardinality(Holders(n))
      BY <2>1, <3>2
    <3>4. Holders(n) = {t}
      BY <1>1, <2>1, <3>1, <3>3, Singleton
    <3> QED
      BY <2>1, <3>2, <3>4 DEF Holders
  <2> QED
    BY <2>2, <2>3, <2>4 DEF FreeExternal
<1> QED
  BY <1>1, <1>2, <1>3, <1>4, <1>5 DEF Settles

\* Settling a count disturbs neither the list nor what the other threads know.
LEMMA SettleStep ==
  ASSUME TypeOK, PtrInv, ChainInv, OwnInv, HoldInv, FreerInv, NEW t \in Threads, Settles(t)
  PROVE  PtrInv' /\ ChainInv' /\ OwnInv' /\ HoldInv' /\ FreerInv'
<1>1. /\ UNCHANGED <<head, tail, next, tailLeft, headLeft>>
      /\ live' \subseteq live
      /\ \A n \in live \ live' : n \in tailLeft /\ n \in headLeft
  BY DEF Settles
<1>2. \A u \in Threads \ {t} :
        /\ pc'[u] = pc[u] /\ old'[u] = old[u] /\ mine'[u] = mine[u]
        /\ nxt'[u] = nxt[u] /\ stored'[u] = stored[u]
  BY DEF Settles
<1>3. /\ pc'[t] \in {"inc_tail", "push_stat", "pop_stat", "inc_head", "idle"}
      /\ mine'[t] \in {mine[t], NULL}
      /\ pc'[t] = "inc_tail" => mine'[t] = mine[t] /\ mine[t] # NULL
  BY DEF Settles
<1>4. PtrInv'
  BY <1>1 DEF PtrInv
<1>5. ChainInv'
  BY <1>1 DEF ChainInv
<1>6. ASSUME NEW u \in Threads, pc'[u] \in Holding
      PROVE  u # t /\ pc[u] \in Holding /\ old'[u].ptr = old[u].ptr /\ old[u].ptr \in live'
  <2>1. u # t
    BY <1>3, <1>6 DEF Holding, TailHolding, HeadHolding
  <2>2. pc[u] \in Holding /\ old'[u].ptr = old[u].ptr
    BY <1>2, <1>6, <2>1
  <2>3. old[u].ptr \in live
    BY <2>2 DEF HoldInv
  <2>4. old[u].ptr \in live \ live' => u = t
    BY <2>2 DEF Settles
  <2> QED
    BY <2>1, <2>2, <2>3, <2>4
<1>7. OwnInv'
  <2> SUFFICES ASSUME NEW s \in Threads
               PROVE  OwnInv!(s)'
    BY DEF OwnInv
  <2>1. OwnInv!(s)
    BY DEF OwnInv
  <2>2. mine'[s] # NULL => mine'[s] = mine[s]
    BY <1>2, <1>3
  <2>3. \A u \in Threads : mine'[u] # NULL => mine'[u] = mine[u]
    BY <1>2, <1>3
  <2>4. \A n : Holders(n)' \subseteq Holders(n)
    BY <1>6 DEF Holders
  <2>5. CASE s = t
    BY <1>1, <1>3, <2>1, <2>2, <2>3, <2>4, <2>5
  <2>6. CASE s # t
    BY <1>1, <1>2, <2>1, <2>2, <2>3, <2>4, <2>6
  <2> QED
    BY <2>5, <2>6
<1>8. HoldInv'
  <2> SUFFICES ASSUME NEW s \in Threads
               PROVE  HoldInv!(s)'
    BY DEF HoldInv
  <2>1. HoldInv!(s)
    BY DEF HoldInv
  <2>2. CASE s = t
    BY <1>3, <2>2 DEF Holding, TailHolding, HeadHolding
  <2>3. CASE s # t
    BY <1>1, <1>2, <1>6, <2>1, <2>3
  <2> QED
    BY <2>2, <2>3
<1>9. FreerInv'
  <2>1. \A u \in Threads : pc'[u] \in {"free_tail", "take", "free_head"} =>
          pc'[u] = pc[u] /\ old'[u] = old[u]
    BY <1>2, <1>3
  <2> QED
    BY <1>1, <2>1 DEF FreerInv
<1> QED
  BY <1>4, <1>5, <1>7, <1>8, <1>9

\* Every step keeps both pointers on live nodes.
LEMMA PtrStep ==
  ASSUME TypeOK, PtrInv, ChainInv, OwnInv, HoldInv, FreerInv, CountInv, NEW t \in Threads, Step(t)
  PROVE  PtrInv'
<1>1. CASE PushCall(t)
  BY <1>1, NodesAssumption DEF TypeOK, Word, Holding, TailHolding, HeadHolding, PtrInv,
       ChainInv, OwnInv, HoldInv, PushCall, NewNode, Goto, At, ptrs
<1>2. CASE IncTail(t)
  BY <1>2, NodesAssumption DEF TypeOK, Word, Holding, TailHolding, HeadHolding, PtrInv,
       ChainInv, OwnInv, HoldInv, IncTail, Counted, Goto, At, mem, calls, log
<1>3. CASE CasData(t)
  BY <1>3, NodesAssumption DEF TypeOK, Word, Holding, TailHolding, HeadHolding, PtrInv,
       ChainInv, OwnInv, HoldInv, CasData, Goto, At, ptrs, calls, log
<1>4. CASE CasNext(t)
  BY <1>4, NodesAssumption, SMTT(20) DEF TypeOK, Word, Holding, TailHolding, HeadHolding, PtrInv,
       ChainInv, OwnInv, HoldInv, CasNext, NewNode, Spare, Goto, At, ptrs, calls
<1>5. CASE SetNewTail(t)
  BY <1>5, NodesAssumption DEF TypeOK, Word, Holding, TailHolding, HeadHolding, PtrInv,
       ChainInv, OwnInv, HoldInv, SetNewTail, Counted, Goto, At, mem, calls
<1>6. CASE PushReturn(t)
  BY <1>6, NodesAssumption DEF TypeOK, Word, Holding, TailHolding, HeadHolding, PtrInv,
       ChainInv, OwnInv, HoldInv, PushReturn, Return, Counted, Goto, At, mem, ptrs, log
<1>7. CASE PopCall(t)
  BY <1>7, NodesAssumption DEF TypeOK, Word, Holding, TailHolding, HeadHolding, PtrInv,
       ChainInv, OwnInv, HoldInv, PopCall, Goto, At, mem, ptrs, log
<1>8. CASE PopTest(t)
  BY <1>8, NodesAssumption DEF TypeOK, Word, Holding, TailHolding, HeadHolding, PtrInv,
       ChainInv, OwnInv, HoldInv, PopTest, Return, Counted, Goto, mem, ptrs, calls, log
<1>9. CASE PopEnter(t)
  BY <1>9, NodesAssumption DEF TypeOK, Word, Holding, TailHolding, HeadHolding, PtrInv,
       ChainInv, OwnInv, HoldInv, PopEnter, Goto, mem, ptrs, calls, log
<1>10. CASE IncHead(t)
  BY <1>10, NodesAssumption DEF TypeOK, Word, Holding, TailHolding, HeadHolding, PtrInv,
       ChainInv, OwnInv, HoldInv, IncHead, Counted, Goto, At, mem, calls, log
<1>11. CASE PopAtTail(t)
  BY <1>11, NodesAssumption DEF TypeOK, Word, Holding, TailHolding, HeadHolding, PtrInv,
       ChainInv, OwnInv, HoldInv, PopAtTail, AtTail, Goto, At, mem, ptrs, local, calls, log
<1>12. CASE LoadNext(t)
  BY <1>12, NodesAssumption DEF TypeOK, Word, Holding, TailHolding, HeadHolding, PtrInv,
       ChainInv, OwnInv, HoldInv, LoadNext, Goto, At, mem, ptrs, calls, log
<1>13. CASE CasHead(t)
  BY <1>13, NodesAssumption DEF TypeOK, Word, Holding, TailHolding, HeadHolding, PtrInv,
       ChainInv, OwnInv, HoldInv, CasHead, Counted, Goto, At, mem, calls
<1>14. CASE Take(t)
  BY <1>14, NodesAssumption DEF TypeOK, Word, Holding, TailHolding, HeadHolding, PtrInv,
       ChainInv, OwnInv, HoldInv, Take, Goto, At, ptrs, calls, log
<1>15. CASE PopReturn(t)
  BY <1>15, NodesAssumption DEF TypeOK, Word, Holding, TailHolding, HeadHolding, PtrInv,
       ChainInv, OwnInv, HoldInv, PopReturn, Return, Counted, Goto, At, mem, ptrs, calls, log
<1>16. CASE FreeExternal(t)
  BY <1>16, DeleteSafe, SettleStep
<1>17. CASE ReleaseRef(t)
  BY <1>17, DeleteSafe, SettleStep
<1>18. CASE ReleaseEmpty(t)
  BY <1>18, DeleteSafe, SettleStep
<1> QED
  BY <1>1, <1>2, <1>3, <1>4, <1>5, <1>6, <1>7, <1>8, <1>9, <1>10, <1>11, <1>12, <1>13, <1>14,
       <1>15, <1>16, <1>17, <1>18 DEF Step

\* Every step keeps the list from the head on.
LEMMA ChainStep ==
  ASSUME TypeOK, PtrInv, ChainInv, OwnInv, HoldInv, FreerInv, CountInv, NEW t \in Threads, Step(t)
  PROVE  ChainInv'
<1>1. CASE PushCall(t)
  BY <1>1, NodesAssumption, SMTT(20) DEF TypeOK, Word, Holding, TailHolding, HeadHolding, PtrInv,
       ChainInv, OwnInv, HoldInv, PushCall, NewNode, Goto, At, ptrs
<1>2. CASE IncTail(t)
  BY <1>2, NodesAssumption DEF TypeOK, Word, Holding, TailHolding, HeadHolding, PtrInv,
       ChainInv, OwnInv, HoldInv, IncTail, Counted, Goto, At, mem, calls, log
<1>3. CASE CasData(t)
  BY <1>3, NodesAssumption DEF TypeOK, Word, Holding, TailHolding, HeadHolding, PtrInv,
       ChainInv, OwnInv, HoldInv, CasData, Goto, At, ptrs, calls, log
<1>4. CASE CasNext(t)
  <2> DEFINE n == old[t].ptr
  <2>0. /\ n \in live /\ n \in Nodes /\ mine[t] \in Nodes /\ mine[t] \in live /\ mine[t] # n
        /\ live \subseteq Nodes /\ pc[t] = "cas_next" /\ pc' = [pc EXCEPT ![t] = "set_tail"]
        /\ UNCHANGED <<head, tail, old, stored>>
    BY <1>4 DEF CasNext, At, Goto, ptrs, HoldInv, OwnInv, Holders, TypeOK, Word,
              Holding, TailHolding, HeadHolding
  <2> HIDE DEF n
  <2>1. ASSUME next[n] = NULL, stored[t],
               next' = [next EXCEPT ![n] = mine[t]], mine' = [mine EXCEPT ![t] = NULL],
               nxt' = [nxt EXCEPT ![t] = mine[t]], UNCHANGED <<live, tailLeft, headLeft>>
        PROVE  ChainInv'
    BY <2>0, <2>1, NodesAssumption, SMTT(20) DEF PtrInv, ChainInv, OwnInv, TypeOK, Word
  <2>2. ASSUME next[n] = NULL, ~stored[t], NEW m \in Nodes \ live, live' = live \cup {m},
               next' = [next EXCEPT ![n] = mine[t], ![m] = NULL], mine' = [mine EXCEPT ![t] = m],
               nxt' = [nxt EXCEPT ![t] = mine[t]],
               tailLeft' = tailLeft \ {m}, headLeft' = headLeft \ {m}
        PROVE  ChainInv'
    <3>1. /\ m # n /\ m # mine[t] /\ m \in Nodes /\ m \notin live
          /\ next'[n] = mine[t] /\ next'[m] = NULL
          /\ \A k \in live : k # n => next'[k] = next[k]
          /\ mine'[t] = m /\ \A u \in Threads : u # t => mine'[u] = mine[u]
          /\ \A k \in live : (k \in tailLeft' <=> k \in tailLeft) /\ (k \in headLeft' <=> k \in headLeft)
          /\ m \notin tailLeft' /\ m \notin headLeft' /\ live' = live \cup {m}
          /\ UNCHANGED <<head, tail>>
      BY <2>0, <2>2 DEF TypeOK
    <3>2. /\ mine[t] \in live \ (headLeft \cup tailLeft) /\ next[mine[t]] = NULL
          /\ mine[t] # head.ptr /\ mine[t] # tail.ptr /\ Holders(mine[t]) = {}
          /\ \A k \in live \ headLeft : next[k] # mine[t]
          /\ \A u \in Threads : mine[u] = mine[t] => u = t
      BY <2>0, NodesAssumption DEF OwnInv
    <3>3. n \notin tailLeft /\ n \notin headLeft /\ head.ptr \in live /\ tail.ptr \in live
      BY <2>0, <2>2 DEF ChainInv, PtrInv
    <3>4. \A k \in live' \ headLeft' : k = m \/ k \in live \ headLeft
      BY <2>2, <3>1
    <3>5. \A k \in live' : k \in tailLeft' => next'[k] # NULL
      BY <3>1, <3>3 DEF ChainInv
    <3>6. ASSUME NEW k \in live \ headLeft, k # n, next[k] # NULL
          PROVE  /\ next[k] \in live \ headLeft /\ next[k] # head.ptr
                 /\ k \notin tailLeft => next[k] \notin tailLeft /\ next[k] # tail.ptr
                 /\ k \in tailLeft => next[k] \in tailLeft \/ next[k] = tail.ptr
                 /\ \A j \in live \ headLeft : next[j] = next[k] => j = k
                 /\ next[k] # mine[t] /\ next'[k] = next[k] /\ k \in live
      BY <3>1, <3>2, <3>6 DEF ChainInv
    <3>7. ASSUME NEW k \in live' \ headLeft', next'[k] # NULL
          PROVE  /\ next'[k] \in live' \ headLeft' /\ next'[k] # head'.ptr
                 /\ k \notin tailLeft' => next'[k] \notin tailLeft' /\ next'[k] # tail'.ptr
                 /\ k \in tailLeft' => next'[k] \in tailLeft' \/ next'[k] = tail'.ptr
      <4>1. CASE k = n
        BY <2>0, <2>2, <3>1, <3>2, <3>3, <4>1
      <4>2. CASE k # n
        BY <3>1, <3>4, <3>6, <3>7, <4>2
      <4> QED
        BY <4>1, <4>2
    <3>8. ASSUME NEW k \in live' \ headLeft', next'[k] # NULL,
                 NEW j \in live' \ headLeft', next'[j] = next'[k]
          PROVE  j = k
      BY <2>0, <3>1, <3>2, <3>4, <3>6, <3>8
    <3> QED
      BY <3>5, <3>7, <3>8 DEF ChainInv
  <2>3. ASSUME next[n] # NULL, live' = live \ Spare(t),
               mine' = [mine EXCEPT ![t] = IF stored[t] THEN NULL ELSE @],
               nxt' = [nxt EXCEPT ![t] = next[n]], UNCHANGED <<next, tailLeft, headLeft>>
        PROVE  ChainInv'
    BY <2>0, <2>3, NodesAssumption DEF PtrInv, ChainInv, OwnInv, TypeOK, Word, Spare
  <2> QED
    BY <1>4, <2>1, <2>2, <2>3 DEF CasNext, NewNode, n
<1>5. CASE SetNewTail(t)
  BY <1>5, NodesAssumption, SMTT(20) DEF TypeOK, Word, Holding, TailHolding, HeadHolding, PtrInv,
       ChainInv, OwnInv, HoldInv, SetNewTail, Counted, Goto, At, mem, calls
<1>6. CASE PushReturn(t)
  BY <1>6, NodesAssumption DEF TypeOK, Word, Holding, TailHolding, HeadHolding, PtrInv,
       ChainInv, OwnInv, HoldInv, PushReturn, Return, Counted, Goto, At, mem, ptrs, log
<1>7. CASE PopCall(t)
  BY <1>7, NodesAssumption DEF TypeOK, Word, Holding, TailHolding, HeadHolding, PtrInv,
       ChainInv, OwnInv, HoldInv, PopCall, Goto, At, mem, ptrs, log
<1>8. CASE PopTest(t)
  BY <1>8, NodesAssumption DEF TypeOK, Word, Holding, TailHolding, HeadHolding, PtrInv,
       ChainInv, OwnInv, HoldInv, PopTest, Return, Counted, Goto, mem, ptrs, calls, log
<1>9. CASE PopEnter(t)
  BY <1>9, NodesAssumption DEF TypeOK, Word, Holding, TailHolding, HeadHolding, PtrInv,
       ChainInv, OwnInv, HoldInv, PopEnter, Goto, mem, ptrs, calls, log
<1>10. CASE IncHead(t)
  BY <1>10, NodesAssumption DEF TypeOK, Word, Holding, TailHolding, HeadHolding, PtrInv,
       ChainInv, OwnInv, HoldInv, IncHead, Counted, Goto, At, mem, calls, log
<1>11. CASE PopAtTail(t)
  BY <1>11, NodesAssumption DEF TypeOK, Word, Holding, TailHolding, HeadHolding, PtrInv,
       ChainInv, OwnInv, HoldInv, PopAtTail, AtTail, Goto, At, mem, ptrs, local, calls, log
<1>12. CASE LoadNext(t)
  BY <1>12, NodesAssumption DEF TypeOK, Word, Holding, TailHolding, HeadHolding, PtrInv,
       ChainInv, OwnInv, HoldInv, LoadNext, Goto, At, mem, ptrs, calls, log
<1>13. CASE CasHead(t)
  BY <1>13, NodesAssumption, SMTT(20) DEF TypeOK, Word, Holding, TailHolding, HeadHolding, PtrInv,
       ChainInv, OwnInv, HoldInv, CasHead, Counted, Goto, At, mem, calls
<1>14. CASE Take(t)
  BY <1>14, NodesAssumption DEF TypeOK, Word, Holding, TailHolding, HeadHolding, PtrInv,
       ChainInv, OwnInv, HoldInv, Take, Goto, At, ptrs, calls, log
<1>15. CASE PopReturn(t)
  BY <1>15, NodesAssumption DEF TypeOK, Word, Holding, TailHolding, HeadHolding, PtrInv,
       ChainInv, OwnInv, HoldInv, PopReturn, Return, Counted, Goto, At, mem, ptrs, calls, log
<1>16. CASE FreeExternal(t)
  BY <1>16, DeleteSafe, SettleStep
<1>17. CASE ReleaseRef(t)
  BY <1>17, DeleteSafe, SettleStep
<1>18. CASE ReleaseEmpty(t)
  BY <1>18, DeleteSafe, SettleStep
<1> QED
  BY <1>1, <1>2, <1>3, <1>4, <1>5, <1>6, <1>7, <1>8, <1>9, <1>10, <1>11, <1>12, <1>13, <1>14,
       <1>15, <1>16, <1>17, <1>18 DEF Step

\* Every step leaves a push alone with its unlinked node.
LEMMA OwnStep ==
  ASSUME TypeOK, PtrInv, ChainInv, OwnInv, HoldInv, FreerInv, CountInv, NEW t \in Threads, Step(t)
  PROVE  OwnInv'
<1>1. CASE PushCall(t)
  <2>1. PICK m \in Nodes : NewNode(m) /\ next' = [next EXCEPT ![m] = NULL]
                           /\ mine' = [mine EXCEPT ![t] = m]
    BY <1>1 DEF PushCall
  <2>2. /\ m \in Nodes /\ m \notin live /\ live' = live \cup {m} /\ live \subseteq Nodes
        /\ next'[m] = NULL /\ \A k \in live : next'[k] = next[k]
        /\ mine'[t] = m /\ \A u \in Threads : u # t => mine'[u] = mine[u]
        /\ tailLeft' = tailLeft \ {m} /\ headLeft' = headLeft \ {m}
    BY <2>1 DEF NewNode, TypeOK
  <2>3. /\ UNCHANGED <<head, tail, old, stored>> /\ pc'[t] = "inc_tail"
        /\ \A u \in Threads : u # t => pc'[u] = pc[u]
    BY <1>1 DEF PushCall, Goto, ptrs, TypeOK
  <2>4. \A k \in live : Holders(k)' \subseteq Holders(k)
    BY <2>3 DEF Holders, Holding, TailHolding, HeadHolding
  <2>5. Holders(m)' = {}
    BY <2>2, <2>3 DEF Holders, HoldInv, Holding, TailHolding, HeadHolding
  <2>6. /\ \A u \in Threads : mine[u] # m
        /\ \A k \in live' \ headLeft' : next'[k] # m
        /\ head.ptr # m /\ tail.ptr # m
    BY <2>2, NodesAssumption DEF OwnInv, ChainInv, PtrInv
  <2> SUFFICES ASSUME NEW s \in Threads
               PROVE  OwnInv!(s)'
    BY DEF OwnInv
  <2>7. CASE s = t
    BY <2>2, <2>3, <2>5, <2>6, <2>7
  <2>8. CASE s # t
    <3>1. OwnInv!(s) /\ mine[s] # m /\ pc'[s] = pc[s] /\ mine'[s] = mine[s] /\ stored'[s] = stored[s]
      BY <2>2, <2>3, <2>6, <2>8 DEF OwnInv
    <3> QED
      BY <2>2, <2>3, <2>4, <2>6, <2>8, <3>1
  <2> QED
    BY <2>7, <2>8
<1>2. CASE IncTail(t)
  BY <1>2, NodesAssumption DEF TypeOK, Word, Holding, TailHolding, HeadHolding, PtrInv,
       ChainInv, OwnInv, HoldInv, Holders, IncTail, Counted, Goto, At, mem, calls, log
<1>3. CASE CasData(t)
  BY <1>3, NodesAssumption DEF TypeOK, Word, Holding, TailHolding, HeadHolding, PtrInv,
       ChainInv, OwnInv, HoldInv, Holders, CasData, Goto, At, ptrs, calls, log
<1>4. CASE CasNext(t)
  <2> DEFINE n == old[t].ptr
  <2>0. /\ n \in live /\ n \in Nodes /\ mine[t] \in Nodes /\ mine[t] \in live /\ mine[t] # n
        /\ live \subseteq Nodes /\ pc[t] = "cas_next" /\ pc' = [pc EXCEPT ![t] = "set_tail"]
        /\ UNCHANGED <<head, tail, old, stored>>
    BY <1>4 DEF CasNext, At, Goto, ptrs, HoldInv, OwnInv, Holders, TypeOK, Word,
              Holding, TailHolding, HeadHolding
  <2> HIDE DEF n
  <2>1. ASSUME next[n] = NULL, stored[t],
               next' = [next EXCEPT ![n] = mine[t]], mine' = [mine EXCEPT ![t] = NULL],
               nxt' = [nxt EXCEPT ![t] = mine[t]], UNCHANGED <<live, tailLeft, headLeft>>
        PROVE  OwnInv'
    BY <2>0, <2>1, NodesAssumption DEF PtrInv, ChainInv, OwnInv, HoldInv, Holders, n, Holding,
         TailHolding, HeadHolding, TypeOK, Word
  <2>2. ASSUME next[n] = NULL, ~stored[t], NEW m \in Nodes \ live, live' = live \cup {m},
               next' = [next EXCEPT ![n] = mine[t], ![m] = NULL], mine' = [mine EXCEPT ![t] = m],
               nxt' = [nxt EXCEPT ![t] = mine[t]],
               tailLeft' = tailLeft \ {m}, headLeft' = headLeft \ {m}
        PROVE  OwnInv'
    <3>1. /\ m # n /\ m # mine[t] /\ m \in Nodes /\ m \notin live
          /\ next'[n] = mine[t] /\ next'[m] = NULL
          /\ \A k \in live : k # n => next'[k] = next[k]
          /\ mine'[t] = m /\ \A u \in Threads : u # t => mine'[u] = mine[u]
          /\ \A k \in live : (k \in tailLeft' <=> k \in tailLeft) /\ (k \in headLeft' <=> k \in headLeft)
          /\ m \notin tailLeft' /\ m \notin headLeft' /\ live' = live \cup {m}
          /\ UNCHANGED <<head, tail>>
      BY <2>0, <2>2 DEF TypeOK
    <3>2. /\ mine[t] \in live \ (headLeft \cup tailLeft) /\ next[mine[t]] = NULL
          /\ mine[t] # head.ptr /\ mine[t] # tail.ptr /\ Holders(mine[t]) = {}
          /\ \A k \in live \ headLeft : next[k] # mine[t]
          /\ \A u \in Threads : mine[u] = mine[t] => u = t
      BY <2>0, NodesAssumption DEF OwnInv
    <3>3. n \notin tailLeft /\ n \notin headLeft /\ head.ptr \in live /\ tail.ptr \in live
      BY <2>0, <2>2 DEF ChainInv, PtrInv
    <3>4. \A k \in Nodes : k # m => Holders(k)' \subseteq Holders(k)
      BY <2>0 DEF Holders, TypeOK, Holding, TailHolding, HeadHolding
    <3>5. Holders(m)' = {}
      BY <2>0, <3>1 DEF Holders, HoldInv, TypeOK, Holding, TailHolding, HeadHolding
    <3>6. \A k \in live' \ headLeft' : k = m \/ k \in live \ headLeft
      BY <2>2, <3>1
    <3>7. \A k \in live \ headLeft : next[k] # m
      BY <3>1, NodesAssumption DEF ChainInv
    <3>8. \A u \in Threads : mine[u] # m
      BY <3>1, NodesAssumption DEF OwnInv
    <3> SUFFICES ASSUME NEW s \in Threads
                 PROVE  OwnInv!(s)'
      BY DEF OwnInv
    <3>9. CASE s = t
      <4>1. \A k \in live' \ headLeft' : next'[k] # m
        BY <3>1, <3>6, <3>7, NodesAssumption
      <4>2. \A u \in Threads : mine'[u] = m => u = t
        BY <3>1, <3>8
      <4>3. m # head.ptr /\ m # tail.ptr /\ m # NULL
        BY <3>1, <3>3, NodesAssumption
      <4> QED
        BY <3>1, <3>5, <3>9, <4>1, <4>2, <4>3
    <3>10. CASE s # t
      <4>1. /\ OwnInv!(s) /\ mine[s] # mine[t] /\ mine[s] # m
            /\ pc'[s] = pc[s] /\ stored'[s] = stored[s] /\ mine'[s] = mine[s]
        BY <2>0, <3>1, <3>2, <3>8, <3>10 DEF OwnInv, TypeOK
      <4>2. ASSUME mine[s] # NULL
            PROVE  /\ mine[s] \in live' \ (headLeft' \cup tailLeft')
                   /\ mine[s] # n /\ next'[mine[s]] = NULL /\ Holders(mine[s])' = {}
        <5>1. mine[s] \in live /\ Holders(mine[s]) = {}
          BY <4>1, <4>2
        <5>2. mine[s] # n
          BY <2>0, <5>1 DEF Holders, n, Holding, TailHolding
        <5>3. Holders(mine[s])' = {}
          BY <2>0, <3>4, <4>1, <5>1
        <5> QED
          BY <2>2, <3>1, <4>1, <4>2, <5>1, <5>2, <5>3
      <4>3. ASSUME mine[s] # NULL
            PROVE  \A k \in live' \ headLeft' : next'[k] # mine[s]
        BY <3>1, <3>6, <4>1, <4>3
      <4>4. ASSUME mine[s] # NULL
            PROVE  \A u \in Threads : mine'[u] = mine[s] => u = s
        BY <3>1, <4>1, <4>4
      <4> QED
        BY <2>0, <4>1, <4>2, <4>3, <4>4
    <3> QED
      BY <3>9, <3>10
  <2>3. ASSUME next[n] # NULL, live' = live \ Spare(t),
               mine' = [mine EXCEPT ![t] = IF stored[t] THEN NULL ELSE @],
               nxt' = [nxt EXCEPT ![t] = next[n]], UNCHANGED <<next, tailLeft, headLeft>>
        PROVE  OwnInv'
    BY <2>0, <2>3, NodesAssumption, SMTT(20) DEF PtrInv, ChainInv, OwnInv, HoldInv, Holders, n, Holding,
         TailHolding, HeadHolding, TypeOK, Word, Spare
  <2> QED
    BY <1>4, <2>1, <2>2, <2>3 DEF CasNext, NewNode, n
<1>5. CASE SetNewTail(t)
  <2> DEFINE n == old[t].ptr
  <2>1. /\ pc[t] = "set_tail" /\ UNCHANGED <<head, live, next, mine, stored, headLeft>>
        /\ pc'[t] \in {"free_tail", "drop_tail"}
        /\ \A u \in Threads : u # t => pc'[u] = pc[u] /\ old'[u] = old[u]
        /\ old'[t].ptr = n /\ n \in live
        /\ tail'.ptr \in {tail.ptr, nxt[t]} /\ tailLeft' \subseteq tailLeft \cup {n}
    BY <1>5 DEF SetNewTail, At, Goto, mem, TypeOK, Counted, HoldInv, Holding, TailHolding
  <2>2. \A k : Holders(k)' = Holders(k)
    BY <2>1 DEF Holders, Holding, TailHolding, HeadHolding
  <2>3. nxt[t] = next[n] /\ t \in Holders(n)
    BY <2>1 DEF HoldInv, Holders, Holding, TailHolding
  <2>4. n \in headLeft => tail'.ptr = tail.ptr
    BY <1>5 DEF SetNewTail, PtrInv
  <2> SUFFICES ASSUME NEW s \in Threads
               PROVE  OwnInv!(s)'
    BY DEF OwnInv
  <2>5. OwnInv!(s)
    BY DEF OwnInv
  <2>6. pc'[s] \in {"set_tail", "free_tail", "drop_tail"} /\ ~stored'[s] => mine'[s] # NULL
    BY <2>1, <2>5
  <2>7. pc'[s] \in {"inc_tail", "cas_data", "cas_next"} => mine'[s] # NULL
    BY <2>1, <2>5
  <2>8. ASSUME mine[s] # NULL
        PROVE  mine[s] # n /\ mine[s] # tail'.ptr
    <3>1. mine[s] # n
      BY <2>3, <2>5, <2>8
    <3>2. n \notin headLeft => mine[s] # next[n]
      BY <2>1, <2>5, <2>8
    <3> QED
      BY <2>1, <2>3, <2>4, <2>5, <2>8, <3>1, <3>2
  <2> QED
    BY <2>1, <2>2, <2>5, <2>6, <2>7, <2>8
<1>6. CASE PushReturn(t)
  BY <1>6, NodesAssumption DEF TypeOK, Word, Holding, TailHolding, HeadHolding, PtrInv,
       ChainInv, OwnInv, HoldInv, Holders, PushReturn, Return, Counted, Goto, At, mem, ptrs, log
<1>7. CASE PopCall(t)
  BY <1>7, NodesAssumption, SMTT(20) DEF TypeOK, Word, Holding, TailHolding, HeadHolding, PtrInv,
       ChainInv, OwnInv, HoldInv, Holders, PopCall, Goto, At, mem, ptrs, log
<1>8. CASE PopTest(t)
  BY <1>8, NodesAssumption DEF TypeOK, Word, Holding, TailHolding, HeadHolding, PtrInv,
       ChainInv, OwnInv, HoldInv, Holders, PopTest, Return, Counted, Goto, mem, ptrs, calls, log
<1>9. CASE PopEnter(t)
  BY <1>9, NodesAssumption DEF TypeOK, Word, Holding, TailHolding, HeadHolding, PtrInv,
       ChainInv, OwnInv, HoldInv, Holders, PopEnter, Goto, mem, ptrs, calls, log
<1>10. CASE IncHead(t)
  BY <1>10, NodesAssumption DEF TypeOK, Word, Holding, TailHolding, HeadHolding, PtrInv,
       ChainInv, OwnInv, HoldInv, Holders, IncHead, Counted, Goto, At, mem, calls, log
<1>11. CASE PopAtTail(t)
  BY <1>11, NodesAssumption DEF TypeOK, Word, Holding, TailHolding, HeadHolding, PtrInv,
       ChainInv, OwnInv, HoldInv, Holders, PopAtTail, AtTail, Goto, At, mem, ptrs, local,
       calls, log
<1>12. CASE LoadNext(t)
  BY <1>12, NodesAssumption DEF TypeOK, Word, Holding, TailHolding, HeadHolding, PtrInv,
       ChainInv, OwnInv, HoldInv, Holders, LoadNext, Goto, At, mem, ptrs, calls, log
<1>13. CASE CasHead(t)
  BY <1>13, NodesAssumption, SMTT(20) DEF TypeOK, Word, Holding, TailHolding, HeadHolding, PtrInv,
       ChainInv, OwnInv, HoldInv, Holders, CasHead, Counted, Goto, At, mem, calls
<1>14. CASE Take(t)
  BY <1>14, NodesAssumption DEF TypeOK, Word, Holding, TailHolding, HeadHolding, PtrInv,
       ChainInv, OwnInv, HoldInv, Holders, Take, Goto, At, ptrs, calls, log
<1>15. CASE PopReturn(t)
  BY <1>15, NodesAssumption DEF TypeOK, Word, Holding, TailHolding, HeadHolding, PtrInv,
       ChainInv, OwnInv, HoldInv, Holders, PopReturn, Return, Counted, Goto, At, mem, ptrs,
       calls, log
<1>16. CASE FreeExternal(t)
  BY <1>16, DeleteSafe, SettleStep
<1>17. CASE ReleaseRef(t)
  BY <1>17, DeleteSafe, SettleStep
<1>18. CASE ReleaseEmpty(t)
  BY <1>18, DeleteSafe, SettleStep
<1> QED
  BY <1>1, <1>2, <1>3, <1>4, <1>5, <1>6, <1>7, <1>8, <1>9, <1>10, <1>11, <1>12, <1>13, <1>14,
       <1>15, <1>16, <1>17, <1>18 DEF Step

\* Every step keeps what a thread knows of the node it holds.
LEMMA HoldStep ==
  ASSUME TypeOK, PtrInv, ChainInv, OwnInv, HoldInv, FreerInv, CountInv, NEW t \in Threads, Step(t)
  PROVE  HoldInv'
<1>1. CASE PushCall(t)
  BY <1>1, NodesAssumption, SMTT(20) DEF TypeOK, Word, Holding, TailHolding, HeadHolding, PtrInv,
       ChainInv, OwnInv, HoldInv, FreerInv, Holders, PushCall, NewNode, Goto, At, ptrs
<1>2. CASE IncTail(t)
  BY <1>2, NodesAssumption DEF TypeOK, Word, Holding, TailHolding, HeadHolding, PtrInv,
       ChainInv, OwnInv, HoldInv, FreerInv, Holders, IncTail, Counted, Goto, At, mem, calls, log
<1>3. CASE CasData(t)
  BY <1>3, NodesAssumption DEF TypeOK, Word, Holding, TailHolding, HeadHolding, PtrInv,
       ChainInv, OwnInv, HoldInv, FreerInv, Holders, CasData, Goto, At, ptrs, calls, log
<1>4. CASE CasNext(t)
  <2> DEFINE n == old[t].ptr
  <2>0. /\ n \in live /\ n \in Nodes /\ mine[t] \in Nodes /\ mine[t] \in live /\ mine[t] # n
        /\ live \subseteq Nodes /\ pc[t] = "cas_next" /\ pc' = [pc EXCEPT ![t] = "set_tail"]
        /\ UNCHANGED <<head, tail, old, stored>>
    BY <1>4 DEF CasNext, At, Goto, ptrs, HoldInv, OwnInv, Holders, TypeOK, Word,
              Holding, TailHolding, HeadHolding
  <2> HIDE DEF n
  <2>1. ASSUME next[n] = NULL, stored[t],
               next' = [next EXCEPT ![n] = mine[t]], mine' = [mine EXCEPT ![t] = NULL],
               nxt' = [nxt EXCEPT ![t] = mine[t]], UNCHANGED <<live, tailLeft, headLeft>>
        PROVE  HoldInv'
    <3>1. /\ \A k \in live : k # n => next'[k] = next[k]
          /\ next'[n] = mine[t] /\ nxt'[t] = mine[t] /\ mine[t] # NULL
          /\ \A u \in Threads : u # t => nxt'[u] = nxt[u] /\ pc'[u] = pc[u]
          /\ pc'[t] = "set_tail" /\ old[t].ptr = n
      BY <2>0, <2>1, NodesAssumption DEF TypeOK, n
    <3> SUFFICES ASSUME NEW s \in Threads
                 PROVE  HoldInv!(s)'
      BY DEF HoldInv
    <3>2. CASE s = t
      BY <2>0, <2>1, <3>1, <3>2 DEF HeadHolding
    <3>3. CASE s # t
      <4>1. HoldInv!(s) /\ pc'[s] = pc[s] /\ nxt'[s] = nxt[s]
        BY <3>1, <3>3 DEF HoldInv
      <4>2. pc[s] \in {"set_tail", "cas_head"} => old[s].ptr # n
        BY <2>0, <2>1, <4>1 DEF ChainInv
      <4>3. pc[s] \in {"set_tail", "cas_head"} => old[s].ptr \in live
        BY <4>1 DEF Holding, TailHolding, HeadHolding
      <4> QED
        BY <2>0, <2>1, <3>1, <4>1, <4>2, <4>3
    <3> QED
      BY <3>2, <3>3
  <2>2. ASSUME next[n] = NULL, ~stored[t], NEW m \in Nodes \ live, live' = live \cup {m},
               next' = [next EXCEPT ![n] = mine[t], ![m] = NULL], mine' = [mine EXCEPT ![t] = m],
               nxt' = [nxt EXCEPT ![t] = mine[t]],
               tailLeft' = tailLeft \ {m}, headLeft' = headLeft \ {m}
        PROVE  HoldInv'
    <3>1. /\ m # n /\ m # mine[t] /\ m \in Nodes /\ m \notin live
          /\ next'[n] = mine[t] /\ next'[m] = NULL
          /\ \A k \in live : k # n => next'[k] = next[k]
          /\ mine'[t] = m /\ \A u \in Threads : u # t => mine'[u] = mine[u]
          /\ \A k \in live : (k \in tailLeft' <=> k \in tailLeft) /\ (k \in headLeft' <=> k \in headLeft)
          /\ m \notin tailLeft' /\ m \notin headLeft' /\ live' = live \cup {m}
          /\ UNCHANGED <<head, tail>>
      BY <2>0, <2>2 DEF TypeOK
    <3>2. /\ mine[t] \in live \ (headLeft \cup tailLeft) /\ next[mine[t]] = NULL
          /\ mine[t] # head.ptr /\ mine[t] # tail.ptr /\ Holders(mine[t]) = {}
          /\ \A k \in live \ headLeft : next[k] # mine[t]
          /\ \A u \in Threads : mine[u] = mine[t] => u = t
      BY <2>0, NodesAssumption DEF OwnInv
    <3>3. n \notin tailLeft /\ n \notin headLeft /\ head.ptr \in live /\ tail.ptr \in live
      BY <2>0, <2>2 DEF ChainInv, PtrInv
    <3>4. /\ nxt'[t] = mine[t] /\ mine[t] # NULL
          /\ \A u \in Threads : u # t => nxt'[u] = nxt[u] /\ pc'[u] = pc[u]
          /\ pc'[t] = "set_tail" /\ old[t].ptr = n
      BY <2>0, <2>2, NodesAssumption DEF TypeOK, n
    <3> SUFFICES ASSUME NEW s \in Threads
                 PROVE  HoldInv!(s)'
      BY DEF HoldInv
    <3>5. CASE s = t
      BY <2>0, <2>2, <3>1, <3>4, <3>5 DEF HeadHolding
    <3>6. CASE s # t
      <4>1. HoldInv!(s) /\ pc'[s] = pc[s] /\ nxt'[s] = nxt[s]
        BY <3>4, <3>6 DEF HoldInv
      <4>2. pc[s] \in {"set_tail", "cas_head"} => old[s].ptr # n
        BY <2>0, <2>2, <4>1 DEF ChainInv
      <4>3. pc[s] \in Holding => old[s].ptr \in live
        BY <4>1
      <4>4. /\ pc[s] \in HeadHolding => pc[s] \in Holding
            /\ pc[s] \in {"set_tail", "load_next", "cas_head"} => pc[s] \in Holding
        BY DEF Holding, TailHolding, HeadHolding
      <4> QED
        BY <2>0, <2>2, <3>1, <3>4, <4>1, <4>2, <4>3, <4>4
    <3> QED
      BY <3>5, <3>6
  <2>3. ASSUME next[n] # NULL, live' = live \ Spare(t),
               mine' = [mine EXCEPT ![t] = IF stored[t] THEN NULL ELSE @],
               nxt' = [nxt EXCEPT ![t] = next[n]], UNCHANGED <<next, tailLeft, headLeft>>
        PROVE  HoldInv'
    BY <2>0, <2>3, NodesAssumption DEF PtrInv, OwnInv, HoldInv, Holders, n, Holding,
         TailHolding, HeadHolding, TypeOK, Word, Spare
  <2> QED
    BY <1>4, <2>1, <2>2, <2>3 DEF CasNext, NewNode, n
<1>5. CASE SetNewTail(t)
  BY <1>5, NodesAssumption, SMTT(20) DEF TypeOK, Word, Holding, TailHolding, HeadHolding, PtrInv,
       ChainInv, OwnInv, HoldInv, FreerInv, Holders, SetNewTail, Counted, Goto, At, mem, calls
<1>6. CASE PushReturn(t)
  BY <1>6, NodesAssumption DEF TypeOK, Word, Holding, TailHolding, HeadHolding, PtrInv,
       ChainInv, OwnInv, HoldInv, FreerInv, Holders, PushReturn, Return, Counted, Goto, At,
       mem, ptrs, log
<1>7. CASE PopCall(t)
  BY <1>7, NodesAssumption DEF TypeOK, Word, Holding, TailHolding, HeadHolding, PtrInv,
       ChainInv, OwnInv, HoldInv, FreerInv, Holders, PopCall, Goto, At, mem, ptrs, log
<1>8. CASE PopTest(t)
  BY <1>8, NodesAssumption DEF TypeOK, Word, Holding, TailHolding, HeadHolding, PtrInv,
       ChainInv, OwnInv, HoldInv, FreerInv, Holders, PopTest, Return, Counted, Goto, mem, ptrs,
       calls, log
<1>9. CASE PopEnter(t)
  BY <1>9, NodesAssumption DEF TypeOK, Word, Holding, TailHolding, HeadHolding, PtrInv,
       ChainInv, OwnInv, HoldInv, FreerInv, Holders, PopEnter, Goto, mem, ptrs, calls, log
<1>10. CASE IncHead(t)
  BY <1>10, NodesAssumption DEF TypeOK, Word, Holding, TailHolding, HeadHolding, PtrInv,
       ChainInv, OwnInv, HoldInv, FreerInv, Holders, IncHead, Counted, Goto, At, mem, calls, log
<1>11. CASE PopAtTail(t)
  BY <1>11, NodesAssumption DEF TypeOK, Word, Holding, TailHolding, HeadHolding, PtrInv,
       ChainInv, OwnInv, HoldInv, FreerInv, Holders, PopAtTail, AtTail, Goto, At, mem, ptrs,
       local, calls, log
<1>12. CASE LoadNext(t)
  BY <1>12, NodesAssumption DEF TypeOK, Word, Holding, TailHolding, HeadHolding, PtrInv,
       ChainInv, OwnInv, HoldInv, FreerInv, Holders, LoadNext, Goto, At, mem, ptrs, calls, log
<1>13. CASE CasHead(t)
  BY <1>13, NodesAssumption, SMTT(20) DEF TypeOK, Word, Holding, TailHolding, HeadHolding, PtrInv,
       ChainInv, OwnInv, HoldInv, FreerInv, Holders, CasHead, Counted, Goto, At, mem, calls
<1>14. CASE Take(t)
  BY <1>14, NodesAssumption DEF TypeOK, Word, Holding, TailHolding, HeadHolding, PtrInv,
       ChainInv, OwnInv, HoldInv, FreerInv, Holders, Take, Goto, At, ptrs, calls, log
<1>15. CASE PopReturn(t)
  BY <1>15, NodesAssumption DEF TypeOK, Word, Holding, TailHolding, HeadHolding, PtrInv,
       ChainInv, OwnInv, HoldInv, FreerInv, Holders, PopReturn, Return, Counted, Goto, At, mem,
       ptrs, calls, log
<1>16. CASE FreeExternal(t)
  BY <1>16, DeleteSafe, SettleStep
<1>17. CASE ReleaseRef(t)
  BY <1>17, DeleteSafe, SettleStep
<1>18. CASE ReleaseEmpty(t)
  BY <1>18, DeleteSafe, SettleStep
<1> QED
  BY <1>1, <1>2, <1>3, <1>4, <1>5, <1>6, <1>7, <1>8, <1>9, <1>10, <1>11, <1>12, <1>13, <1>14,
       <1>15, <1>16, <1>17, <1>18 DEF Step

\* Every step leaves one thread to settle each external count.
LEMMA FreerStep ==
  ASSUME TypeOK, PtrInv, ChainInv, OwnInv, HoldInv, FreerInv, CountInv, NEW t \in Threads, Step(t)
  PROVE  FreerInv'
<1>1. CASE PushCall(t)
  BY <1>1, NodesAssumption, SMTT(20) DEF TypeOK, Word, Holding, TailHolding, HeadHolding, PtrInv,
       HoldInv, FreerInv, PushCall, NewNode, Goto, At, ptrs
<1>2. CASE IncTail(t)
  BY <1>2, NodesAssumption DEF TypeOK, Word, Holding, TailHolding, HeadHolding, PtrInv,
       HoldInv, FreerInv, IncTail, Counted, Goto, At, mem, calls, log
<1>3. CASE CasData(t)
  BY <1>3, NodesAssumption DEF TypeOK, Word, Holding, TailHolding, HeadHolding, PtrInv,
       HoldInv, FreerInv, CasData, Goto, At, ptrs, calls, log
<1>4. CASE CasNext(t)
  <2> DEFINE n == old[t].ptr
  <2>0. /\ n \in live /\ n \in Nodes /\ mine[t] \in Nodes /\ mine[t] \in live /\ mine[t] # n
        /\ live \subseteq Nodes /\ pc[t] = "cas_next" /\ pc' = [pc EXCEPT ![t] = "set_tail"]
        /\ UNCHANGED <<head, tail, old, stored>>
    BY <1>4 DEF CasNext, At, Goto, ptrs, HoldInv, OwnInv, Holders, TypeOK, Word,
              Holding, TailHolding, HeadHolding
  <2> HIDE DEF n
  <2>1. ASSUME next[n] = NULL, stored[t],
               next' = [next EXCEPT ![n] = mine[t]], mine' = [mine EXCEPT ![t] = NULL],
               nxt' = [nxt EXCEPT ![t] = mine[t]], UNCHANGED <<live, tailLeft, headLeft>>
        PROVE  FreerInv'
    BY <2>0, <2>1, NodesAssumption, SMTT(20) DEF FreerInv, HoldInv, Holding, TailHolding, HeadHolding,
         TypeOK, Word
  <2>2. ASSUME next[n] = NULL, ~stored[t], NEW m \in Nodes \ live, live' = live \cup {m},
               next' = [next EXCEPT ![n] = mine[t], ![m] = NULL], mine' = [mine EXCEPT ![t] = m],
               nxt' = [nxt EXCEPT ![t] = mine[t]],
               tailLeft' = tailLeft \ {m}, headLeft' = headLeft \ {m}
        PROVE  FreerInv'
    BY <2>0, <2>2, NodesAssumption, SMTT(20) DEF FreerInv, HoldInv, Holding, TailHolding, HeadHolding,
         TypeOK, Word
  <2>3. ASSUME next[n] # NULL, live' = live \ Spare(t),
               mine' = [mine EXCEPT ![t] = IF stored[t] THEN NULL ELSE @],
               nxt' = [nxt EXCEPT ![t] = next[n]], UNCHANGED <<next, tailLeft, headLeft>>
        PROVE  FreerInv'
    BY <2>0, <2>3, NodesAssumption DEF FreerInv, HoldInv, Holding, TailHolding, HeadHolding,
         TypeOK, Word, Spare
  <2> QED
    BY <1>4, <2>1, <2>2, <2>3 DEF CasNext, NewNode, n
<1>5. CASE SetNewTail(t)
  <2> DEFINE n == old[t].ptr
  <2>1. /\ pc[t] = "set_tail" /\ UNCHANGED headLeft /\ n \in live
        /\ \A u \in Threads : u # t => pc'[u] = pc[u] /\ old'[u] = old[u]
        /\ old'[t].ptr = n /\ tailLeft \subseteq tailLeft'
    BY <1>5 DEF SetNewTail, At, Goto, TypeOK, HoldInv, Holding, TailHolding
  <2>2. \/ pc'[t] = "free_tail" /\ n \in tailLeft' /\ n \notin tailLeft
        \/ pc'[t] = "drop_tail"
    BY <1>5 DEF SetNewTail, Goto, TypeOK, PtrInv
  <2>3. CASE pc'[t] = "free_tail" /\ n \in tailLeft' /\ n \notin tailLeft
    <3>1. \A u \in Threads : pc[u] = "free_tail" => old[u].ptr # n
      BY <2>3 DEF FreerInv
    <3> QED
      BY <2>1, <2>3, <3>1 DEF FreerInv
  <2>4. CASE pc'[t] = "drop_tail"
    BY <2>1, <2>4 DEF FreerInv
  <2> QED
    BY <2>2, <2>3, <2>4
<1>6. CASE PushReturn(t)
  BY <1>6, NodesAssumption DEF TypeOK, Word, Holding, TailHolding, HeadHolding, PtrInv,
       HoldInv, FreerInv, PushReturn, Return, Counted, Goto, At, mem, ptrs, log
<1>7. CASE PopCall(t)
  BY <1>7, NodesAssumption, SMTT(20) DEF TypeOK, Word, Holding, TailHolding, HeadHolding, PtrInv,
       HoldInv, FreerInv, PopCall, Goto, At, mem, ptrs, log
<1>8. CASE PopTest(t)
  BY <1>8, NodesAssumption DEF TypeOK, Word, Holding, TailHolding, HeadHolding, PtrInv,
       HoldInv, FreerInv, PopTest, Return, Counted, Goto, mem, ptrs, calls, log
<1>9. CASE PopEnter(t)
  BY <1>9, NodesAssumption DEF TypeOK, Word, Holding, TailHolding, HeadHolding, PtrInv,
       HoldInv, FreerInv, PopEnter, Goto, mem, ptrs, calls, log
<1>10. CASE IncHead(t)
  BY <1>10, NodesAssumption DEF TypeOK, Word, Holding, TailHolding, HeadHolding, PtrInv,
       HoldInv, FreerInv, IncHead, Counted, Goto, At, mem, calls, log
<1>11. CASE PopAtTail(t)
  BY <1>11, NodesAssumption DEF TypeOK, Word, Holding, TailHolding, HeadHolding, PtrInv,
       HoldInv, FreerInv, PopAtTail, AtTail, Goto, At, mem, ptrs, local, calls, log
<1>12. CASE LoadNext(t)
  BY <1>12, NodesAssumption DEF TypeOK, Word, Holding, TailHolding, HeadHolding, PtrInv,
       HoldInv, FreerInv, LoadNext, Goto, At, mem, ptrs, calls, log
<1>13. CASE CasHead(t)
  <2> DEFINE n == old[t].ptr
  <2>1. /\ pc[t] = "cas_head" /\ UNCHANGED <<tailLeft, old>>
        /\ \A u \in Threads : u # t => pc'[u] = pc[u]
        /\ headLeft \subseteq headLeft'
    BY <1>13 DEF CasHead, At, Goto, TypeOK
  <2>2. \/ pc'[t] = "take" /\ n \in headLeft' /\ n \notin headLeft
        \/ pc'[t] = "drop_head"
    BY <1>13 DEF CasHead, Goto, TypeOK, PtrInv
  <2>3. CASE pc'[t] = "take" /\ n \in headLeft' /\ n \notin headLeft
    <3>1. \A u \in Threads : pc[u] \in {"take", "free_head"} => old[u].ptr # n
      BY <2>3 DEF FreerInv
    <3> QED
      BY <2>1, <2>3, <3>1 DEF FreerInv
  <2>4. CASE pc'[t] = "drop_head"
    BY <2>1, <2>4 DEF FreerInv
  <2> QED
    BY <2>2, <2>3, <2>4
<1>14. CASE Take(t)
  BY <1>14, NodesAssumption, SMTT(20) DEF TypeOK, Word, Holding, TailHolding, HeadHolding, PtrInv,
       HoldInv, FreerInv, Take, Goto, At, ptrs, calls, log
<1>15. CASE PopReturn(t)
  BY <1>15, NodesAssumption DEF TypeOK, Word, Holding, TailHolding, HeadHolding, PtrInv,
       HoldInv, FreerInv, PopReturn, Return, Counted, Goto, At, mem, ptrs, calls, log
<1>16. CASE FreeExternal(t)
  BY <1>16, DeleteSafe, SettleStep
<1>17. CASE ReleaseRef(t)
  BY <1>17, DeleteSafe, SettleStep
<1>18. CASE ReleaseEmpty(t)
  BY <1>18, DeleteSafe, SettleStep
<1> QED
  BY <1>1, <1>2, <1>3, <1>4, <1>5, <1>6, <1>7, <1>8, <1>9, <1>10, <1>11, <1>12, <1>13, <1>14,
       <1>15, <1>16, <1>17, <1>18 DEF Step

\* Nothing that the counters of n are balanced against changes, so they still are.
SameCount(n) ==
  /\ internal'[n] = internal[n] /\ external'[n] = external[n]
  /\ (n \in tailLeft' <=> n \in tailLeft) /\ (n \in headLeft' <=> n \in headLeft)
  /\ (tail.ptr = n \/ tail'.ptr = n) => tail' = tail
  /\ (head.ptr = n \/ head'.ptr = n) => head' = head
  /\ Holders(n)' = Holders(n)
  /\ TailFreers(n)' = TailFreers(n) /\ HeadFreers(n)' = HeadFreers(n)
  /\ \A u \in TailFreers(n) \cup HeadFreers(n) : old'[u] = old[u]

\* A node that a step leaves alone keeps its count.
LEMMA SameStep ==
  ASSUME CountInv, NEW n \in live, SameCount(n)
  PROVE  CountInv!(n)'
<1>1. TailPending(n)' = TailPending(n) /\ HeadPending(n)' = HeadPending(n)
  BY DEF SameCount, TailPending, HeadPending
<1>2. TailSurplus(n)' = TailSurplus(n)
  <2>1. CASE tail.ptr = n \/ tail'.ptr = n
    BY <2>1 DEF SameCount, TailSurplus
  <2>2. CASE ~(tail.ptr = n \/ tail'.ptr = n)
    <3>1. {old'[u].cnt - 1 : u \in TailFreers(n)'} = {old[u].cnt - 1 : u \in TailFreers(n)}
      BY DEF SameCount
    <3> QED
      BY <2>2, <3>1 DEF SameCount, TailSurplus
  <2> QED
    BY <2>1, <2>2
<1>3. HeadSurplus(n)' = HeadSurplus(n)
  <2>1. CASE head.ptr = n \/ head'.ptr = n
    BY <2>1 DEF SameCount, HeadSurplus
  <2>2. CASE ~(head.ptr = n \/ head'.ptr = n)
    <3>1. {old'[u].cnt - 1 : u \in HeadFreers(n)'} = {old[u].cnt - 1 : u \in HeadFreers(n)}
      BY DEF SameCount
    <3> QED
      BY <2>2, <3>1 DEF SameCount, HeadSurplus
  <2> QED
    BY <2>1, <2>2
<1>4. CountInv!(n)
  BY DEF CountInv
<1> QED
  BY <1>1, <1>2, <1>3, <1>4 DEF SameCount

\* A new node: two external counters, no references.
LEMMA FreshStep ==
  ASSUME NEW m, internal'[m] = 0, external'[m] = 2, m \notin tailLeft', m \notin headLeft',
         tail'.ptr # m, head'.ptr # m, Holders(m)' = {}
  PROVE  CountInv!(m)'
<1>1. TailFreers(m)' = {} /\ HeadFreers(m)' = {}
  BY DEF Holders, TailFreers, HeadFreers, Holding, TailHolding, HeadHolding
<1>2. TailSurplus(m)' = {0} /\ HeadSurplus(m)' = {0}
  BY <1>1 DEF TailSurplus, HeadSurplus
<1>3. TailPending(m)' /\ HeadPending(m)'
  BY DEF TailPending, HeadPending
<1>4. Cardinality(Holders(m)') = 0
  BY FS_EmptySet
<1> QED
  BY <1>2, <1>3, <1>4

\* A thread that moves on without taking or giving up a reference, and without
\* becoming the one to settle an external count or ceasing to be it.
Quiet(t) ==
  /\ UNCHANGED <<head, tail, internal, external, tailLeft, headLeft, live>>
  /\ \A u \in Threads : u # t => pc'[u] = pc[u] /\ old'[u] = old[u]
  /\ pc[t] \in Holding \/ pc'[t] \in Holding =>
       old'[t] = old[t] /\ pc[t] \in Holding /\ pc'[t] \in Holding
  /\ pc[t] # "free_tail" /\ pc'[t] # "free_tail"
  /\ pc[t] \in {"take", "free_head"} <=> pc'[t] \in {"take", "free_head"}

\* A thread that neither takes nor gives up a reference keeps every count.
LEMMA QuietStep ==
  ASSUME CountInv, NEW t \in Threads, Quiet(t)
  PROVE  CountInv'
<1>1. \A n : Holders(n)' = Holders(n)
  BY DEF Quiet, Holders
<1>2. \A n : TailFreers(n)' = TailFreers(n)
  BY DEF Quiet, TailFreers
<1>3. \A n : HeadFreers(n)' = HeadFreers(n)
  BY DEF Quiet, HeadFreers, Holding, HeadHolding
<1>4. \A n : \A u \in TailFreers(n) \cup HeadFreers(n) : old'[u] = old[u]
  BY DEF Quiet, TailFreers, HeadFreers, Holding, TailHolding, HeadHolding
<1>5. \A n \in live : SameCount(n)
  BY <1>1, <1>2, <1>3, <1>4 DEF Quiet, SameCount
<1> QED
  BY <1>5, SameStep DEF Quiet, CountInv

\* What the settling steps do to the node whose reference they give up.
LEMMA GiveUp ==
  ASSUME TypeOK, HoldInv, CountInv, PtrInv, FreerInv, NEW t \in Threads, Settles(t),
         NEW n, n = old[t].ptr,
         \A k \in live : k # n => internal'[k] = internal[k] /\ external'[k] = external[k]
  PROVE  /\ \A k \in live : k # n => CountInv!(k)'
         /\ IsFiniteSet(Holders(n))
         /\ Cardinality(Holders(n)') = Cardinality(Holders(n)) - 1
         /\ Cardinality(Holders(n)) \in Nat
<1>1. /\ UNCHANGED <<head, tail, tailLeft, headLeft>>
      /\ \A u \in Threads : u # t => pc'[u] = pc[u] /\ old'[u] = old[u]
      /\ pc[t] \in Holding /\ pc'[t] \notin Holding
  BY DEF Settles
<1>2. n \in live
  BY <1>1 DEF HoldInv
<1>3. \A k : k # n => /\ Holders(k)' = Holders(k)
                      /\ TailFreers(k)' = TailFreers(k) /\ HeadFreers(k)' = HeadFreers(k)
                      /\ \A u \in TailFreers(k) \cup HeadFreers(k) : old'[u] = old[u]
  <2> SUFFICES ASSUME NEW k, k # n
               PROVE  /\ Holders(k)' = Holders(k)
                      /\ TailFreers(k)' = TailFreers(k) /\ HeadFreers(k)' = HeadFreers(k)
                      /\ \A u \in TailFreers(k) \cup HeadFreers(k) : old'[u] = old[u]
    OBVIOUS
  <2>1. Holders(k)' = Holders(k)
    BY <1>1 DEF Holders
  <2>2. TailFreers(k)' = TailFreers(k)
    BY <1>1 DEF TailFreers, Holding, TailHolding, HeadHolding
  <2>3. HeadFreers(k)' = HeadFreers(k)
    BY <1>1 DEF HeadFreers, Holding, TailHolding, HeadHolding
  <2>4. \A u \in TailFreers(k) \cup HeadFreers(k) : u # t
    BY DEF TailFreers, HeadFreers
  <2>5. \A u \in TailFreers(k) \cup HeadFreers(k) : u \in Threads
    BY DEF TailFreers, HeadFreers
  <2> QED
    BY <1>1, <2>1, <2>2, <2>3, <2>4, <2>5
<1>4. \A k \in live : k # n => CountInv!(k)'
  BY <1>1, <1>3, SameStep DEF SameCount
<1>5. Holders(n)' = Holders(n) \ {t} /\ t \in Holders(n)
  BY <1>1 DEF Holders
<1>6. IsFiniteSet(Holders(n))
  BY <1>2, Balance
<1>7. Cardinality(Holders(n)') = Cardinality(Holders(n)) - 1 /\ Cardinality(Holders(n)) \in Nat
  BY <1>5, <1>6, FS_RemoveElement, FS_CardinalityType
<1> QED
  BY <1>4, <1>6, <1>7

\* Every step keeps the counters of every node exact.
LEMMA CountStep ==
  ASSUME TypeOK, PtrInv, ChainInv, OwnInv, HoldInv, FreerInv, CountInv, NEW t \in Threads, Step(t)
  PROVE  CountInv'
<1>1. CASE PushCall(t)
  <2>1. PICK m \in Nodes : NewNode(m)
    BY <1>1 DEF PushCall
  <2>2. /\ m \notin live /\ live' = live \cup {m} /\ live \subseteq Nodes
        /\ internal'[m] = 0 /\ external'[m] = 2 /\ m \notin tailLeft' /\ m \notin headLeft'
        /\ UNCHANGED <<head, tail, old>>
        /\ \A n \in live : /\ internal'[n] = internal[n] /\ external'[n] = external[n]
                           /\ (n \in tailLeft' <=> n \in tailLeft)
                           /\ (n \in headLeft' <=> n \in headLeft)
    BY <1>1, <2>1 DEF PushCall, NewNode, ptrs, TypeOK
  <2>3. /\ \A u \in Threads : u # t => pc'[u] = pc[u]
        /\ pc[t] = "idle" /\ pc'[t] = "inc_tail"
    BY <1>1 DEF PushCall, At, Goto, TypeOK
  <2>4. \A n : /\ Holders(n)' = Holders(n)
               /\ TailFreers(n)' = TailFreers(n) /\ HeadFreers(n)' = HeadFreers(n)
    BY <2>2, <2>3 DEF Holders, TailFreers, HeadFreers, Holding, TailHolding, HeadHolding
  <2>5. \A n \in live : CountInv!(n)'
    BY <2>2, <2>4, SameStep DEF SameCount
  <2>6. Holders(m)' = {}
    BY <2>2, <2>4 DEF Holders, HoldInv
  <2>7. CountInv!(m)'
    BY <2>2, <2>6, FreshStep DEF PtrInv
  <2> QED
    BY <2>2, <2>5, <2>7 DEF CountInv
<1>2. CASE IncTail(t)
  <2> SUFFICES ASSUME NEW k, k = tail.ptr
               PROVE  CountInv'
    OBVIOUS
  <2>1. /\ pc[t] \notin Holding /\ pc'[t] \in Holding
        /\ pc'[t] \notin {"free_tail", "take", "free_head"}
        /\ pc[t] \notin {"free_tail", "take", "free_head"}
        /\ UNCHANGED <<head, live, internal, external, tailLeft, headLeft>>
        /\ tail'.ptr = k /\ tail'.cnt = tail.cnt + 1 /\ tail.cnt \in Nat /\ old'[t].ptr = k
        /\ \A u \in Threads : u # t => pc'[u] = pc[u] /\ old'[u] = old[u]
    BY <1>2 DEF IncTail, At, Goto, Counted, mem, log, TypeOK, Holding, TailHolding, HeadHolding
  <2>2. \A n : /\ TailFreers(n)' = TailFreers(n) /\ HeadFreers(n)' = HeadFreers(n)
               /\ \A u \in TailFreers(n) \cup HeadFreers(n) : old'[u] = old[u]
    BY <2>1 DEF TailFreers, HeadFreers
  <2>3. \A n : n # k => Holders(n)' = Holders(n)
    BY <2>1 DEF Holders
  <2>4. Holders(k)' = Holders(k) \cup {t} /\ t \notin Holders(k)
    BY <2>1 DEF Holders
  <2>5. \A n \in live : n # k => CountInv!(n)'
    BY <2>1, <2>2, <2>3, SameStep DEF SameCount
  <2>6. CountInv!(k)'
    <3>1. k \in live
      BY DEF PtrInv
    <3>2. CountInv!(k) /\ IsFiniteSet(Holders(k)) /\ internal[k] \in Int
      BY <3>1, Balance DEF CountInv, TypeOK
    <3>3. /\ Cardinality(Holders(k)') = Cardinality(Holders(k)) + 1
          /\ Cardinality(Holders(k)) \in Nat
      BY <2>4, <3>2, FS_AddElement, FS_CardinalityType
    <3>4. TailPending(k)' = TailPending(k) /\ HeadPending(k)' = HeadPending(k)
      BY <2>1, <2>2 DEF TailPending, HeadPending
    <3>5. TailSurplus(k) = {tail.cnt - 1} /\ TailSurplus(k)' = {tail.cnt}
      BY <2>1 DEF TailSurplus
    <3>6. HeadSurplus(k)' = HeadSurplus(k) /\ HeadSurplus(k) \subseteq Int
      <4>1. {old'[u].cnt - 1 : u \in HeadFreers(k)'} = {old[u].cnt - 1 : u \in HeadFreers(k)}
        BY <2>2
      <4>2. HeadSurplus(k)' = HeadSurplus(k)
        BY <2>1, <2>2, <4>1 DEF HeadSurplus
      <4>3. HeadSurplus(k) \subseteq Int
        BY DEF HeadSurplus, HeadFreers, TypeOK
      <4> QED
        BY <4>2, <4>3
    <3>7. \A a \in TailSurplus(k)', b \in HeadSurplus(k)' :
            internal'[k] + a + b = Cardinality(Holders(k)')
      BY <2>1, <3>2, <3>3, <3>5, <3>6
    <3> QED
      BY <2>1, <3>2, <3>4, <3>7
  <2> QED
    BY <2>1, <2>5, <2>6 DEF CountInv
<1>3. CASE CasData(t)
  <2>1. Quiet(t)
    BY <1>3 DEF Quiet, CasData, At, Goto, ptrs, mem, local, log, TypeOK, Holding, TailHolding,
         HeadHolding
  <2> QED
    BY <2>1, QuietStep
<1>4. CASE CasNext(t)
  <2>1. /\ UNCHANGED <<head, tail, old>> /\ pc[t] = "cas_next" /\ pc'[t] = "set_tail"
        /\ \A u \in Threads : u # t => pc'[u] = pc[u]
    BY <1>4 DEF CasNext, At, Goto, ptrs, TypeOK
  <2>2. \A n : /\ Holders(n)' = Holders(n)
               /\ TailFreers(n)' = TailFreers(n) /\ HeadFreers(n)' = HeadFreers(n)
    BY <2>1 DEF Holders, TailFreers, HeadFreers, Holding, TailHolding, HeadHolding
  <2>3. CASE \E m \in Nodes : NewNode(m)
    <3>1. PICK m \in Nodes : NewNode(m)
      BY <2>3
    <3>2. /\ m \notin live /\ live' = live \cup {m}
          /\ internal'[m] = 0 /\ external'[m] = 2 /\ m \notin tailLeft' /\ m \notin headLeft'
          /\ \A n \in live : /\ internal'[n] = internal[n] /\ external'[n] = external[n]
                             /\ (n \in tailLeft' <=> n \in tailLeft)
                             /\ (n \in headLeft' <=> n \in headLeft)
      BY <3>1 DEF NewNode, TypeOK
    <3>3. \A n \in live : CountInv!(n)'
      BY <2>1, <2>2, <3>2, SameStep DEF SameCount
    <3>4. Holders(m)' = {}
      BY <2>2, <3>2 DEF Holders, HoldInv
    <3>5. CountInv!(m)'
      BY <2>1, <3>2, <3>4, FreshStep DEF PtrInv
    <3> QED
      BY <3>2, <3>3, <3>5 DEF CountInv
  <2>4. CASE UNCHANGED <<internal, external, tailLeft, headLeft>> /\ live' \subseteq live
    <3>1. \A n \in live : SameCount(n)
      BY <2>1, <2>2, <2>4 DEF SameCount
    <3> QED
      BY <2>4, <3>1, SameStep DEF CountInv
  <2> QED
    BY <1>4, <2>3, <2>4 DEF CasNext
<1>5. CASE SetNewTail(t)
  <2> SUFFICES ASSUME NEW n, n = old[t].ptr, NEW m, m = nxt[t]
               PROVE  CountInv'
    OBVIOUS
  <2>1. /\ pc[t] = "set_tail" /\ UNCHANGED <<head, live, internal, external, headLeft>>
        /\ \A u \in Threads : u # t => pc'[u] = pc[u] /\ old'[u] = old[u]
        /\ old'[t].ptr = n /\ n \in live /\ m = next[n]
    BY <1>5 DEF SetNewTail, At, Goto, mem, TypeOK, HoldInv, Holding, TailHolding, HeadHolding
  <2>2. CASE tail.ptr = n /\ pc'[t] = "free_tail"
    <3>1. /\ tail'.ptr = m /\ tail'.cnt = 1 /\ old'[t].cnt = tail.cnt
          /\ tailLeft' = tailLeft \cup {n} /\ tail.cnt \in Nat
      BY <1>5, <2>2 DEF SetNewTail, Goto, Counted, TypeOK
    <3>2. /\ n \notin tailLeft /\ n \notin headLeft /\ m # NULL
          /\ m \in live /\ m \notin tailLeft /\ m # tail.ptr /\ m # n
      BY <2>1, <2>2 DEF SetNewTail, PtrInv, ChainInv, HoldInv
    <3>3. \A k : Holders(k)' = Holders(k)
      BY <2>1, <2>2 DEF Holders, Holding, TailHolding, HeadHolding
    <3>4. \A k : /\ HeadFreers(k)' = HeadFreers(k)
                 /\ \A u \in HeadFreers(k) : old'[u] = old[u]
      BY <2>1, <2>2 DEF HeadFreers
    <3>5. \A k : k # n => /\ TailFreers(k)' = TailFreers(k)
                          /\ \A u \in TailFreers(k) : old'[u] = old[u]
      BY <2>1, <2>2 DEF TailFreers
    <3>6. \A k : HeadSurplus(k)' = HeadSurplus(k) /\ HeadPending(k)' = HeadPending(k)
      <4> SUFFICES ASSUME NEW k
                   PROVE  HeadSurplus(k)' = HeadSurplus(k) /\ HeadPending(k)' = HeadPending(k)
        OBVIOUS
      <4>1. {old'[u].cnt - 1 : u \in HeadFreers(k)'} = {old[u].cnt - 1 : u \in HeadFreers(k)}
        BY <3>4
      <4> QED
        BY <2>1, <3>4, <4>1 DEF HeadSurplus, HeadPending
    <3>7. \A k \in live : k # n /\ k # m => CountInv!(k)'
      BY <2>1, <2>2, <3>1, <3>3, <3>4, <3>5, SameStep DEF SameCount
    <3>8. CountInv!(n)'
      <4>1. CountInv!(n)
        BY <2>1 DEF CountInv
      <4>2. TailPending(n) /\ TailPending(n)'
        BY <2>1, <2>2, <3>2 DEF TailPending, TailFreers
      <4>3. TailFreers(n) = {}
        BY <3>2 DEF TailFreers, FreerInv
      <4>4. TailFreers(n)' = {t}
        BY <2>1, <2>2, <4>3 DEF TailFreers
      <4>5. TailSurplus(n) = {tail.cnt - 1}
        BY <2>2 DEF TailSurplus
      <4>6. TailSurplus(n)' = {tail.cnt - 1}
        BY <3>1, <3>2, <4>4 DEF TailSurplus
      <4> QED
        BY <2>1, <3>3, <3>6, <4>1, <4>2, <4>5, <4>6
    <3>9. CountInv!(m)'
      <4>1. CountInv!(m)
        BY <3>2 DEF CountInv
      <4>2. TailPending(m) /\ TailPending(m)'
        BY <3>1, <3>2 DEF TailPending
      <4>3. TailFreers(m) = {}
        BY <3>2 DEF TailFreers, FreerInv
      <4>4. TailSurplus(m) = {0} /\ TailSurplus(m)' = {0}
        BY <3>1, <3>2, <4>3 DEF TailSurplus
      <4> QED
        BY <2>1, <3>3, <3>6, <4>1, <4>2, <4>4
    <3> QED
      BY <2>1, <3>7, <3>8, <3>9 DEF CountInv
  <2>3. CASE pc'[t] = "drop_tail" /\ UNCHANGED <<tail, tailLeft, old>>
    <3>1. \A k : /\ Holders(k)' = Holders(k)
                 /\ TailFreers(k)' = TailFreers(k) /\ HeadFreers(k)' = HeadFreers(k)
      BY <2>1, <2>3 DEF Holders, TailFreers, HeadFreers, Holding, TailHolding, HeadHolding
    <3>2. \A k \in live : SameCount(k)
      BY <2>1, <2>3, <3>1 DEF SameCount
    <3> QED
      BY <2>1, <3>2, SameStep DEF CountInv
  <2> QED
    BY <1>5, <2>2, <2>3 DEF SetNewTail, Goto, TypeOK
<1>6. CASE PushReturn(t)
  <2>1. Quiet(t)
    BY <1>6 DEF Quiet, PushReturn, At, Goto, Return, ptrs, mem, local, log, TypeOK, Holding,
         TailHolding, HeadHolding
  <2> QED
    BY <2>1, QuietStep
<1>7. CASE PopCall(t)
  <2>1. Quiet(t)
    BY <1>7 DEF Quiet, PopCall, At, Goto, ptrs, mem, local, log, TypeOK, Holding, TailHolding,
         HeadHolding
  <2> QED
    BY <2>1, QuietStep
<1>8. CASE PopTest(t)
  <2>1. Quiet(t)
    BY <1>8 DEF Quiet, PopTest, At, Goto, Return, ptrs, mem, local, log, TypeOK, Holding,
         TailHolding, HeadHolding
  <2> QED
    BY <2>1, QuietStep
<1>9. CASE PopEnter(t)
  <2>1. Quiet(t)
    BY <1>9 DEF Quiet, PopEnter, At, Goto, ptrs, mem, local, log, TypeOK, Holding, TailHolding,
         HeadHolding
  <2> QED
    BY <2>1, QuietStep
<1>10. CASE IncHead(t)
  <2> SUFFICES ASSUME NEW k, k = head.ptr
               PROVE  CountInv'
    OBVIOUS
  <2>1. /\ pc[t] \notin Holding /\ pc'[t] \in Holding
        /\ pc'[t] \notin {"free_tail", "take", "free_head"}
        /\ pc[t] \notin {"free_tail", "take", "free_head"}
        /\ UNCHANGED <<tail, live, internal, external, tailLeft, headLeft>>
        /\ head'.ptr = k /\ head'.cnt = head.cnt + 1 /\ head.cnt \in Nat /\ old'[t].ptr = k
        /\ \A u \in Threads : u # t => pc'[u] = pc[u] /\ old'[u] = old[u]
    BY <1>10 DEF IncHead, At, Goto, Counted, mem, log, TypeOK, Holding, TailHolding, HeadHolding
  <2>2. \A n : /\ TailFreers(n)' = TailFreers(n) /\ HeadFreers(n)' = HeadFreers(n)
               /\ \A u \in TailFreers(n) \cup HeadFreers(n) : old'[u] = old[u]
    BY <2>1 DEF TailFreers, HeadFreers
  <2>3. \A n : n # k => Holders(n)' = Holders(n)
    BY <2>1 DEF Holders
  <2>4. Holders(k)' = Holders(k) \cup {t} /\ t \notin Holders(k)
    BY <2>1 DEF Holders
  <2>5. \A n \in live : n # k => CountInv!(n)'
    BY <2>1, <2>2, <2>3, SameStep DEF SameCount
  <2>6. CountInv!(k)'
    <3>1. k \in live
      BY DEF PtrInv
    <3>2. CountInv!(k) /\ IsFiniteSet(Holders(k)) /\ internal[k] \in Int
      BY <3>1, Balance DEF CountInv, TypeOK
    <3>3. /\ Cardinality(Holders(k)') = Cardinality(Holders(k)) + 1
          /\ Cardinality(Holders(k)) \in Nat
      BY <2>4, <3>2, FS_AddElement, FS_CardinalityType
    <3>4. TailPending(k)' = TailPending(k) /\ HeadPending(k)' = HeadPending(k)
      BY <2>1, <2>2 DEF TailPending, HeadPending
    <3>5. HeadSurplus(k) = {head.cnt - 1} /\ HeadSurplus(k)' = {head.cnt}
      BY <2>1 DEF HeadSurplus
    <3>6. TailSurplus(k)' = TailSurplus(k) /\ TailSurplus(k) \subseteq Int
      <4>1. {old'[u].cnt - 1 : u \in TailFreers(k)'} = {old[u].cnt - 1 : u \in TailFreers(k)}
        BY <2>2
      <4>2. TailSurplus(k)' = TailSurplus(k)
        BY <2>1, <2>2, <4>1 DEF TailSurplus
      <4>3. TailSurplus(k) \subseteq Int
        BY DEF TailSurplus, TailFreers, TypeOK
      <4> QED
        BY <4>2, <4>3
    <3>7. \A a \in TailSurplus(k)', b \in HeadSurplus(k)' :
            internal'[k] + a + b = Cardinality(Holders(k)')
      BY <2>1, <3>2, <3>3, <3>5, <3>6
    <3> QED
      BY <2>1, <3>2, <3>4, <3>7
  <2> QED
    BY <2>1, <2>5, <2>6 DEF CountInv
<1>11. CASE PopAtTail(t)
  <2>1. Quiet(t)
    BY <1>11 DEF Quiet, PopAtTail, At, Goto, ptrs, mem, local, log, TypeOK, Holding,
         TailHolding, HeadHolding
  <2> QED
    BY <2>1, QuietStep
<1>12. CASE LoadNext(t)
  <2>1. Quiet(t)
    BY <1>12 DEF Quiet, LoadNext, At, Goto, ptrs, mem, local, log, TypeOK, Holding,
         TailHolding, HeadHolding
  <2> QED
    BY <2>1, QuietStep
<1>13. CASE CasHead(t)
  <2> SUFFICES ASSUME NEW n, n = old[t].ptr, NEW m, m = nxt[t]
               PROVE  CountInv'
    OBVIOUS
  <2>1. /\ pc[t] = "cas_head" /\ UNCHANGED <<tail, live, internal, external, tailLeft>>
        /\ \A u \in Threads : u # t => pc'[u] = pc[u] /\ old'[u] = old[u]
        /\ old'[t].ptr = n /\ n \in live /\ m = next[n]
    BY <1>13 DEF CasHead, At, Goto, mem, TypeOK, HoldInv, Holding, TailHolding, HeadHolding
  <2>2. CASE head.ptr = n /\ pc'[t] = "take"
    <3>1. /\ head'.ptr = m /\ head'.cnt = 1 /\ old'[t].cnt = head.cnt
          /\ headLeft' = headLeft \cup {n} /\ head.cnt \in Nat
      BY <1>13, <2>2 DEF CasHead, Goto, Counted, TypeOK
    <3>2. /\ n \notin headLeft /\ n \notin headLeft /\ m # NULL
          /\ m \in live /\ m \notin headLeft /\ m # head.ptr /\ m # n
      BY <2>1, <2>2 DEF CasHead, PtrInv, ChainInv, HoldInv
    <3>3. \A k : Holders(k)' = Holders(k)
      BY <2>1, <2>2 DEF Holders, Holding, TailHolding, HeadHolding
    <3>4. \A k : /\ TailFreers(k)' = TailFreers(k)
                 /\ \A u \in TailFreers(k) : old'[u] = old[u]
      BY <2>1, <2>2 DEF TailFreers
    <3>5. \A k : k # n => /\ HeadFreers(k)' = HeadFreers(k)
                          /\ \A u \in HeadFreers(k) : old'[u] = old[u]
      BY <2>1, <2>2 DEF HeadFreers
    <3>6. \A k : TailSurplus(k)' = TailSurplus(k) /\ TailPending(k)' = TailPending(k)
      <4> SUFFICES ASSUME NEW k
                   PROVE  TailSurplus(k)' = TailSurplus(k) /\ TailPending(k)' = TailPending(k)
        OBVIOUS
      <4>1. {old'[u].cnt - 1 : u \in TailFreers(k)'} = {old[u].cnt - 1 : u \in TailFreers(k)}
        BY <3>4
      <4> QED
        BY <2>1, <3>4, <4>1 DEF TailSurplus, TailPending
    <3>7. \A k \in live : k # n /\ k # m => CountInv!(k)'
      BY <2>1, <2>2, <3>1, <3>3, <3>4, <3>5, SameStep DEF SameCount
    <3>8. CountInv!(n)'
      <4>1. CountInv!(n)
        BY <2>1 DEF CountInv
      <4>2. HeadPending(n) /\ HeadPending(n)'
        BY <2>1, <2>2, <3>2 DEF HeadPending, HeadFreers
      <4>3. HeadFreers(n) = {}
        BY <3>2 DEF HeadFreers, FreerInv
      <4>4. HeadFreers(n)' = {t}
        BY <2>1, <2>2, <4>3 DEF HeadFreers
      <4>5. HeadSurplus(n) = {head.cnt - 1}
        BY <2>2 DEF HeadSurplus
      <4>6. HeadSurplus(n)' = {head.cnt - 1}
        BY <3>1, <3>2, <4>4 DEF HeadSurplus
      <4> QED
        BY <2>1, <3>3, <3>6, <4>1, <4>2, <4>5, <4>6
    <3>9. CountInv!(m)'
      <4>1. CountInv!(m)
        BY <3>2 DEF CountInv
      <4>2. HeadPending(m) /\ HeadPending(m)'
        BY <3>1, <3>2 DEF HeadPending
      <4>3. HeadFreers(m) = {}
        BY <3>2 DEF HeadFreers, FreerInv
      <4>4. HeadSurplus(m) = {0} /\ HeadSurplus(m)' = {0}
        BY <3>1, <3>2, <4>3 DEF HeadSurplus
      <4> QED
        BY <2>1, <3>3, <3>6, <4>1, <4>2, <4>4
    <3> QED
      BY <2>1, <3>7, <3>8, <3>9 DEF CountInv
  <2>3. CASE pc'[t] = "drop_head" /\ UNCHANGED <<head, headLeft, old>>
    <3>1. \A k : /\ Holders(k)' = Holders(k)
                 /\ TailFreers(k)' = TailFreers(k) /\ HeadFreers(k)' = HeadFreers(k)
      BY <2>1, <2>3 DEF Holders, TailFreers, HeadFreers, Holding, TailHolding, HeadHolding
    <3>2. \A k \in live : SameCount(k)
      BY <2>1, <2>3, <3>1 DEF SameCount
    <3> QED
      BY <2>1, <3>2, SameStep DEF CountInv
  <2> QED
    BY <1>13, <2>2, <2>3 DEF CasHead, Goto, TypeOK
<1>14. CASE Take(t)
  <2>1. Quiet(t)
    BY <1>14 DEF Quiet, Take, At, Goto, ptrs, mem, local, log, TypeOK, Holding, TailHolding,
         HeadHolding
  <2> QED
    BY <2>1, QuietStep
<1>15. CASE PopReturn(t)
  <2>1. Quiet(t)
    BY <1>15 DEF Quiet, PopReturn, At, Goto, Return, ptrs, mem, local, log, TypeOK, Holding,
         TailHolding, HeadHolding
  <2> QED
    BY <2>1, QuietStep
<1>16. CASE FreeExternal(t)
  <2> SUFFICES ASSUME NEW n, n = old[t].ptr
               PROVE  CountInv'
    OBVIOUS
  <2>0. Settles(t)
    BY <1>16, DeleteSafe
  <2>1. /\ UNCHANGED <<head, tail, tailLeft, headLeft>> /\ live' \subseteq live
        /\ \A u \in Threads : u # t => pc'[u] = pc[u] /\ old'[u] = old[u]
        /\ pc[t] \in Holding /\ pc'[t] \notin Holding
    BY <2>0 DEF Settles
  <2>2. /\ n \in live /\ n \in Nodes /\ internal[n] \in Int /\ old[t].cnt \in Int
        /\ external[n] \in Int
    BY <2>1 DEF HoldInv, TypeOK
  <2>3. CountInv!(n)
    BY <2>2 DEF CountInv
  <2>4. /\ \A k \in live : k # n => CountInv!(k)'
        /\ Cardinality(Holders(n)') = Cardinality(Holders(n)) - 1
        /\ Cardinality(Holders(n)) \in Nat
    <3>1. \A k \in live : k # n => internal'[k] = internal[k] /\ external'[k] = external[k]
      BY <1>16, <2>2 DEF FreeExternal, SetCount, TypeOK
    <3> QED
      BY <2>0, <3>1, GiveUp
  <2>5. internal'[n] = internal[n] + (old[t].cnt - 2) /\ external'[n] = external[n] - 1
    BY <1>16, <2>2 DEF FreeExternal, SetCount, CountIncrease, TypeOK
  <2>6. CASE pc[t] = "free_tail" /\ n \in live'
    <3>1. t \in TailFreers(n) /\ n \in tailLeft /\ tail.ptr # n
      BY <2>6 DEF TailFreers, FreerInv, PtrInv
    <3>2. TailFreers(n) = {t}
      BY <3>1 DEF TailFreers, FreerInv
    <3>3. TailFreers(n)' = {}
      BY <2>1, <3>2 DEF TailFreers, Holding, TailHolding, HeadHolding
    <3>4. /\ HeadFreers(n)' = HeadFreers(n)
          /\ \A u \in HeadFreers(n) : old'[u] = old[u]
      BY <2>1, <2>6 DEF HeadFreers, Holding, TailHolding, HeadHolding
    <3>5. TailSurplus(n) = {old[t].cnt - 1} /\ TailSurplus(n)' = {0}
      BY <2>1, <3>1, <3>2, <3>3 DEF TailSurplus
    <3>6. TailPending(n) /\ ~TailPending(n)'
      BY <2>1, <3>1, <3>3 DEF TailPending
    <3>7. HeadPending(n)' = HeadPending(n)
      BY <2>1, <3>4 DEF HeadPending
    <3>8. HeadSurplus(n)' = HeadSurplus(n) /\ HeadSurplus(n) \subseteq Int
      <4>1. {old'[u].cnt - 1 : u \in HeadFreers(n)'} = {old[u].cnt - 1 : u \in HeadFreers(n)}
        BY <3>4
      <4>2. HeadSurplus(n)' = HeadSurplus(n)
        BY <2>1, <3>4, <4>1 DEF HeadSurplus
      <4>3. HeadSurplus(n) \subseteq Int
        BY DEF HeadSurplus, HeadFreers, TypeOK
      <4> QED
        BY <4>2, <4>3
    <3>9. \A a \in TailSurplus(n)', b \in HeadSurplus(n)' :
            internal'[n] + a + b = Cardinality(Holders(n)')
      BY <2>2, <2>3, <2>4, <2>5, <3>5, <3>8
    <3>10. CountInv!(n)'
      BY <2>2, <2>3, <2>5, <3>6, <3>7, <3>9
    <3> QED
      BY <2>1, <2>4, <3>10 DEF CountInv
  <2>7. CASE pc[t] = "free_head" /\ n \in live'
    <3>1. t \in HeadFreers(n) /\ n \in headLeft /\ head.ptr # n
      BY <2>7 DEF HeadFreers, FreerInv, PtrInv
    <3>2. HeadFreers(n) = {t}
      BY <3>1 DEF HeadFreers, FreerInv
    <3>3. HeadFreers(n)' = {}
      BY <2>1, <3>2 DEF HeadFreers, Holding, TailHolding, HeadHolding
    <3>4. /\ TailFreers(n)' = TailFreers(n)
          /\ \A u \in TailFreers(n) : old'[u] = old[u]
      BY <2>1, <2>7 DEF TailFreers, Holding, TailHolding, HeadHolding
    <3>5. HeadSurplus(n) = {old[t].cnt - 1} /\ HeadSurplus(n)' = {0}
      BY <2>1, <3>1, <3>2, <3>3 DEF HeadSurplus
    <3>6. HeadPending(n) /\ ~HeadPending(n)'
      BY <2>1, <3>1, <3>3 DEF HeadPending
    <3>7. TailPending(n)' = TailPending(n)
      BY <2>1, <3>4 DEF TailPending
    <3>8. TailSurplus(n)' = TailSurplus(n) /\ TailSurplus(n) \subseteq Int
      <4>1. {old'[u].cnt - 1 : u \in TailFreers(n)'} = {old[u].cnt - 1 : u \in TailFreers(n)}
        BY <3>4
      <4>2. TailSurplus(n)' = TailSurplus(n)
        BY <2>1, <3>4, <4>1 DEF TailSurplus
      <4>3. TailSurplus(n) \subseteq Int
        BY DEF TailSurplus, TailFreers, TypeOK
      <4> QED
        BY <4>2, <4>3
    <3>9. \A a \in TailSurplus(n)', b \in HeadSurplus(n)' :
            internal'[n] + a + b = Cardinality(Holders(n)')
      BY <2>2, <2>3, <2>4, <2>5, <3>5, <3>8
    <3>10. CountInv!(n)'
      BY <2>2, <2>3, <2>5, <3>6, <3>7, <3>9
    <3> QED
      BY <2>1, <2>4, <3>10 DEF CountInv
  <2> QED
    BY <1>16, <2>1, <2>4, <2>6, <2>7 DEF FreeExternal, CountInv
<1>17. CASE ReleaseRef(t)
  <2> SUFFICES ASSUME NEW n, n = old[t].ptr
               PROVE  CountInv'
    OBVIOUS
  <2>0. Settles(t)
    BY <1>17, DeleteSafe
  <2>1. /\ UNCHANGED <<head, tail, tailLeft, headLeft>> /\ live' \subseteq live
        /\ \A u \in Threads : u # t => pc'[u] = pc[u] /\ old'[u] = old[u]
        /\ pc[t] \in Holding /\ pc'[t] \notin Holding
    BY <2>0 DEF Settles
  <2>2. /\ n \in live /\ n \in Nodes /\ internal[n] \in Int /\ old[t].cnt \in Int
        /\ external[n] \in Int
    BY <2>1 DEF HoldInv, TypeOK
  <2>3. CountInv!(n)
    BY <2>2 DEF CountInv
  <2>4. /\ \A k \in live : k # n => CountInv!(k)'
        /\ Cardinality(Holders(n)') = Cardinality(Holders(n)) - 1
        /\ Cardinality(Holders(n)) \in Nat
    <3>1. \A k \in live : k # n => internal'[k] = internal[k] /\ external'[k] = external[k]
      BY <1>17, <2>2 DEF ReleaseRef, SetCount, TypeOK
    <3> QED
      BY <2>0, <3>1, GiveUp
  <2>5. internal'[n] = internal[n] - 1 /\ external'[n] = external[n]
    BY <1>17, <2>2 DEF ReleaseRef, SetCount, TypeOK
  <2>6. /\ TailFreers(n)' = TailFreers(n) /\ HeadFreers(n)' = HeadFreers(n)
        /\ \A u \in TailFreers(n) \cup HeadFreers(n) : old'[u] = old[u]
    <3>1. pc[t] \notin {"free_tail", "take", "free_head"}
      BY <1>17 DEF ReleaseRef, At
    <3> QED
      BY <2>1, <3>1 DEF TailFreers, HeadFreers, Holding, TailHolding, HeadHolding
  <2>7. TailPending(n)' = TailPending(n) /\ HeadPending(n)' = HeadPending(n)
    BY <2>1, <2>6 DEF TailPending, HeadPending
  <2>8. TailSurplus(n)' = TailSurplus(n) /\ HeadSurplus(n)' = HeadSurplus(n)
    <3>1. {old'[u].cnt - 1 : u \in TailFreers(n)'} = {old[u].cnt - 1 : u \in TailFreers(n)}
      BY <2>6
    <3>2. {old'[u].cnt - 1 : u \in HeadFreers(n)'} = {old[u].cnt - 1 : u \in HeadFreers(n)}
      BY <2>6
    <3> QED
      BY <2>1, <2>6, <3>1, <3>2 DEF TailSurplus, HeadSurplus
  <2>9. TailSurplus(n) \subseteq Int /\ HeadSurplus(n) \subseteq Int
    BY SMTT(20) DEF TailSurplus, HeadSurplus, TailFreers, HeadFreers, TypeOK
  <2>10. \A a \in TailSurplus(n)', b \in HeadSurplus(n)' :
          internal'[n] + a + b = Cardinality(Holders(n)')
    BY <2>2, <2>3, <2>4, <2>5, <2>8, <2>9
  <2>11. CountInv!(n)'
    BY <2>3, <2>5, <2>7, <2>10
  <2> QED
    BY <2>1, <2>4, <2>11 DEF CountInv
<1>18. CASE ReleaseEmpty(t)
  <2> SUFFICES ASSUME NEW n, n = old[t].ptr
               PROVE  CountInv'
    OBVIOUS
  <2>0. Settles(t)
    BY <1>18, DeleteSafe
  <2>1. /\ UNCHANGED <<head, tail, tailLeft, headLeft>> /\ live' \subseteq live
        /\ \A u \in Threads : u # t => pc'[u] = pc[u] /\ old'[u] = old[u]
        /\ pc[t] \in Holding /\ pc'[t] \notin Holding
    BY <2>0 DEF Settles
  <2>2. /\ n \in live /\ n \in Nodes /\ internal[n] \in Int /\ old[t].cnt \in Int
        /\ external[n] \in Int
    BY <2>1 DEF HoldInv, TypeOK
  <2>3. CountInv!(n)
    BY <2>2 DEF CountInv
  <2>4. /\ \A k \in live : k # n => CountInv!(k)'
        /\ Cardinality(Holders(n)') = Cardinality(Holders(n)) - 1
        /\ Cardinality(Holders(n)) \in Nat
    <3>1. \A k \in live : k # n => internal'[k] = internal[k] /\ external'[k] = external[k]
      BY <1>18, <2>2 DEF ReleaseEmpty, SetCount, TypeOK
    <3> QED
      BY <2>0, <3>1, GiveUp
  <2>5. internal'[n] = internal[n] - 1 /\ external'[n] = external[n]
    BY <1>18, <2>2 DEF ReleaseEmpty, SetCount, TypeOK
  <2>6. /\ TailFreers(n)' = TailFreers(n) /\ HeadFreers(n)' = HeadFreers(n)
        /\ \A u \in TailFreers(n) \cup HeadFreers(n) : old'[u] = old[u]
    <3>1. pc[t] \notin {"free_tail", "take", "free_head"}
      BY <1>18 DEF ReleaseEmpty, At
    <3> QED
      BY <2>1, <3>1 DEF TailFreers, HeadFreers, Holding, TailHolding, HeadHolding
  <2>7. TailPending(n)' = TailPending(n) /\ HeadPending(n)' = HeadPending(n)
    BY <2>1, <2>6 DEF TailPending, HeadPending
  <2>8. TailSurplus(n)' = TailSurplus(n) /\ HeadSurplus(n)' = HeadSurplus(n)
    <3>1. {old'[u].cnt - 1 : u \in TailFreers(n)'} = {old[u].cnt - 1 : u \in TailFreers(n)}
      BY <2>6
    <3>2. {old'[u].cnt - 1 : u \in HeadFreers(n)'} = {old[u].cnt - 1 : u \in HeadFreers(n)}
      BY <2>6
    <3> QED
      BY <2>1, <2>6, <3>1, <3>2 DEF TailSurplus, HeadSurplus
  <2>9. TailSurplus(n) \subseteq Int /\ HeadSurplus(n) \subseteq Int
    BY SMTT(20) DEF TailSurplus, HeadSurplus, TailFreers, HeadFreers, TypeOK
  <2>10. \A a \in TailSurplus(n)', b \in HeadSurplus(n)' :
          internal'[n] + a + b = Cardinality(Holders(n)')
    BY <2>2, <2>3, <2>4, <2>5, <2>8, <2>9
  <2>11. CountInv!(n)'
    BY <2>3, <2>5, <2>7, <2>10
  <2> QED
    BY <2>1, <2>4, <2>11 DEF CountInv
<1> QED
  BY <1>1, <1>2, <1>3, <1>4, <1>5, <1>6, <1>7, <1>8, <1>9, <1>10, <1>11, <1>12, <1>13, <1>14,
       <1>15, <1>16, <1>17, <1>18 DEF Step

\* Returning from a call leaves the locals in range.
LEMMA ReturnTyped ==
  ASSUME TypeOK, NEW t \in Threads, Return(t)
  PROVE  /\ pc' \in [Threads -> Holding \cup {"idle", "inc_tail", "push_stat", "peek_head",
                                              "peek_tail", "inc_head", "pop_stat", "end"}]
         /\ old' \in [Threads -> [ptr : Word, cnt : 0 .. CountMax]]
         /\ mine' \in [Threads -> Word] /\ nxt' \in [Threads -> Word]
         /\ val' \in [Threads -> Datum] /\ stored' \in [Threads -> BOOLEAN]
         /\ mark' \in [Threads -> Nat]
<1>1. Counted(NULL, 0) \in [ptr : Word, cnt : 0 .. CountMax]
  BY BoundsAssumption DEF Counted, Word
<1>2. old' \in [Threads -> [ptr : Word, cnt : 0 .. CountMax]]
  BY <1>1 DEF Return, TypeOK
<1>3. NULL \in Word /\ NULL \in Datum
  BY DEF Word, Datum, FreshData
<1> QED
  BY <1>2, <1>3 DEF Return, Goto, TypeOK

\* Every step keeps the variables in range; a pointer's target is a node and an
\* external counter stays in 0 .. 2 because the counts are exact.
LEMMA TypeStep ==
  ASSUME TypeOK, PtrInv, ChainInv, OwnInv, HoldInv, FreerInv, CountInv, NEW t \in Threads, Step(t)
  PROVE  TypeOK'
<1>1. CASE PushCall(t)
  BY <1>1, NodesAssumption, BoundsAssumption, SMTT(20) DEF TypeOK, Word, Datum, Values, FreshData,
       Holding, TailHolding, HeadHolding, HoldInv, ChainInv, PtrInv, PushCall, NewNode, Goto,
       At, ptrs
<1>2. CASE IncTail(t)
  BY <1>2, NodesAssumption, BoundsAssumption DEF TypeOK, Word, Datum, Values, FreshData,
       Holding, TailHolding, HeadHolding, HoldInv, ChainInv, PtrInv, IncTail, Counted, Goto,
       At, mem, calls, log
<1>3. CASE CasData(t)
  <2>1. stored' \in [Threads -> BOOLEAN]
    BY <1>3 DEF CasData, Vacant, TypeOK
  <2>2. data' \in [Nodes -> Datum]
    BY <1>3 DEF CasData, TypeOK
  <2>3. pc' \in [Threads -> Holding \cup {"idle", "inc_tail", "push_stat", "peek_head",
                                          "peek_tail", "inc_head", "pop_stat", "end"}]
    BY <1>3 DEF CasData, Goto, TypeOK, Holding, TailHolding
  <2> QED
    BY <1>3, <2>1, <2>2, <2>3 DEF CasData, TypeOK, ptrs, calls, log
<1>4. CASE CasNext(t)
  <2>1. pc' \in [Threads -> Holding \cup {"idle", "inc_tail", "push_stat", "peek_head",
                                          "peek_tail", "inc_head", "pop_stat", "end"}]
    BY <1>4 DEF CasNext, Goto, TypeOK, Holding, TailHolding
  <2>2. nxt' \in [Threads -> Word]
    <3>1. old[t].ptr \in Nodes
      BY <1>4 DEF CasNext, At, HoldInv, TypeOK, Holding, TailHolding
    <3> QED
      BY <1>4, <3>1 DEF CasNext, TypeOK
  <2>3. mine' \in [Threads -> Word] /\ next' \in [Nodes -> Word]
    <3>1. mine[t] \in Word /\ NULL \in Word
      BY DEF TypeOK, Word
    <3>2. mine' \in [Threads -> Word]
      BY <1>4, <3>1, ZenonT(40) DEF CasNext, TypeOK, Word
    <3>3. next' \in [Nodes -> Word]
      <4>1. CASE next' = [next EXCEPT ![old[t].ptr] = mine[t]]
        BY <3>1, <4>1 DEF TypeOK
      <4>2. CASE \E m \in Nodes : next' = [next EXCEPT ![old[t].ptr] = mine[t], ![m] = NULL]
        BY <3>1, <4>2 DEF TypeOK
      <4>3. CASE UNCHANGED next
        BY <4>3 DEF TypeOK
      <4> QED
        BY <1>4, <4>1, <4>2, <4>3 DEF CasNext
    <3> QED
      BY <3>2, <3>3
  <2>4. /\ live' \subseteq Nodes /\ tailLeft' \subseteq Nodes /\ headLeft' \subseteq Nodes
        /\ data' \in [Nodes -> Datum]
        /\ internal' \in [Nodes -> Int] /\ external' \in [Nodes -> 0 .. 2]
    <3>1. CASE \E m \in Nodes : NewNode(m)
      <4>1. PICK m \in Nodes : NewNode(m)
        BY <3>1
      <4>2. FreshData \subseteq Datum
        BY DEF Datum
      <4>3. data' \in [Nodes -> Datum]
        BY <4>1, <4>2 DEF NewNode, TypeOK
      <4>4. 0 \in Int /\ 2 \in 0 .. 2
        OBVIOUS
      <4> QED
        BY <4>1, <4>3, <4>4 DEF NewNode, TypeOK
    <3>2. CASE /\ UNCHANGED <<data, internal, external, tailLeft, headLeft>>
               /\ live' \subseteq live
      BY <3>2 DEF TypeOK
    <3> QED
      BY <1>4, <3>1, <3>2 DEF CasNext
  <2> QED
    BY <1>4, <2>1, <2>2, <2>3, <2>4 DEF CasNext, TypeOK, ptrs, calls
<1>5. CASE SetNewTail(t)
  <2>1. old[t].ptr \in Nodes /\ nxt[t] \in Nodes /\ data[old[t].ptr] \in Datum
    BY <1>5 DEF SetNewTail, At, HoldInv, TypeOK, Word, Holding, TailHolding
  <2>2. tail' \in [ptr : Nodes, cnt : 1 .. CountMax]
    BY <1>5, <2>1, BoundsAssumption DEF SetNewTail, Counted, TypeOK
  <2>3. old' \in [Threads -> [ptr : Word, cnt : 0 .. CountMax]]
    <3>1. tail \in [ptr : Word, cnt : 0 .. CountMax]
      BY DEF TypeOK, Word
    <3> QED
      BY <1>5, <3>1 DEF SetNewTail, TypeOK
  <2>4. enq' \in Seq(Datum)
    <3>1. enq \in Seq(Datum)
      BY DEF TypeOK
    <3>2. Append(enq, data[old[t].ptr]) \in Seq(Datum)
      BY <2>1, <3>1
    <3> QED
      BY <1>5, <3>1, <3>2 DEF SetNewTail
  <2>5. pc' \in [Threads -> Holding \cup {"idle", "inc_tail", "push_stat", "peek_head",
                                          "peek_tail", "inc_head", "pop_stat", "end"}]
    BY <1>5 DEF SetNewTail, Goto, TypeOK, Holding, TailHolding
  <2>6. tailLeft' \subseteq Nodes /\ nxt' \in [Threads -> Word]
    BY <1>5, <2>1 DEF SetNewTail, TypeOK, Word
  <2> QED
    BY <1>5, <2>2, <2>3, <2>4, <2>5, <2>6 DEF SetNewTail, TypeOK, mem, calls
<1>6. CASE PushReturn(t)
  <2>1. val[t] \in Datum
    BY DEF TypeOK
  <2>2. done' \subseteq Datum /\ size' \in Int
    BY <1>6, <2>1 DEF PushReturn, TypeOK
  <2> QED
    BY <1>6, <2>2, ReturnTyped DEF PushReturn, TypeOK, ptrs, mem, log
<1>7. CASE PopCall(t)
  <2>1. Len(enq) \in Nat
    BY DEF TypeOK
  <2>2. mark' \in [Threads -> Nat]
    BY <1>7, <2>1 DEF PopCall, TypeOK
  <2>3. nxt' \in [Threads -> Word] /\ pops' \in 0 .. MaxPop
    <3>1. head.ptr \in Word /\ tail.ptr \in Word
      BY DEF TypeOK, Word
    <3>2. nxt' \in [Threads -> Word]
      BY <1>7, <3>1 DEF PopCall, TypeOK
    <3>3. pops' \in 0 .. MaxPop
      BY <1>7, BoundsAssumption DEF PopCall, TypeOK
    <3> QED
      BY <3>2, <3>3
  <2>4. pc' \in [Threads -> Holding \cup {"idle", "inc_tail", "push_stat", "peek_head",
                                          "peek_tail", "inc_head", "pop_stat", "end"}]
    BY <1>7 DEF PopCall, Goto, TypeOK
  <2> QED
    BY <1>7, <2>2, <2>3, <2>4 DEF PopCall, TypeOK, ptrs, mem, log
<1>8. CASE PopTest(t)
  BY <1>8, ReturnTyped DEF PopTest, TypeOK, ptrs, mem, calls, log
<1>9. CASE PopEnter(t)
  BY <1>9, NodesAssumption, BoundsAssumption DEF TypeOK, Word, Datum, Values, FreshData,
       Holding, TailHolding, HeadHolding, HoldInv, ChainInv, PtrInv, PopEnter, Goto, mem, ptrs,
       calls, log
<1>10. CASE IncHead(t)
  BY <1>10, NodesAssumption, BoundsAssumption, SMTT(20) DEF TypeOK, Word, Datum, Values, FreshData,
       Holding, TailHolding, HeadHolding, HoldInv, ChainInv, PtrInv, IncHead, Counted, Goto,
       At, mem, calls, log
<1>11. CASE PopAtTail(t)
  BY <1>11, NodesAssumption, BoundsAssumption DEF TypeOK, Word, Datum, Values, FreshData,
       Holding, TailHolding, HeadHolding, HoldInv, ChainInv, PtrInv, PopAtTail, AtTail, Goto,
       At, mem, ptrs, local, calls, log
<1>12. CASE LoadNext(t)
  BY <1>12, NodesAssumption, BoundsAssumption DEF TypeOK, Word, Datum, Values, FreshData,
       Holding, TailHolding, HeadHolding, HoldInv, ChainInv, PtrInv, LoadNext, Goto, At, mem,
       ptrs, calls, log
<1>13. CASE CasHead(t)
  <2>1. /\ old[t].ptr \in Nodes
        /\ head = old[t] => nxt[t] \in Nodes
    BY <1>13 DEF CasHead, At, HoldInv, ChainInv, TypeOK, Word, Holding, HeadHolding
  <2>2. head' \in [ptr : Nodes, cnt : 1 .. CountMax]
    BY <1>13, <2>1, BoundsAssumption DEF CasHead, Counted, TypeOK
  <2>3. deq' \in Nat /\ mark' \in [Threads -> Nat]
    <3>1. deq \in Nat /\ deq + 1 \in Nat /\ mark \in [Threads -> Nat]
      BY DEF TypeOK
    <3>2. CASE mark' = mark /\ deq' = deq
      BY <3>1, <3>2
    <3>3. CASE /\ deq' = deq + 1
               /\ mark' = [u \in Threads |-> IF u = t THEN deq + 1
                             ELSE IF pc[u] \in Searching THEN 0 ELSE mark[u]]
      BY <3>1, <3>3
    <3> QED
      BY <1>13, <3>2, <3>3 DEF CasHead
  <2>4. pc' \in [Threads -> Holding \cup {"idle", "inc_tail", "push_stat", "peek_head",
                                          "peek_tail", "inc_head", "pop_stat", "end"}]
    BY <1>13 DEF CasHead, Goto, TypeOK, Holding, HeadHolding
  <2>5. headLeft' \subseteq Nodes /\ nxt' \in [Threads -> Word]
    BY <1>13, <2>1 DEF CasHead, TypeOK, Word
  <2> QED
    BY <1>13, <2>2, <2>3, <2>4, <2>5 DEF CasHead, TypeOK, mem, calls
<1>14. CASE Take(t)
  BY <1>14, NodesAssumption, BoundsAssumption DEF TypeOK, Word, Datum, Values, FreshData,
       Holding, TailHolding, HeadHolding, HoldInv, ChainInv, PtrInv, Take, Goto, At, ptrs,
       calls, log
<1>15. CASE PopReturn(t)
  BY <1>15, ReturnTyped, SMTT(20) DEF PopReturn, TypeOK, ptrs, mem, calls, log
<1>16. CASE FreeExternal(t)
  <2>1. PICK n : n = old[t].ptr
    OBVIOUS
  <2>2. n \in live /\ n \in Nodes /\ old[t].cnt \in Int /\ internal[n] \in Int
    BY <1>16, <2>1 DEF FreeExternal, HoldInv, TypeOK, Holding, TailHolding, HeadHolding
  <2>3. TailPending(n) \/ HeadPending(n)
    BY <1>16, <2>1 DEF FreeExternal, TailPending, HeadPending, TailFreers, HeadFreers
  <2>4. external[n] \in {1, 2}
    BY <2>2, <2>3, Balance
  <2>5. external[n] - 1 \in 0 .. 2
    BY <2>4
  <2>6. /\ internal' = [internal EXCEPT ![n] = @ + CountIncrease(t)]
        /\ external' = [external EXCEPT ![n] = external[n] - 1]
        /\ live' \subseteq live
    BY <1>16, <2>1 DEF FreeExternal, SetCount
  <2>7. internal' \in [Nodes -> Int] /\ external' \in [Nodes -> 0 .. 2] /\ live' \subseteq Nodes
    BY <2>2, <2>5, <2>6 DEF CountIncrease, TypeOK
  <2>8. pc' \in [Threads -> Holding \cup {"idle", "inc_tail", "push_stat", "peek_head",
                                          "peek_tail", "inc_head", "pop_stat", "end"}]
    BY <1>16 DEF FreeExternal, Goto, AfterCount, Again, TypeOK
  <2> QED
    BY <1>16, <2>7, <2>8 DEF FreeExternal, ptrs, local, calls, log, TypeOK
<1>17. CASE ReleaseRef(t)
  <2>1. PICK n : n = old[t].ptr
    OBVIOUS
  <2>2. n \in live /\ n \in Nodes /\ internal[n] \in Int /\ external[n] \in 0 .. 2
    BY <1>17, <2>1 DEF ReleaseRef, At, HoldInv, TypeOK, Holding, TailHolding, HeadHolding
  <2>3. /\ internal' = [internal EXCEPT ![n] = internal[n] - 1]
        /\ external' = [external EXCEPT ![n] = external[n]]
        /\ live' \subseteq live
    BY <1>17, <2>1 DEF ReleaseRef, SetCount
  <2>4. internal' \in [Nodes -> Int] /\ external' \in [Nodes -> 0 .. 2] /\ live' \subseteq Nodes
    BY <2>2, <2>3 DEF TypeOK
  <2>5. pc' \in [Threads -> Holding \cup {"idle", "inc_tail", "push_stat", "peek_head",
                                          "peek_tail", "inc_head", "pop_stat", "end"}]
    BY <1>17 DEF ReleaseRef, Goto, AfterCount, Again, TypeOK
  <2> QED
    BY <1>17, <2>4, <2>5 DEF ReleaseRef, ptrs, local, calls, log, TypeOK
<1>18. CASE ReleaseEmpty(t)
  <2>1. PICK n : n = old[t].ptr
    OBVIOUS
  <2>2. n \in live /\ n \in Nodes /\ internal[n] \in Int /\ external[n] \in 0 .. 2
    BY <1>18, <2>1 DEF ReleaseEmpty, At, HoldInv, TypeOK, Holding, TailHolding, HeadHolding
  <2>3. /\ internal' = [internal EXCEPT ![n] = internal[n] - 1]
        /\ external' = [external EXCEPT ![n] = external[n]]
        /\ live' \subseteq live
    BY <1>18, <2>1 DEF ReleaseEmpty, SetCount
  <2>4. internal' \in [Nodes -> Int] /\ external' \in [Nodes -> 0 .. 2] /\ live' \subseteq Nodes
    BY <2>2, <2>3 DEF TypeOK
  <2> QED
    BY <1>18, <2>4, ReturnTyped DEF ReleaseEmpty, ptrs, calls, log, TypeOK
<1> QED
  BY <1>1, <1>2, <1>3, <1>4, <1>5, <1>6, <1>7, <1>8, <1>9, <1>10, <1>11, <1>12, <1>13, <1>14,
       <1>15, <1>16, <1>17, <1>18 DEF Step

\* After the destructor nobody steps, and no call runs it.
LEMMA EndStep ==
  ASSUME TypeOK, NEW t \in Threads, Step(t)
  PROVE  /\ pc[t] # "end" /\ pc'[t] # "end"
         /\ \A u \in Threads : u # t => pc'[u] = pc[u]
<1>1. CASE PushCall(t)
  BY <1>1 DEF PushCall, Goto, At, TypeOK
<1>2. CASE IncTail(t)
  BY <1>2 DEF IncTail, Goto, At, TypeOK
<1>3. CASE CasData(t)
  BY <1>3 DEF CasData, Goto, At, TypeOK
<1>4. CASE CasNext(t)
  BY <1>4 DEF CasNext, Goto, At, TypeOK
<1>5. CASE SetNewTail(t)
  BY <1>5 DEF SetNewTail, Goto, At, TypeOK
<1>6. CASE PushReturn(t)
  BY <1>6 DEF PushReturn, Return, Goto, At, TypeOK
<1>7. CASE PopCall(t)
  BY <1>7 DEF PopCall, Goto, At, TypeOK
<1>8. CASE PopTest(t)
  BY <1>8 DEF PopTest, Return, Goto, TypeOK
<1>9. CASE PopEnter(t)
  BY <1>9 DEF PopEnter, Goto, TypeOK
<1>10. CASE IncHead(t)
  BY <1>10 DEF IncHead, Goto, At, TypeOK
<1>11. CASE PopAtTail(t)
  BY <1>11 DEF PopAtTail, AtTail, Goto, At, TypeOK
<1>12. CASE LoadNext(t)
  BY <1>12 DEF LoadNext, Goto, At, TypeOK
<1>13. CASE CasHead(t)
  BY <1>13 DEF CasHead, Goto, At, TypeOK
<1>14. CASE Take(t)
  BY <1>14 DEF Take, Goto, At, TypeOK
<1>15. CASE PopReturn(t)
  BY <1>15 DEF PopReturn, Return, Goto, At, TypeOK
<1>16. CASE FreeExternal(t)
  BY <1>16 DEF FreeExternal, Goto, AfterCount, Again, TypeOK
<1>17. CASE ReleaseRef(t)
  BY <1>17 DEF ReleaseRef, Goto, AfterCount, Again, TypeOK
<1>18. CASE ReleaseEmpty(t)
  BY <1>18 DEF ReleaseEmpty, Return, Goto, At, TypeOK
<1> QED
  BY <1>1, <1>2, <1>3, <1>4, <1>5, <1>6, <1>7, <1>8, <1>9, <1>10, <1>11, <1>12, <1>13, <1>14,
       <1>15, <1>16, <1>17, <1>18 DEF Step

-----------------------------------------------------------------------------
\* The parts of RefCountExact.
Refs == PtrInv /\ ChainInv /\ OwnInv /\ HoldInv /\ FreerInv /\ CountInv

\* The destructor ends every thread at once: nobody uses the queue after it.
EndInv == \A s, t \in Threads : pc[s] = "end" => pc[t] = "end"

\* The inductive invariant.
Inv == TypeOK /\ EndInv /\ RefCountExact /\ NoUseAfterFree

\* Every step of a call keeps all of them.
LEMMA RefsStep ==
  ASSUME TypeOK, Refs, NEW t \in Threads, Step(t)
  PROVE  Refs'
<1>1. PtrInv /\ ChainInv /\ OwnInv /\ HoldInv /\ FreerInv /\ CountInv
  BY DEF Refs
<1>2. PtrInv' /\ ChainInv'
  BY <1>1, PtrStep, ChainStep
<1>3. OwnInv' /\ HoldInv'
  BY <1>1, OwnStep, HoldStep
<1>4. FreerInv' /\ CountInv'
  BY <1>1, FreerStep, CountStep
<1> QED
  BY <1>2, <1>3, <1>4 DEF Refs

\* The constructor's node is counted by both pointers and held by nobody.
LEMMA InitInv == Init => Inv
<1> SUFFICES ASSUME Init
             PROVE  Inv
  OBVIOUS
<1>1. PICK n \in Nodes :
        /\ head = Counted(n, 1) /\ tail = Counted(n, 1) /\ live = {n}
        /\ \E d \in FreshData : data = [m \in Nodes |-> IF m = n THEN d ELSE NULL]
  BY DEF Init
<1>2. /\ next = [m \in Nodes |-> NULL] /\ internal = [m \in Nodes |-> 0]
      /\ external = [m \in Nodes |-> 2] /\ tailLeft = {} /\ headLeft = {}
      /\ pc = [t \in Threads |-> "idle"] /\ mine = [t \in Threads |-> NULL]
      /\ head.ptr = n /\ tail.ptr = n /\ head.cnt = 1 /\ tail.cnt = 1
  BY <1>1 DEF Init, Counted
<1>3. TypeOK
  <2>1. Counted(NULL, 0) \in [ptr : Word, cnt : 0 .. CountMax]
    BY BoundsAssumption DEF Counted, Word
  <2>2. old \in [Threads -> [ptr : Word, cnt : 0 .. CountMax]]
    BY <2>1 DEF Init
  <2>3. head \in [ptr : Nodes, cnt : 1 .. CountMax] /\ tail \in [ptr : Nodes, cnt : 1 .. CountMax]
    BY <1>1, BoundsAssumption DEF Counted
  <2>4. data \in [Nodes -> Datum]
    BY <1>1 DEF Datum, FreshData
  <2>5. enq \in Seq(Datum)
    BY DEF Init
  <2>6. /\ mine \in [Threads -> Word] /\ nxt \in [Threads -> Word] /\ val \in [Threads -> Datum]
        /\ next \in [Nodes -> Word]
    BY DEF Init, Word, Datum, FreshData
  <2> QED
    BY <1>1, <1>2, <2>2, <2>3, <2>4, <2>5, <2>6, BoundsAssumption DEF Init, TypeOK
<1>4. \A t \in Threads : pc[t] \notin Holding /\ pc[t] = "idle" /\ mine[t] = NULL
  BY <1>2 DEF Holding, TailHolding, HeadHolding
<1>5. PtrInv /\ ChainInv
  BY <1>1, <1>2 DEF PtrInv, ChainInv
<1>6. OwnInv /\ HoldInv /\ FreerInv
  BY <1>4 DEF OwnInv, HoldInv, FreerInv, Holding, TailHolding, HeadHolding
<1>7. CountInv
  <2>1. Holders(n) = {}
    BY <1>4 DEF Holders
  <2>2. TailFreers(n) = {} /\ HeadFreers(n) = {}
    BY <1>4 DEF TailFreers, HeadFreers
  <2>3. Cardinality(Holders(n)) = 0
    BY <2>1, FS_EmptySet
  <2>4. TailSurplus(n) = {0} /\ HeadSurplus(n) = {0}
    BY <1>2 DEF TailSurplus, HeadSurplus
  <2>5. TailPending(n) /\ HeadPending(n)
    BY <1>2 DEF TailPending, HeadPending
  <2>6. CountInv!(n)
    BY <1>1, <1>2, <2>3, <2>4, <2>5
  <2> QED
    BY <1>1, <2>6 DEF CountInv
<1>8. EndInv
  BY <1>4 DEF EndInv
<1>9. NoUseAfterFree
  BY <1>1, <1>2, <1>4 DEF NoUseAfterFree
<1> QED
  BY <1>3, <1>5, <1>6, <1>7, <1>8, <1>9 DEF Inv, RefCountExact

\* A step of a call, the destructor and stuttering keep the invariant.
LEMMA NextInv == Inv /\ [Next]_vars => Inv'
<1> SUFFICES ASSUME Inv, [Next]_vars
             PROVE  Inv'
  OBVIOUS
<1>1. CASE Destroy
  <2>1. TypeOK /\ NoUseAfterFree
    BY DEF Inv
  <2>2. \A t \in Threads : pc[t] = "idle" /\ pc'[t] = "end" /\ mine'[t] = mine[t]
    BY <1>1 DEF Destroy, At, local
  <2>3. TypeOK'
    BY <1>1, <2>1 DEF Destroy, TypeOK, ptrs, local, calls, log
  <2>4. RefCountExact' /\ EndInv'
    BY <2>2 DEF RefCountExact, EndInv
  <2>5. \A t \in Threads : mine[t] # NULL => mine[t] \in live'
    <3> SUFFICES ASSUME NEW t \in Threads, mine[t] # NULL
                 PROVE  mine[t] \in live'
      OBVIOUS
    <3>1. OwnInv
      BY <2>2 DEF Inv, RefCountExact
    <3> QED
      BY <1>1, <3>1 DEF Destroy, OwnInv
  <2>6. NoUseAfterFree'
    BY <2>2, <2>5 DEF NoUseAfterFree, Holding, TailHolding, HeadHolding
  <2> QED
    BY <2>3, <2>4, <2>6 DEF Inv
<1>2. ASSUME NEW t \in Threads, Step(t)
      PROVE  Inv'
  <2>1. TypeOK /\ EndInv
    BY DEF Inv
  <2>2. /\ pc[t] # "end" /\ pc'[t] # "end"
        /\ \A u \in Threads : u # t => pc'[u] = pc[u]
    BY <1>2, <2>1, EndStep
  <2>3. Refs
    BY <2>2 DEF Inv, RefCountExact, Refs
  <2>4. Refs' /\ TypeOK'
    BY <1>2, <2>1, <2>3, RefsStep, TypeStep DEF Refs
  <2>5. EndInv'
    BY <2>1, <2>2 DEF EndInv
  <2>6. PtrInv' /\ OwnInv' /\ HoldInv' /\ RefCountExact'
    BY <2>4 DEF Refs, RefCountExact
  <2>7. NoUseAfterFree'
    BY <2>6 DEF NoUseAfterFree, PtrInv, OwnInv, HoldInv
  <2> QED
    BY <2>4, <2>5, <2>6, <2>7 DEF Inv
<1>3. CASE UNCHANGED vars
  <2>1. UNCHANGED <<head, tail, live, data, next, internal, external, size, pc, old, mine, nxt,
                    val, stored, mark, pushes, pops, done, enq, deq, tailLeft, headLeft>>
    BY <1>3 DEF vars, ptrs, mem, local, calls, log
  <2>2. TypeOK' /\ EndInv' /\ NoUseAfterFree'
    BY <2>1 DEF Inv, TypeOK, EndInv, NoUseAfterFree
  <2>3. \A n : /\ Holders(n)' = Holders(n)
               /\ TailFreers(n)' = TailFreers(n) /\ HeadFreers(n)' = HeadFreers(n)
    BY <2>1 DEF Holders, TailFreers, HeadFreers
  <2>4. ASSUME \E t \in Threads : pc[t] # "end"
        PROVE  Refs'
    <3>1. Refs
      BY <2>4 DEF Inv, RefCountExact, Refs
    <3>2. PtrInv' /\ ChainInv' /\ HoldInv' /\ FreerInv'
      BY <2>1, <3>1 DEF Refs, PtrInv, ChainInv, HoldInv, FreerInv
    <3>3. OwnInv'
      BY <2>1, <2>3, <3>1 DEF Refs, OwnInv
    <3>4. CountInv'
      BY <2>1, <2>3, <3>1, SameStep DEF Refs, CountInv, SameCount
    <3> QED
      BY <3>2, <3>3, <3>4 DEF Refs
  <2>5. RefCountExact'
    BY <2>1, <2>4 DEF RefCountExact, Refs
  <2> QED
    BY <2>2, <2>5 DEF Inv
<1> QED
  BY <1>1, <1>2, <1>3 DEF Next

\* Every variable stays in range; that external_counters never goes below zero
\* and that both pointers always point to a node rests on the exact counts.
THEOREM Typing == Spec => []TypeOK
<1>1. Inv => TypeOK
  BY DEF Inv
<1> QED
  BY <1>1, InitInv, NextInv, PTL DEF Spec

\* Whatever the threads, their calls and the addresses the allocator reuses, a
\* node's two-part counter is exact and each thread's reference pins its node.
THEOREM CountsExact == Spec => []RefCountExact
<1>1. Inv => RefCountExact
  BY DEF Inv
<1> QED
  BY <1>1, InitInv, NextInv, PTL DEF Spec

\* push, pop and the destructor never touch a deleted node.
THEOREM MemorySafe == Spec => []NoUseAfterFree
<1>1. Inv => NoUseAfterFree
  BY DEF Inv
<1> QED
  BY <1>1, InitInv, NextInv, PTL DEF Spec

=============================================================================
