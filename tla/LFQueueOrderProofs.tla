------------------------- MODULE LFQueueOrderProofs -------------------------
(***************************************************************************)
(* Proofs about LFQueue, continued: first in first out, no value twice, no *)
(* node leaked, and what an empty pop means.                               *)
(*                                                                         *)
(* RefCountExact says who may touch a node.  The invariant here says where *)
(* each node is: on the list at a position of the history of values        *)
(* (Placed), linked ahead of the tail by a push on its way to move the     *)
(* tail (AheadInv), or some call's own (WhereInv).  With the number of     *)
(* nodes on the list (ListedInv) and what a pop has seen of the two ends   *)
(* (Seen) it is inductive while the queue exists (Flow); its destructor    *)
(* leaves no node.                                                         *)
(***************************************************************************)
EXTENDS LFQueueProofs

-----------------------------------------------------------------------------
(* Where every node and every value is                                      *)

\* Program counters of a push.
Pushing == {"inc_tail", "push_stat"} \cup TailHolding

\* Only a push has a node of its own, and only until it is linked or deleted.
MineInv ==
  \A t \in Threads : mine[t] # NULL =>
    \/ pc[t] \in {"inc_tail", "cas_data", "cas_next"}
    \/ pc[t] \in {"set_tail", "free_tail", "drop_tail"} /\ ~stored[t]

\* `stored` is set by the compare-exchange of this push and by nothing else.
StoredInv ==
  \A t \in Threads :
    stored[t] => pc[t] \in {"cas_next", "set_tail", "free_tail", "drop_tail", "push_stat"}

\* A push carries the number of its call.
ValInv ==
  \A t \in Threads : pc[t] \in Pushing => val[t] \in 1 .. pushes

\* A push that went past its data compare-exchange left the node non-empty,
\* so the tail never passes an empty node.
StoreInv ==
  \A t \in Threads :
    pc[t] \in {"cas_next", "set_tail"} /\ old[t].ptr \notin tailLeft => data[old[t].ptr] # NULL

\* Nothing but the tail's own node is linked ahead of the tail, and whoever
\* linked it is still about to move the tail.
AheadInv ==
  /\ \A n \in live : n \notin tailLeft /\ n # tail.ptr => next[n] = NULL
  /\ \A t \in Threads : pc[t] \in TailHolding => old[t].ptr \in tailLeft \/ old[t].ptr = tail.ptr
  /\ next[tail.ptr] # NULL => \E t \in Threads : pc[t] = "set_tail" /\ old[t].ptr = tail.ptr

\* Every allocated node is in the list, linked at its end or some push's own.
WhereInv ==
  \A n \in live :
    \/ n \in tailLeft
    \/ n = tail.ptr
    \/ n = next[tail.ptr]
    \/ \E t \in Threads : n = mine[t]

\* A node whose counters are both zero has been deleted.
ZeroInv == \A n \in live : internal[n] # 0 \/ external[n] # 0

\* The nodes from the head to the tail.
Listed == {n \in live : n \notin headLeft /\ (n \in tailLeft \/ n = tail.ptr)}

\* One node per value still queued, plus the dummy.
ListedInv == IsFiniteSet(Listed) /\ Cardinality(Listed) = Len(enq) - deq + 1

\* A pop that won the head still finds the datum the tail passed, until it
\* takes it; then it has it.
TakenInv ==
  \A t \in Threads :
    /\ pc[t] \in {"take", "free_head", "pop_stat"} => mark[t] \in 1 .. Len(enq)
    /\ pc[t] = "take" => data[old[t].ptr] = enq[mark[t]] /\ data[old[t].ptr] # NULL
    /\ pc[t] \in {"free_head", "pop_stat"} => val[t] = enq[mark[t]]

\* The nodes of the list stand in the order in which the tail came to them: at[n]
\* is one more than the number of nodes the tail had passed by then.
Placed(at) ==
  /\ at[head.ptr] = deq + 1
  /\ at[tail.ptr] = Len(enq) + 1
  /\ \A n \in live : n \in tailLeft /\ n \notin headLeft =>
       /\ at[n] \in 1 .. Len(enq)
       /\ at[next[n]] = at[n] + 1
       /\ data[n] = enq[at[n]]
       /\ data[n] # NULL

\* What a pop with no other pop's success since its call knows of the ends.
Seen(at) ==
  \A t \in Threads : mark[t] # 0 =>
    /\ pc[t] \in Searching => mark[t] <= Len(enq)
    /\ pc[t] = "peek_head" => nxt[t] = head.ptr
    /\ pc[t] = "peek_tail" =>
         /\ nxt[t] \in live \ headLeft
         /\ nxt[t] \in tailLeft \/ nxt[t] = tail.ptr
         /\ at[nxt[t]] = mark[t] + 1
    /\ pc[t] = "chk_tail" => old[t].ptr = head.ptr
    /\ pc[t] = "drop_empty" => mark[t] <= deq

\* A push that has not stored its value anywhere yet.
Carrying(t) == pc[t] \in {"inc_tail"} \cup TailHolding /\ ~stored[t]

\* Each value is in at most one place: with its push, in a node the tail has
\* not passed, or at one position of the history.
OnceInv ==
  /\ \A t \in Threads, s \in Threads :
       Carrying(s) /\ Carrying(t) /\ val[s] = val[t] => s = t
  /\ \A n \in live \ tailLeft : data[n] \in Values =>
       /\ data[n] <= pushes
       /\ \A t \in Threads : Carrying(t) => val[t] # data[n]
       /\ \A m \in live \ tailLeft : data[m] = data[n] => m = n
       /\ \A i \in 1 .. Len(enq) : enq[i] # data[n]
  /\ \A i \in 1 .. Len(enq) : enq[i] \in Values =>
       /\ enq[i] <= pushes
       /\ \A t \in Threads : Carrying(t) => val[t] # enq[i]
       /\ \A j \in 1 .. Len(enq) : enq[j] = enq[i] => j = i

-----------------------------------------------------------------------------
\* From where to where each action takes its thread.
LEMMA Moves ==
  ASSUME TypeOK, NEW t \in Threads
  PROVE  /\ PushCall(t) => pc[t] = "idle" /\ pc'[t] = "inc_tail"
         /\ IncTail(t) => pc[t] = "inc_tail" /\ pc'[t] = "cas_data"
         /\ CasData(t) => pc[t] = "cas_data" /\ pc'[t] = "cas_next"
         /\ CasNext(t) => pc[t] = "cas_next" /\ pc'[t] = "set_tail"
         /\ SetNewTail(t) => pc[t] = "set_tail" /\ pc'[t] \in {"free_tail", "drop_tail"}
         /\ PushReturn(t) => pc[t] = "push_stat" /\ pc'[t] = "idle"
         /\ PopCall(t) => pc[t] = "idle" /\ pc'[t] \in {"peek_head", "peek_tail"}
         /\ PopTest(t) => pc[t] \in {"peek_head", "peek_tail"} /\ pc'[t] = "idle"
         /\ PopEnter(t) => pc[t] \in {"peek_head", "peek_tail"} /\ pc'[t] = "inc_head"
         /\ IncHead(t) => pc[t] = "inc_head" /\ pc'[t] = "chk_tail"
         /\ PopAtTail(t) => pc[t] = "chk_tail" /\ pc'[t] \in {"drop_empty", "load_next"}
         /\ LoadNext(t) => pc[t] = "load_next" /\ pc'[t] = "cas_head"
         /\ CasHead(t) => pc[t] = "cas_head" /\ pc'[t] \in {"take", "drop_head"}
         /\ Take(t) => pc[t] = "take" /\ pc'[t] = "free_head"
         /\ PopReturn(t) => pc[t] = "pop_stat" /\ pc'[t] = "idle"
         /\ FreeExternal(t) => pc[t] \in {"free_tail", "free_head"} /\ pc'[t] \in {"push_stat",
              "inc_tail", "pop_stat"}
         /\ ReleaseRef(t) => pc[t] \in {"drop_tail", "drop_head"} /\ pc'[t] \in {"push_stat",
              "inc_tail", "inc_head"}
         /\ ReleaseEmpty(t) => pc[t] = "drop_empty" /\ pc'[t] = "idle"
<1>1. PushCall(t) => pc[t] = "idle" /\ pc'[t] = "inc_tail"
  BY DEF PushCall, Goto, TypeOK, At
<1>2. IncTail(t) => pc[t] = "inc_tail" /\ pc'[t] = "cas_data"
  BY DEF IncTail, Goto, TypeOK, At
<1>3. CasData(t) => pc[t] = "cas_data" /\ pc'[t] = "cas_next"
  BY DEF CasData, Goto, TypeOK, At
<1>4. CasNext(t) => pc[t] = "cas_next" /\ pc'[t] = "set_tail"
  BY DEF CasNext, Goto, TypeOK, At
<1>5. SetNewTail(t) => pc[t] = "set_tail" /\ pc'[t] \in {"free_tail", "drop_tail"}
  BY DEF SetNewTail, Goto, TypeOK, At
<1>6. PushReturn(t) => pc[t] = "push_stat" /\ pc'[t] = "idle"
  BY DEF PushReturn, Goto, TypeOK, At, Return
<1>7. PopCall(t) => pc[t] = "idle" /\ pc'[t] \in {"peek_head", "peek_tail"}
  BY DEF PopCall, Goto, TypeOK, At
<1>8. PopTest(t) => pc[t] \in {"peek_head", "peek_tail"} /\ pc'[t] = "idle"
  BY DEF PopTest, Goto, TypeOK, Return
<1>9. PopEnter(t) => pc[t] \in {"peek_head", "peek_tail"} /\ pc'[t] = "inc_head"
  BY DEF PopEnter, Goto, TypeOK
<1>10. IncHead(t) => pc[t] = "inc_head" /\ pc'[t] = "chk_tail"
  BY DEF IncHead, Goto, TypeOK, At
<1>11. PopAtTail(t) => pc[t] = "chk_tail" /\ pc'[t] \in {"drop_empty", "load_next"}
  BY DEF PopAtTail, Goto, TypeOK, At
<1>12. LoadNext(t) => pc[t] = "load_next" /\ pc'[t] = "cas_head"
  BY DEF LoadNext, Goto, TypeOK, At
<1>13. CasHead(t) => pc[t] = "cas_head" /\ pc'[t] \in {"take", "drop_head"}
  BY DEF CasHead, Goto, TypeOK, At
<1>14. Take(t) => pc[t] = "take" /\ pc'[t] = "free_head"
  BY DEF Take, Goto, TypeOK, At
<1>15. PopReturn(t) => pc[t] = "pop_stat" /\ pc'[t] = "idle"
  BY DEF PopReturn, Goto, TypeOK, At, Return
<1>16. FreeExternal(t) => pc[t] \in {"free_tail", "free_head"} /\ pc'[t] \in {"push_stat",
     "inc_tail", "pop_stat"}
  BY DEF FreeExternal, Goto, TypeOK, AfterCount, Again
<1>17. ReleaseRef(t) => pc[t] \in {"drop_tail", "drop_head"} /\ pc'[t] \in {"push_stat",
     "inc_tail", "inc_head"}
  BY DEF ReleaseRef, Goto, TypeOK, AfterCount, Again
<1>18. ReleaseEmpty(t) => pc[t] = "drop_empty" /\ pc'[t] = "idle"
  BY DEF ReleaseEmpty, Goto, TypeOK, At, Return
<1> QED
  BY <1>1, <1>2, <1>3, <1>4, <1>5, <1>6, <1>7, <1>8, <1>9, <1>10, <1>11, <1>12, <1>13, <1>14,
       <1>15, <1>16, <1>17, <1>18

\* The steps of push, pop and the destructor keep MineInv.
LEMMA MineStep ==
  ASSUME TypeOK, OwnInv, MineInv, StoredInv, NEW t \in Threads, Step(t)
  PROVE  MineInv'
<1>1. CASE PushCall(t)
  BY <1>1 DEF PushCall, NewNode, Goto, At, ptrs, TypeOK, MineInv, StoredInv
<1>2. CASE IncTail(t)
  BY <1>2 DEF IncTail, Counted, Goto, At, mem, calls, log, TypeOK, MineInv, StoredInv
<1>3. CASE CasData(t)
  BY <1>3 DEF CasData, Vacant, Goto, At, ptrs, calls, log, TypeOK, MineInv, StoredInv
<1>4. CASE CasNext(t)
  BY <1>4 DEF CasNext, NewNode, Spare, Goto, At, ptrs, calls, TypeOK, MineInv, StoredInv
<1>5. CASE SetNewTail(t)
  BY <1>5 DEF SetNewTail, Counted, Goto, At, mem, calls, TypeOK, MineInv, StoredInv
<1>6. CASE PushReturn(t)
  BY <1>6 DEF PushReturn, Return, Goto, At, ptrs, mem, log, TypeOK, MineInv, StoredInv
<1>7. CASE PopCall(t)
  BY <1>7 DEF PopCall, Goto, At, ptrs, mem, log, TypeOK, MineInv, StoredInv
<1>8. CASE PopTest(t)
  BY <1>8 DEF PopTest, Return, Goto, ptrs, mem, calls, log, TypeOK, MineInv, StoredInv
<1>9. CASE PopEnter(t)
  BY <1>9 DEF PopEnter, Goto, ptrs, mem, calls, log, TypeOK, MineInv, StoredInv
<1>10. CASE IncHead(t)
  BY <1>10 DEF IncHead, Counted, Goto, At, mem, calls, log, TypeOK, MineInv, StoredInv
<1>11. CASE PopAtTail(t)
  BY <1>11 DEF PopAtTail, AtTail, Goto, At, ptrs, mem, local, calls, log, TypeOK, MineInv,
       StoredInv
<1>12. CASE LoadNext(t)
  BY <1>12 DEF LoadNext, Goto, At, ptrs, mem, calls, log, TypeOK, MineInv, StoredInv
<1>13. CASE CasHead(t)
  BY <1>13 DEF CasHead, Counted, Goto, At, mem, calls, TypeOK, MineInv, StoredInv
<1>14. CASE Take(t)
  BY <1>14 DEF Take, Goto, At, ptrs, calls, log, TypeOK, MineInv, StoredInv
<1>15. CASE PopReturn(t)
  BY <1>15 DEF PopReturn, Return, Goto, At, ptrs, mem, calls, log, TypeOK, MineInv, StoredInv
<1>16. CASE FreeExternal(t)
  BY <1>16 DEF FreeExternal, SetCount, Goto, AfterCount, Again, ptrs, local, calls, log,
       TypeOK, MineInv, StoredInv
<1>17. CASE ReleaseRef(t)
  BY <1>17 DEF ReleaseRef, SetCount, Goto, AfterCount, Again, ptrs, local, calls, log, TypeOK,
       MineInv, StoredInv
<1>18. CASE ReleaseEmpty(t)
  BY <1>18 DEF ReleaseEmpty, SetCount, Return, Goto, At, ptrs, calls, log, TypeOK, MineInv,
       StoredInv
<1> QED
  BY <1>1, <1>2, <1>3, <1>4, <1>5, <1>6, <1>7, <1>8, <1>9, <1>10, <1>11, <1>12, <1>13, <1>14,
       <1>15, <1>16, <1>17, <1>18 DEF Step


\* Every step keeps StoredInv.
LEMMA StoredStep ==
  ASSUME TypeOK, StoredInv, NEW t \in Threads, Step(t)
  PROVE  StoredInv'
<1>1. CASE PushCall(t)
  BY <1>1 DEF PushCall, NewNode, Goto, At, ptrs, TypeOK, StoredInv
<1>2. CASE IncTail(t)
  BY <1>2 DEF IncTail, Counted, Goto, At, mem, calls, log, TypeOK, StoredInv
<1>3. CASE CasData(t)
  BY <1>3 DEF CasData, Vacant, Goto, At, ptrs, calls, log, TypeOK, StoredInv
<1>4. CASE CasNext(t)
  BY <1>4 DEF CasNext, NewNode, Spare, Goto, At, ptrs, calls, TypeOK, StoredInv
<1>5. CASE SetNewTail(t)
  BY <1>5 DEF SetNewTail, Counted, Goto, At, mem, calls, TypeOK, StoredInv
<1>6. CASE PushReturn(t)
  BY <1>6 DEF PushReturn, Return, Goto, At, ptrs, mem, log, TypeOK, StoredInv
<1>7. CASE PopCall(t)
  BY <1>7 DEF PopCall, Goto, At, ptrs, mem, log, TypeOK, StoredInv
<1>8. CASE PopTest(t)
  BY <1>8 DEF PopTest, Return, Goto, ptrs, mem, calls, log, TypeOK, StoredInv
<1>9. CASE PopEnter(t)
  BY <1>9 DEF PopEnter, Goto, ptrs, mem, calls, log, TypeOK, StoredInv
<1>10. CASE IncHead(t)
  BY <1>10 DEF IncHead, Counted, Goto, At, mem, calls, log, TypeOK, StoredInv
<1>11. CASE PopAtTail(t)
  BY <1>11 DEF PopAtTail, AtTail, Goto, At, ptrs, mem, local, calls, log, TypeOK, StoredInv
<1>12. CASE LoadNext(t)
  BY <1>12 DEF LoadNext, Goto, At, ptrs, mem, calls, log, TypeOK, StoredInv
<1>13. CASE CasHead(t)
  BY <1>13 DEF CasHead, Counted, Goto, At, mem, calls, TypeOK, StoredInv
<1>14. CASE Take(t)
  BY <1>14 DEF Take, Goto, At, ptrs, calls, log, TypeOK, StoredInv
<1>15. CASE PopReturn(t)
  BY <1>15 DEF PopReturn, Return, Goto, At, ptrs, mem, calls, log, TypeOK, StoredInv
<1>16. CASE FreeExternal(t)
  BY <1>16 DEF FreeExternal, SetCount, Goto, AfterCount, Again, ptrs, local, calls, log,
       TypeOK, StoredInv
<1>17. CASE ReleaseRef(t)
  BY <1>17 DEF ReleaseRef, SetCount, Goto, AfterCount, Again, ptrs, local, calls, log, TypeOK,
       StoredInv
<1>18. CASE ReleaseEmpty(t)
  BY <1>18 DEF ReleaseEmpty, SetCount, Return, Goto, At, ptrs, calls, log, TypeOK, StoredInv
<1> QED
  BY <1>1, <1>2, <1>3, <1>4, <1>5, <1>6, <1>7, <1>8, <1>9, <1>10, <1>11, <1>12, <1>13, <1>14,
       <1>15, <1>16, <1>17, <1>18 DEF Step


\* Every step keeps ValInv.
LEMMA ValStep ==
  ASSUME TypeOK, ValInv, NEW t \in Threads, Step(t)
  PROVE  ValInv'
<1>1. CASE PushCall(t)
  BY <1>1 DEF PushCall, NewNode, Goto, At, ptrs, TypeOK, ValInv, Pushing, TailHolding
<1>2. CASE IncTail(t)
  BY <1>2 DEF IncTail, Counted, Goto, At, mem, calls, log, TypeOK, ValInv, Pushing, TailHolding
<1>3. CASE CasData(t)
  BY <1>3 DEF CasData, Vacant, Goto, At, ptrs, calls, log, TypeOK, ValInv, Pushing, TailHolding
<1>4. CASE CasNext(t)
  BY <1>4 DEF CasNext, NewNode, Spare, Goto, At, ptrs, calls, TypeOK, ValInv, Pushing, TailHolding
<1>5. CASE SetNewTail(t)
  BY <1>5 DEF SetNewTail, Counted, Goto, At, mem, calls, TypeOK, ValInv, Pushing, TailHolding
<1>6. CASE PushReturn(t)
  BY <1>6 DEF PushReturn, Return, Goto, At, ptrs, mem, log, TypeOK, ValInv, Pushing, TailHolding
<1>7. CASE PopCall(t)
  BY <1>7 DEF PopCall, Goto, At, ptrs, mem, log, TypeOK, ValInv, Pushing, TailHolding
<1>8. CASE PopTest(t)
  BY <1>8 DEF PopTest, Return, Goto, ptrs, mem, calls, log, TypeOK, ValInv, Pushing, TailHolding
<1>9. CASE PopEnter(t)
  BY <1>9 DEF PopEnter, Goto, ptrs, mem, calls, log, TypeOK, ValInv, Pushing, TailHolding
<1>10. CASE IncHead(t)
  BY <1>10 DEF IncHead, Counted, Goto, At, mem, calls, log, TypeOK, ValInv, Pushing, TailHolding
<1>11. CASE PopAtTail(t)
  BY <1>11 DEF PopAtTail, AtTail, Goto, At, ptrs, mem, local, calls, log, TypeOK, ValInv,
       Pushing, TailHolding
<1>12. CASE LoadNext(t)
  BY <1>12 DEF LoadNext, Goto, At, ptrs, mem, calls, log, TypeOK, ValInv, Pushing, TailHolding
<1>13. CASE CasHead(t)
  BY <1>13 DEF CasHead, Counted, Goto, At, mem, calls, TypeOK, ValInv, Pushing, TailHolding
<1>14. CASE Take(t)
  BY <1>14 DEF Take, Goto, At, ptrs, calls, log, TypeOK, ValInv, Pushing, TailHolding
<1>15. CASE PopReturn(t)
  BY <1>15 DEF PopReturn, Return, Goto, At, ptrs, mem, calls, log, TypeOK, ValInv, Pushing,
       TailHolding
<1>16. CASE FreeExternal(t)
  BY <1>16 DEF FreeExternal, SetCount, Goto, AfterCount, Again, ptrs, local, calls, log,
       TypeOK, ValInv, Pushing, TailHolding
<1>17. CASE ReleaseRef(t)
  BY <1>17 DEF ReleaseRef, SetCount, Goto, AfterCount, Again, ptrs, local, calls, log, TypeOK,
       ValInv, Pushing, TailHolding
<1>18. CASE ReleaseEmpty(t)
  BY <1>18 DEF ReleaseEmpty, SetCount, Return, Goto, At, ptrs, calls, log, TypeOK, ValInv,
       Pushing, TailHolding
<1> QED
  BY <1>1, <1>2, <1>3, <1>4, <1>5, <1>6, <1>7, <1>8, <1>9, <1>10, <1>11, <1>12, <1>13, <1>14,
       <1>15, <1>16, <1>17, <1>18 DEF Step


\* Every step keeps StoreInv.
LEMMA StoreStep ==
  ASSUME NULL \notin Values, TypeOK, PtrInv, OwnInv, HoldInv, FreerInv, ValInv, StoreInv,
       NEW t \in Threads, Step(t)
  PROVE  StoreInv'
<1>1. CASE PushCall(t)
  <2>1. PICK n \in Nodes \ live : NewNode(n)
    BY <1>1 DEF PushCall, NewNode
  <2>2. \A k \in live : data'[k] = data[k] /\ (k \in tailLeft' <=> k \in tailLeft)
    BY <2>1 DEF NewNode, TypeOK
  <2>3. \A u \in Threads : pc'[u] \in {"cas_next", "set_tail"} =>
          pc'[u] = pc[u] /\ old'[u] = old[u] /\ old[u].ptr \in live
    BY <1>1 DEF PushCall, Goto, At, TypeOK, HoldInv, Holding, TailHolding
  <2> QED
    BY <2>2, <2>3 DEF StoreInv
<1>2. CASE IncTail(t)
  BY <1>2, NodesAssumption DEF IncTail, Counted, Goto, At, mem, calls, log, TypeOK, PtrInv,
       HoldInv, FreerInv, StoreInv, Holding, TailHolding, ValInv, Pushing, Values
<1>3. CASE CasData(t)
  <2>0. pc[t] = "cas_data" /\ tailLeft' = tailLeft /\ old' = old
    BY <1>3 DEF CasData, At, log
  <2>1. old[t].ptr \in Nodes /\ val[t] # NULL
    <3>1. old[t].ptr \in live /\ live \subseteq Nodes
      BY <2>0 DEF TypeOK, HoldInv, Holding, TailHolding
    <3>2. val[t] \in 1 .. pushes /\ pushes \in 0 .. MaxPush
      BY <2>0 DEF TypeOK, ValInv, Pushing, TailHolding
    <3>3. val[t] \in Values
      BY <3>2, BoundsAssumption DEF Values
    <3> QED
      BY <3>1, <3>3
  <2>2. data'[old[t].ptr] # NULL /\ \A k \in live : data[k] # NULL => data'[k] # NULL
    BY <1>3, <2>0, <2>1 DEF CasData, Vacant, TypeOK
  <2>3. \A u \in Threads : u # t /\ pc'[u] \in {"cas_next", "set_tail"} =>
          pc'[u] = pc[u] /\ old[u].ptr \in live
    BY <1>3 DEF CasData, Goto, At, TypeOK, HoldInv, Holding, TailHolding
  <2> QED
    BY <2>0, <2>1, <2>2, <2>3 DEF StoreInv
<1>4. CASE CasNext(t)
  <2>1. /\ pc[t] = "cas_next" /\ old' = old
        /\ \A u \in Threads : pc'[u] \in {"cas_next", "set_tail"} =>
             pc[u] \in {"cas_next", "set_tail"} /\ old[u].ptr \in live
    BY <1>4 DEF CasNext, Goto, At, TypeOK, HoldInv, Holding, TailHolding
  <2>2. \A k \in live : data'[k] = data[k] /\ (k \in tailLeft' <=> k \in tailLeft)
    BY <1>4 DEF CasNext, NewNode, TypeOK
  <2> QED
    BY <2>1, <2>2 DEF StoreInv
<1>5. CASE SetNewTail(t)
  <2>1. data' = data /\ tailLeft \subseteq tailLeft'
    BY <1>5 DEF SetNewTail, mem
  <2>2. \A u \in Threads : pc'[u] \in {"cas_next",
       "set_tail"} => pc'[u] = pc[u] /\ old'[u] = old[u]
    BY <1>5 DEF SetNewTail, Goto, TypeOK
  <2> QED
    BY <2>1, <2>2 DEF StoreInv
<1>6. CASE PushReturn(t)
  BY <1>6, NodesAssumption DEF PushReturn, Return, Goto, At, ptrs, mem, log, TypeOK, PtrInv,
       HoldInv, FreerInv, StoreInv, Holding, TailHolding, ValInv, Pushing, Values
<1>7. CASE PopCall(t)
  BY <1>7, NodesAssumption DEF PopCall, Goto, At, ptrs, mem, log, TypeOK, PtrInv, HoldInv,
       FreerInv, StoreInv, Holding, TailHolding, ValInv, Pushing, Values
<1>8. CASE PopTest(t)
  BY <1>8, NodesAssumption DEF PopTest, Return, Goto, ptrs, mem, calls, log, TypeOK, PtrInv,
       HoldInv, FreerInv, StoreInv, Holding, TailHolding, ValInv, Pushing, Values
<1>9. CASE PopEnter(t)
  BY <1>9, NodesAssumption DEF PopEnter, Goto, ptrs, mem, calls, log, TypeOK, PtrInv, HoldInv,
       FreerInv, StoreInv, Holding, TailHolding, ValInv, Pushing, Values
<1>10. CASE IncHead(t)
  BY <1>10, NodesAssumption DEF IncHead, Counted, Goto, At, mem, calls, log, TypeOK, PtrInv,
       HoldInv, FreerInv, StoreInv, Holding, TailHolding, ValInv, Pushing, Values
<1>11. CASE PopAtTail(t)
  BY <1>11, NodesAssumption DEF PopAtTail, AtTail, Goto, At, ptrs, mem, local, calls, log,
       TypeOK, PtrInv, HoldInv, FreerInv, StoreInv, Holding, TailHolding, ValInv, Pushing, Values
<1>12. CASE LoadNext(t)
  BY <1>12, NodesAssumption DEF LoadNext, Goto, At, ptrs, mem, calls, log, TypeOK, PtrInv,
       HoldInv, FreerInv, StoreInv, Holding, TailHolding, ValInv, Pushing, Values
<1>13. CASE CasHead(t)
  <2>1. data' = data /\ tailLeft' = tailLeft /\ old' = old
    BY <1>13 DEF CasHead, mem
  <2>2. \A u \in Threads : pc'[u] \in {"cas_next", "set_tail"} => pc'[u] = pc[u]
    BY <1>13 DEF CasHead, Goto, TypeOK
  <2> QED
    BY <2>1, <2>2 DEF StoreInv
<1>14. CASE Take(t)
  BY <1>14, NodesAssumption DEF Take, Goto, At, ptrs, calls, log, TypeOK, PtrInv, HoldInv,
       FreerInv, StoreInv, Holding, TailHolding, ValInv, Pushing, Values
<1>15. CASE PopReturn(t)
  BY <1>15, NodesAssumption DEF PopReturn, Return, Goto, At, ptrs, mem, calls, log, TypeOK,
       PtrInv, HoldInv, FreerInv, StoreInv, Holding, TailHolding, ValInv, Pushing, Values
<1>16. CASE FreeExternal(t)
  BY <1>16, NodesAssumption DEF FreeExternal, SetCount, Goto, AfterCount, Again, ptrs, local,
       calls, log, TypeOK, PtrInv, HoldInv, FreerInv, StoreInv, Holding, TailHolding, ValInv,
       Pushing, Values
<1>17. CASE ReleaseRef(t)
  BY <1>17, NodesAssumption DEF ReleaseRef, SetCount, Goto, AfterCount, Again, ptrs, local,
       calls, log, TypeOK, PtrInv, HoldInv, FreerInv, StoreInv, Holding, TailHolding, ValInv,
       Pushing, Values
<1>18. CASE ReleaseEmpty(t)
  BY <1>18, NodesAssumption DEF ReleaseEmpty, SetCount, Return, Goto, At, ptrs, calls, log,
       TypeOK, PtrInv, HoldInv, FreerInv, StoreInv, Holding, TailHolding, ValInv, Pushing, Values
<1> QED
  BY <1>1, <1>2, <1>3, <1>4, <1>5, <1>6, <1>7, <1>8, <1>9, <1>10, <1>11, <1>12, <1>13, <1>14,
       <1>15, <1>16, <1>17, <1>18 DEF Step


\* Every step keeps ZeroInv.
LEMMA ZeroStep ==
  ASSUME TypeOK, ZeroInv, NEW t \in Threads, Step(t)
  PROVE  ZeroInv'
<1>1. CASE PushCall(t)
  BY <1>1 DEF PushCall, NewNode, Goto, At, ptrs, TypeOK, ZeroInv
<1>2. CASE IncTail(t)
  BY <1>2 DEF IncTail, Counted, Goto, At, mem, calls, log, TypeOK, ZeroInv
<1>3. CASE CasData(t)
  BY <1>3 DEF CasData, Vacant, Goto, At, ptrs, calls, log, TypeOK, ZeroInv
<1>4. CASE CasNext(t)
  <2>1. \A k \in live' : k \in live => internal'[k] = internal[k] /\ external'[k] = external[k]
    BY <1>4 DEF CasNext, NewNode, TypeOK
  <2>2. \A k \in live' \ live : external'[k] = 2
    BY <1>4 DEF CasNext, NewNode, TypeOK
  <2> QED
    BY <2>1, <2>2 DEF ZeroInv
<1>5. CASE SetNewTail(t)
  BY <1>5 DEF SetNewTail, Counted, Goto, At, mem, calls, TypeOK, ZeroInv
<1>6. CASE PushReturn(t)
  BY <1>6 DEF PushReturn, Return, Goto, At, ptrs, mem, log, TypeOK, ZeroInv
<1>7. CASE PopCall(t)
  BY <1>7 DEF PopCall, Goto, At, ptrs, mem, log, TypeOK, ZeroInv
<1>8. CASE PopTest(t)
  BY <1>8 DEF PopTest, Return, Goto, ptrs, mem, calls, log, TypeOK, ZeroInv
<1>9. CASE PopEnter(t)
  BY <1>9 DEF PopEnter, Goto, ptrs, mem, calls, log, TypeOK, ZeroInv
<1>10. CASE IncHead(t)
  BY <1>10 DEF IncHead, Counted, Goto, At, mem, calls, log, TypeOK, ZeroInv
<1>11. CASE PopAtTail(t)
  BY <1>11 DEF PopAtTail, AtTail, Goto, At, ptrs, mem, local, calls, log, TypeOK, ZeroInv
<1>12. CASE LoadNext(t)
  BY <1>12 DEF LoadNext, Goto, At, ptrs, mem, calls, log, TypeOK, ZeroInv
<1>13. CASE CasHead(t)
  BY <1>13 DEF CasHead, Counted, Goto, At, mem, calls, TypeOK, ZeroInv
<1>14. CASE Take(t)
  BY <1>14 DEF Take, Goto, At, ptrs, calls, log, TypeOK, ZeroInv
<1>15. CASE PopReturn(t)
  BY <1>15 DEF PopReturn, Return, Goto, At, ptrs, mem, calls, log, TypeOK, ZeroInv
<1>16. CASE FreeExternal(t)
  BY <1>16 DEF FreeExternal, SetCount, Goto, AfterCount, Again, ptrs, local, calls, log,
       TypeOK, ZeroInv
<1>17. CASE ReleaseRef(t)
  BY <1>17 DEF ReleaseRef, SetCount, Goto, AfterCount, Again, ptrs, local, calls, log, TypeOK,
       ZeroInv
<1>18. CASE ReleaseEmpty(t)
  BY <1>18 DEF ReleaseEmpty, SetCount, Return, Goto, At, ptrs, calls, log, TypeOK, ZeroInv
<1> QED
  BY <1>1, <1>2, <1>3, <1>4, <1>5, <1>6, <1>7, <1>8, <1>9, <1>10, <1>11, <1>12, <1>13, <1>14,
       <1>15, <1>16, <1>17, <1>18 DEF Step


-----------------------------------------------------------------------------
\* What a step that moves neither pointer to another node and links nothing
\* does to the list.
Still ==
  /\ head'.ptr = head.ptr /\ tail'.ptr = tail.ptr
  /\ UNCHANGED <<next, enq, deq, tailLeft, headLeft>>
  /\ live' \subseteq live
  /\ \A n \in live \ live' : n \in headLeft /\ n \in tailLeft

\* What a push that allocates m does to it.
Allocates(m) ==
  /\ m \in Nodes \ live
  /\ UNCHANGED <<head, tail, enq, deq>>
  /\ live' = live \cup {m}
  /\ tailLeft' = tailLeft \ {m} /\ headLeft' = headLeft \ {m}
  /\ next'[m] = NULL /\ data'[m] \in FreshData
  /\ \A k \in live : data'[k] = data[k]

\* What a compare-exchange that links m behind n, the tail's node, does.
Links(n, m) ==
  /\ n \in live /\ n = tail.ptr /\ next[n] = NULL
  /\ m \in live \ (headLeft \cup tailLeft) /\ m # head.ptr /\ m # n
  /\ next'[n] = m
  /\ \A k \in live : k # n => next'[k] = next[k]

\* Every step but those of four kinds leaves the list as it is.
LEMMA StillStep ==
  ASSUME TypeOK, Refs, NEW t \in Threads, Step(t),
         ~PushCall(t), ~CasNext(t), ~SetNewTail(t), ~CasHead(t)
  PROVE  Still
<1>1. CASE PushCall(t)
  BY <1>1
<1>2. CASE IncTail(t)
  BY <1>2 DEF IncTail, Counted, Goto, At, mem, calls, log, TypeOK, Still
<1>3. CASE CasData(t)
  BY <1>3 DEF CasData, Vacant, Goto, At, ptrs, calls, log, TypeOK, Still
<1>4. CASE CasNext(t)
  BY <1>4
<1>5. CASE SetNewTail(t)
  BY <1>5
<1>6. CASE PushReturn(t)
  BY <1>6 DEF PushReturn, Return, Goto, At, ptrs, mem, log, TypeOK, Still
<1>7. CASE PopCall(t)
  BY <1>7 DEF PopCall, Goto, At, ptrs, mem, log, TypeOK, Still
<1>8. CASE PopTest(t)
  BY <1>8 DEF PopTest, Return, Goto, ptrs, mem, calls, log, TypeOK, Still
<1>9. CASE PopEnter(t)
  BY <1>9 DEF PopEnter, Goto, ptrs, mem, calls, log, TypeOK, Still
<1>10. CASE IncHead(t)
  BY <1>10 DEF IncHead, Counted, Goto, At, mem, calls, log, TypeOK, Still
<1>11. CASE PopAtTail(t)
  BY <1>11 DEF PopAtTail, AtTail, Goto, At, ptrs, mem, local, calls, log, TypeOK, Still
<1>12. CASE LoadNext(t)
  BY <1>12 DEF LoadNext, Goto, At, ptrs, mem, calls, log, TypeOK, Still
<1>13. CASE CasHead(t)
  BY <1>13
<1>14. CASE Take(t)
  BY <1>14 DEF Take, Goto, At, ptrs, calls, log, TypeOK, Still
<1>15. CASE PopReturn(t)
  BY <1>15 DEF PopReturn, Return, Goto, At, ptrs, mem, calls, log, TypeOK, Still
<1>16. CASE FreeExternal(t)
  BY <1>16, DeleteSafe DEF Refs, Settles, Still, FreeExternal, log
<1>17. CASE ReleaseRef(t)
  BY <1>17, DeleteSafe DEF Refs, Settles, Still, ReleaseRef, log
<1>18. CASE ReleaseEmpty(t)
  BY <1>18, DeleteSafe DEF Refs, Settles, Still, ReleaseEmpty, log
<1> QED
  BY <1>1, <1>2, <1>3, <1>4, <1>5, <1>6, <1>7, <1>8, <1>9, <1>10, <1>11, <1>12, <1>13, <1>14,
       <1>15, <1>16, <1>17, <1>18 DEF Step


\* push() begins with a fresh node.
LEMMA PushCallList ==
  ASSUME TypeOK, Refs, NEW t \in Threads, PushCall(t)
  PROVE  \E m : /\ Allocates(m)
                /\ mine' = [mine EXCEPT ![t] = m]
                /\ \A k \in live : next'[k] = next[k]
<1>1. PICK m \in Nodes : /\ NewNode(m) /\ next' = [next EXCEPT ![m] = NULL]
                         /\ mine' = [mine EXCEPT ![t] = m]
  BY DEF PushCall
<1>2. Allocates(m)
  BY <1>1 DEF PushCall, NewNode, Allocates, TypeOK, ptrs
<1> QED
  BY <1>1, <1>2 DEF Allocates, TypeOK

\* The three outcomes of the compare-exchange on node::next.
LEMMA CasNextList ==
  ASSUME TypeOK, Refs, AheadInv, NEW t \in Threads, CasNext(t)
  PROVE  /\ pc[t] = "cas_next" /\ pc' = [pc EXCEPT ![t] = "set_tail"] /\ old' = old
         /\ stored' = stored /\ val' = val /\ mark' = mark
         /\ \/ /\ Links(old[t].ptr, mine[t]) /\ stored[t]
               /\ UNCHANGED <<head, tail, live, data, enq, deq, tailLeft, headLeft>>
               /\ mine' = [mine EXCEPT ![t] = NULL]
            \/ /\ Links(old[t].ptr, mine[t]) /\ ~stored[t]
               /\ \E m : Allocates(m) /\ mine' = [mine EXCEPT ![t] = m]
            \/ /\ next[old[t].ptr] # NULL
               /\ UNCHANGED <<head, tail, next, data, enq, deq, tailLeft, headLeft>>
               /\ live' = live \ Spare(t)
               /\ mine' = [mine EXCEPT ![t] = IF stored[t] THEN NULL ELSE @]
               /\ Spare(t) \subseteq {mine[t]} /\ mine[t] # NULL
<1>1. PICK n : n = old[t].ptr
  OBVIOUS
<1>2. /\ pc[t] = "cas_next" /\ pc' = [pc EXCEPT ![t] = "set_tail"]
      /\ UNCHANGED <<head, tail, old, stored, val, mark, enq, deq>>
      /\ n \in live /\ mine[t] # NULL /\ mine[t] \in live \ (headLeft \cup tailLeft)
      /\ mine[t] # head.ptr /\ mine[t] # tail.ptr
      /\ n \in tailLeft \/ n = tail.ptr
      /\ n \in tailLeft => next[n] # NULL
  BY <1>1 DEF CasNext, At, Goto, ptrs, calls, Refs, HoldInv, OwnInv, AheadInv, ChainInv,
              Holding, TailHolding
<1>3. n \in Nodes /\ mine[t] \in Nodes /\ live \subseteq Nodes
  BY <1>2 DEF TypeOK
<1>4. ASSUME next[n] = NULL, stored[t], next' = [next EXCEPT ![n] = mine[t]]
      PROVE  Links(n, mine[t])
  BY <1>2, <1>3, <1>4 DEF Links, TypeOK
<1>5. ASSUME next[n] = NULL, NEW m \in Nodes, NewNode(m),
             next' = [next EXCEPT ![n] = mine[t], ![m] = NULL]
      PROVE  Links(n, mine[t]) /\ Allocates(m)
  <2>1. m \notin live
    BY <1>5 DEF NewNode
  <2>2. Links(n, mine[t])
    BY <1>2, <1>3, <1>5, <2>1 DEF Links, TypeOK
  <2>3. Allocates(m)
    BY <1>2, <1>3, <1>5, <2>1 DEF Allocates, NewNode, TypeOK
  <2> QED
    BY <2>2, <2>3
<1>6. CASE next[n] = NULL /\ stored[t]
  BY <1>1, <1>2, <1>4, <1>6 DEF CasNext
<1>7. CASE next[n] = NULL /\ ~stored[t]
  <2>1. PICK m \in Nodes : NewNode(m) /\ next' = [next EXCEPT ![n] = mine[t],
       ![m] = NULL] /\ mine' = [mine EXCEPT ![t] = m]
    BY <1>1, <1>7 DEF CasNext
  <2> QED
    BY <1>1, <1>2, <1>5, <1>7, <2>1
<1>8. CASE next[n] # NULL
  BY <1>1, <1>2, <1>8 DEF CasNext, Spare
<1> QED
  BY <1>6, <1>7, <1>8

\* The tail moves to the node behind its own.
LEMMA SetTailList ==
  ASSUME TypeOK, Refs, StoreInv, NEW t \in Threads, SetNewTail(t), tail.ptr = old[t].ptr
  PROVE  /\ tail'.ptr = next[tail.ptr] /\ tailLeft' = tailLeft \cup {tail.ptr}
         /\ enq' = Append(enq, data[tail.ptr]) /\ data[tail.ptr] # NULL
         /\ UNCHANGED <<head, live, data, next, deq, headLeft, mine>>
         /\ tail.ptr \in live \ headLeft /\ tail.ptr \notin tailLeft
         /\ next[tail.ptr] \in live \ (headLeft \cup tailLeft)
         /\ next[tail.ptr] # tail.ptr /\ next[tail.ptr] # head.ptr
         /\ \A n \in live : n \in tailLeft /\ n \notin headLeft => next[n] # next[tail.ptr]
         /\ pc' = [pc EXCEPT ![t] = "free_tail"]
<1>1. /\ pc[t] = "set_tail" /\ tail'.ptr = nxt[t] /\ tailLeft' = tailLeft \cup {tail.ptr}
      /\ enq' = Append(enq, data[tail.ptr])
      /\ UNCHANGED <<head, live, data, next, deq, headLeft, mine>>
      /\ pc' = [pc EXCEPT ![t] = "free_tail"]
  BY DEF SetNewTail, Counted, Goto, At, mem
<1>2. nxt[t] = next[tail.ptr] /\ nxt[t] # NULL
  BY <1>1 DEF Refs, HoldInv
<1>3. tail.ptr \in live \ headLeft /\ tail.ptr \notin tailLeft
  BY DEF Refs, PtrInv
<1>4. data[tail.ptr] # NULL
  BY <1>1, <1>3 DEF StoreInv
<1>5. /\ next[tail.ptr] \in live \ (headLeft \cup tailLeft)
      /\ next[tail.ptr] # tail.ptr /\ next[tail.ptr] # head.ptr
  BY <1>2, <1>3 DEF Refs, ChainInv
<1>6. \A n \in live : n \in tailLeft /\ n \notin headLeft => next[n] # next[tail.ptr]
  BY <1>2, <1>3 DEF Refs, ChainInv
<1> QED
  BY <1>1, <1>2, <1>3, <1>4, <1>5, <1>6

\* The head moves to the node behind its own.
LEMMA CasHeadList ==
  ASSUME TypeOK, Refs, NEW t \in Threads, CasHead(t), head = old[t]
  PROVE  /\ head.ptr \in live \ headLeft /\ head.ptr \in tailLeft
         /\ head'.ptr = next[head.ptr] /\ headLeft' = headLeft \cup {head.ptr}
         /\ next[head.ptr] \in live \ headLeft /\ next[head.ptr] # head.ptr
         /\ next[head.ptr] \in tailLeft \/ next[head.ptr] = tail.ptr
         /\ deq' = deq + 1
         /\ UNCHANGED <<tail, live, data, next, enq, tailLeft, old, val, mine>>
         /\ mark' = [u \in Threads |-> IF u = t THEN deq + 1
                                       ELSE IF pc[u] \in Searching THEN 0 ELSE mark[u]]
         /\ pc' = [pc EXCEPT ![t] = "take"]
<1>1. pc[t] = "cas_head" /\ pc' = [pc EXCEPT ![t] = "take"]
  BY DEF CasHead, At, Goto
<1>2. nxt[t] = next[head.ptr] /\ head.ptr \in tailLeft
  BY <1>1 DEF Refs, HoldInv
<1>3. head.ptr \in live \ headLeft
  BY DEF Refs, PtrInv
<1>4. next[head.ptr] # NULL
  BY <1>2, <1>3 DEF Refs, ChainInv
<1>5. /\ next[head.ptr] \in live \ headLeft /\ next[head.ptr] # head.ptr
      /\ next[head.ptr] \in tailLeft \/ next[head.ptr] = tail.ptr
  BY <1>2, <1>3, <1>4 DEF Refs, ChainInv
<1> QED
  BY <1>1, <1>2, <1>3, <1>5 DEF CasHead, Counted, mem

-----------------------------------------------------------------------------
\* A step changes the locals of its own thread only, except that a successful
\* pop withdraws the mark of the others that still search.
LEMMA OthersStep ==
  ASSUME TypeOK, NEW t \in Threads, Step(t), NEW u \in Threads, u # t
  PROVE  /\ pc'[u] = pc[u] /\ old'[u] = old[u] /\ mine'[u] = mine[u]
         /\ nxt'[u] = nxt[u] /\ val'[u] = val[u] /\ stored'[u] = stored[u]
         /\ mark'[u] = mark[u] \/ (CasHead(t) /\ pc[u] \in Searching /\ mark'[u] = 0)
<1>1. CASE PushCall(t)
  BY <1>1 DEF PushCall, NewNode, Goto, At, ptrs, TypeOK, local
<1>2. CASE IncTail(t)
  BY <1>2 DEF IncTail, Counted, Goto, At, mem, calls, log, TypeOK, local
<1>3. CASE CasData(t)
  BY <1>3 DEF CasData, Vacant, Goto, At, ptrs, calls, log, TypeOK, local
<1>4. CASE CasNext(t)
  BY <1>4 DEF CasNext, NewNode, Spare, Goto, At, ptrs, calls, TypeOK, local
<1>5. CASE SetNewTail(t)
  BY <1>5 DEF SetNewTail, Counted, Goto, At, mem, calls, TypeOK, local
<1>6. CASE PushReturn(t)
  BY <1>6 DEF PushReturn, Return, Goto, At, ptrs, mem, log, TypeOK, local
<1>7. CASE PopCall(t)
  BY <1>7 DEF PopCall, Goto, At, ptrs, mem, log, TypeOK, local
<1>8. CASE PopTest(t)
  BY <1>8 DEF PopTest, Return, Goto, ptrs, mem, calls, log, TypeOK, local
<1>9. CASE PopEnter(t)
  BY <1>9 DEF PopEnter, Goto, ptrs, mem, calls, log, TypeOK, local
<1>10. CASE IncHead(t)
  BY <1>10 DEF IncHead, Counted, Goto, At, mem, calls, log, TypeOK, local
<1>11. CASE PopAtTail(t)
  BY <1>11 DEF PopAtTail, AtTail, Goto, At, ptrs, mem, local, calls, log, TypeOK, local
<1>12. CASE LoadNext(t)
  BY <1>12 DEF LoadNext, Goto, At, ptrs, mem, calls, log, TypeOK, local
<1>13. CASE CasHead(t)
  <2>1. /\ pc'[u] = pc[u] /\ old'[u] = old[u] /\ mine'[u] = mine[u]
        /\ nxt'[u] = nxt[u] /\ val'[u] = val[u] /\ stored'[u] = stored[u]
    BY <1>13 DEF CasHead, Goto, TypeOK
  <2>2. mark'[u] = mark[u] \/ (pc[u] \in Searching /\ mark'[u] = 0)
    BY <1>13 DEF CasHead, TypeOK
  <2> QED
    BY <1>13, <2>1, <2>2
<1>14. CASE Take(t)
  BY <1>14 DEF Take, Goto, At, ptrs, calls, log, TypeOK, local
<1>15. CASE PopReturn(t)
  BY <1>15 DEF PopReturn, Return, Goto, At, ptrs, mem, calls, log, TypeOK, local
<1>16. CASE FreeExternal(t)
  BY <1>16 DEF FreeExternal, SetCount, Goto, AfterCount, Again, ptrs, local, calls, log,
       TypeOK, local
<1>17. CASE ReleaseRef(t)
  BY <1>17 DEF ReleaseRef, SetCount, Goto, AfterCount, Again, ptrs, local, calls, log, TypeOK,
       local
<1>18. CASE ReleaseEmpty(t)
  BY <1>18 DEF ReleaseEmpty, SetCount, Return, Goto, At, ptrs, calls, log, TypeOK, local
<1> QED
  BY <1>1, <1>2, <1>3, <1>4, <1>5, <1>6, <1>7, <1>8, <1>9, <1>10, <1>11, <1>12, <1>13, <1>14,
       <1>15, <1>16, <1>17, <1>18 DEF Step


\* Every step keeps AheadInv.
LEMMA AheadStep ==
  ASSUME TypeOK, Refs, AheadInv, StoreInv, NEW t \in Threads, Step(t)
  PROVE  AheadInv'
<1> USE DEF Refs
<1>1. \A u \in Threads :
        pc'[u] \in TailHolding => old'[u].ptr \in tailLeft' \/ old'[u].ptr = tail'.ptr
  <2> SUFFICES ASSUME NEW u \in Threads, pc'[u] \in TailHolding
               PROVE  old'[u].ptr \in tailLeft' \/ old'[u].ptr = tail'.ptr
    OBVIOUS
  <2>1. \A k \in live : k \in tailLeft \/ k = tail.ptr => k \in tailLeft' \/ k = tail'.ptr
    <3>1. CASE PushCall(t) \/ CasNext(t)
      BY <3>1, PushCallList, CasNextList DEF Allocates
    <3>2. CASE SetNewTail(t)
      BY <3>2, SetTailList DEF SetNewTail
    <3>3. CASE CasHead(t)
      BY <3>3 DEF CasHead
    <3>4. CASE ~PushCall(t) /\ ~CasNext(t) /\ ~SetNewTail(t) /\ ~CasHead(t)
      BY <3>4, StillStep DEF Still
    <3> QED
      BY <3>1, <3>2, <3>3, <3>4
  <2>2. pc[u] \in TailHolding => old[u].ptr \in live
    BY DEF HoldInv, Holding
  <2>3. CASE u # t
    BY <2>1, <2>2, <2>3, OthersStep DEF AheadInv
  <2>4. CASE u = t /\ IncTail(t)
    BY <2>4 DEF IncTail, Counted, TypeOK
  <2>5. CASE u = t /\ SetNewTail(t) /\ tail.ptr = old[t].ptr
    <3>1. old'[t].ptr = tail.ptr
      BY <2>5 DEF SetNewTail, TypeOK
    <3> QED
      BY <2>5, <3>1, SetTailList
  <2>6. CASE u = t /\ ~IncTail(t) /\ ~(SetNewTail(t) /\ tail.ptr = old[t].ptr)
    <3>1. pc[t] \in TailHolding /\ old'[t] = old[t]
      <4>1. CASE CasData(t) \/ CasNext(t)
        BY <4>1 DEF CasData, CasNext, At, TailHolding
      <4>2. CASE SetNewTail(t)
        BY <2>6, <4>2 DEF SetNewTail, At, TailHolding
      <4>3. CASE ~CasData(t) /\ ~CasNext(t) /\ ~SetNewTail(t)
        BY <2>6, <4>3, Moves DEF Step, TailHolding
      <4> QED
        BY <4>1, <4>2, <4>3
    <3> QED
      BY <2>1, <2>2, <2>6, <3>1 DEF AheadInv
  <2> QED
    BY <2>3, <2>4, <2>5, <2>6
<1>2. (\A n \in live : n \notin tailLeft /\ n # tail.ptr => next[n] = NULL)'
  <2>1. CASE PushCall(t)
    BY <2>1, PushCallList DEF Allocates, AheadInv
  <2>2. CASE CasNext(t)
    BY <2>2, CasNextList DEF Allocates, Links, AheadInv
  <2>3. CASE SetNewTail(t)
    <3>1. CASE tail.ptr = old[t].ptr
      BY <2>3, <3>1, SetTailList DEF AheadInv
    <3>2. CASE tail.ptr # old[t].ptr
      BY <2>3, <3>2 DEF SetNewTail, AheadInv, mem
    <3> QED
      BY <3>1, <3>2
  <2>4. CASE CasHead(t)
    BY <2>4 DEF CasHead, AheadInv, mem
  <2>5. CASE ~PushCall(t) /\ ~CasNext(t) /\ ~SetNewTail(t) /\ ~CasHead(t)
    BY <2>5, StillStep DEF Still, AheadInv
  <2> QED
    BY <2>1, <2>2, <2>3, <2>4, <2>5
<1>3. (next[tail.ptr] # NULL => \E u \in Threads : pc[u] = "set_tail" /\ old[u].ptr = tail.ptr)'
  <2>1. CASE PushCall(t)
    <3>1. tail'.ptr = tail.ptr /\ next'[tail.ptr] = next[tail.ptr]
      BY <2>1, PushCallList DEF Allocates, PtrInv
    <3>2. pc[t] # "set_tail"
      BY <2>1 DEF PushCall, At
    <3> QED
      BY <2>1, <3>1, <3>2, OthersStep DEF AheadInv
  <2>2. CASE CasNext(t)
    <3>1. /\ pc[t] = "cas_next" /\ pc'[t] = "set_tail" /\ old'[t] = old[t] /\ tail' = tail
      BY <2>2, CasNextList DEF Allocates, TypeOK
    <3>2. CASE old[t].ptr = tail.ptr
      BY <3>1, <3>2
    <3>3. CASE old[t].ptr # tail.ptr
      <4>1. next'[tail.ptr] = next[tail.ptr]
        BY <2>2, <3>3, CasNextList DEF Links
      <4> QED
        BY <2>2, <3>1, <4>1, OthersStep DEF AheadInv
    <3> QED
      BY <3>2, <3>3
  <2>3. CASE SetNewTail(t)
    <3>1. CASE tail.ptr = old[t].ptr
      BY <2>3, <3>1, SetTailList DEF AheadInv
    <3>2. CASE tail.ptr # old[t].ptr
      <4>1. tail' = tail /\ next' = next
        BY <2>3, <3>2 DEF SetNewTail, mem
      <4> QED
        BY <2>3, <3>2, <4>1, OthersStep DEF AheadInv
    <3> QED
      BY <3>1, <3>2
  <2>4. CASE CasHead(t)
    <3>1. tail' = tail /\ next' = next /\ pc[t] # "set_tail"
      BY <2>4 DEF CasHead, mem, At
    <3> QED
      BY <2>4, <3>1, OthersStep DEF AheadInv
  <2>5. CASE ~PushCall(t) /\ ~CasNext(t) /\ ~SetNewTail(t) /\ ~CasHead(t)
    <3>1. tail'.ptr = tail.ptr /\ next' = next
      BY <2>5, StillStep DEF Still
    <3>2. pc[t] # "set_tail"
      BY <2>5, Moves DEF Step
    <3> QED
      BY <2>5, <3>1, <3>2, OthersStep DEF AheadInv
  <2> QED
    BY <2>1, <2>2, <2>3, <2>4, <2>5
<1> QED
  BY <1>1, <1>2, <1>3 DEF AheadInv

-----------------------------------------------------------------------------
\* A push keeps its own node except in the compare-exchange on node::next.
LEMMA MineKept ==
  ASSUME TypeOK, MineInv, NEW t \in Threads, Step(t), ~CasNext(t),
         NEW u \in Threads, mine[u] # NULL
  PROVE  mine'[u] = mine[u]
<1>1. CASE u # t
  BY <1>1, OthersStep
<1>2. CASE u = t
  <2>1. pc[t] \in {"inc_tail", "cas_data", "cas_next", "set_tail", "free_tail", "drop_tail"}
    BY <1>2 DEF MineInv
  <2>2. /\ ~PushCall(t) /\ ~PushReturn(t) /\ ~PopTest(t) /\ ~PopReturn(t) /\ ~ReleaseEmpty(t)
    BY <2>1 DEF PushCall, PushReturn, PopTest, PopReturn, ReleaseEmpty, At
  <2>3. mine' = mine
    BY <2>2 DEF Step, IncTail, CasData, SetNewTail, PopCall, PopEnter, IncHead, PopAtTail,
         LoadNext, CasHead, Take, FreeExternal, ReleaseRef, local
  <2> QED
    BY <1>2, <2>3
<1> QED
  BY <1>1, <1>2

\* A node in the list between head and tail, its successor and its datum stay.
LEMMA ListKept ==
  ASSUME TypeOK, Refs, AheadInv, StoreInv, NEW t \in Threads, Step(t),
         NEW n \in live', n \in tailLeft', n \notin headLeft', data[n] # NULL
  PROVE  /\ n \in live /\ n \notin headLeft /\ next'[n] = next[n] /\ data'[n] = data[n]
         /\ n \in tailLeft \/ (SetNewTail(t) /\ n = tail.ptr /\ tail.ptr = old[t].ptr)
<1>1. CASE PushCall(t)
  BY <1>1, PushCallList DEF Allocates
<1>2. CASE CasNext(t)
  <2>1. n \in live /\ n \in tailLeft /\ n \notin headLeft
    BY <1>2, CasNextList DEF Allocates
  <2>2. data'[n] = data[n]
    BY <1>2, <2>1, CasNextList DEF Allocates
  <2>3. n # tail.ptr
    BY <2>1 DEF Refs, PtrInv
  <2>4. next'[n] = next[n]
    BY <1>2, <2>1, <2>3, CasNextList DEF Links
  <2> QED
    BY <2>1, <2>2, <2>4
<1>3. CASE SetNewTail(t)
  BY <1>3, SetTailList DEF SetNewTail, mem
<1>4. CASE CasHead(t)
  BY <1>4 DEF CasHead, mem
<1>5. CASE CasData(t)
  <2>1. Still
    BY <1>5, StillStep DEF CasData, PushCall, CasNext, SetNewTail, CasHead, At
  <2>2. data'[n] = data[n]
    BY <1>5, <2>1 DEF CasData, Vacant, TypeOK, Still
  <2> QED
    BY <2>1, <2>2 DEF Still
<1>6. CASE Take(t)
  <2>1. Still
    BY <1>6, StillStep DEF Take, PushCall, CasNext, SetNewTail, CasHead, At
  <2>2. old[t].ptr \in headLeft
    BY <1>6 DEF Take, At, Refs, FreerInv
  <2>3. data'[n] = data[n]
    BY <1>6, <2>1, <2>2 DEF Take, TypeOK, Still
  <2> QED
    BY <2>1, <2>3 DEF Still
<1>7. CASE ~PushCall(t) /\ ~CasNext(t) /\ ~SetNewTail(t) /\ ~CasHead(t) /\ ~CasData(t) /\ ~Take(t)
  <2>1. Still
    BY <1>7, StillStep
  <2>2. data' = data
    BY <1>7 DEF Step, IncTail, PushReturn, PopCall, PopTest, PopEnter, IncHead, PopAtTail,
         LoadNext, PopReturn, FreeExternal, ReleaseRef, ReleaseEmpty, mem
  <2> QED
    BY <2>1, <2>2 DEF Still
<1> QED
  BY <1>1, <1>2, <1>3, <1>4, <1>5, <1>6, <1>7

\* Every step keeps WhereInv.
LEMMA WhereStep ==
  ASSUME TypeOK, Refs, AheadInv, StoreInv, MineInv, WhereInv, NEW t \in Threads, Step(t)
  PROVE  WhereInv'
<1>0. live \subseteq Nodes /\ tail.ptr \in live /\ \A k \in live : k # NULL
  BY NodesAssumption DEF TypeOK, Refs, PtrInv
<1> SUFFICES ASSUME NEW n \in live'
             PROVE  WhereInv!(n)'
  BY DEF WhereInv
<1>1. CASE PushCall(t)
  <2>1. PICK m : /\ Allocates(m) /\ mine' = [mine EXCEPT ![t] = m]
                 /\ \A k \in live : next'[k] = next[k]
    BY <1>1, PushCallList
  <2>2. CASE n = m
    BY <2>1, <2>2 DEF TypeOK
  <2>3. CASE n # m
    <3>1. n \in live /\ n \in Nodes
      BY <1>0, <2>1, <2>3 DEF Allocates
    <3>2. \A u \in Threads : n = mine[u] => n = mine'[u]
      BY <1>0, <1>1, <3>1, MineKept DEF PushCall, CasNext, At
    <3>3. next'[tail.ptr] = next[tail.ptr] /\ tail' = tail /\ (n \in tailLeft => n \in tailLeft')
      BY <1>0, <2>1, <2>3 DEF Allocates
    <3> QED
      BY <3>1, <3>2, <3>3 DEF WhereInv
  <2> QED
    BY <2>2, <2>3
<1>2. CASE CasNext(t)
  <2>1. /\ pc[t] = "cas_next" /\ tail' = tail
        /\ \/ /\ Links(old[t].ptr, mine[t]) /\ stored[t]
              /\ UNCHANGED <<head, tail, live, data, enq, deq, tailLeft, headLeft>>
              /\ mine' = [mine EXCEPT ![t] = NULL]
           \/ /\ Links(old[t].ptr, mine[t]) /\ ~stored[t]
              /\ \E m : Allocates(m) /\ mine' = [mine EXCEPT ![t] = m]
           \/ /\ next[old[t].ptr] # NULL
              /\ UNCHANGED <<head, tail, next, data, enq, deq, tailLeft, headLeft>>
              /\ live' = live \ Spare(t)
              /\ mine' = [mine EXCEPT ![t] = IF stored[t] THEN NULL ELSE @]
              /\ Spare(t) \subseteq {mine[t]} /\ mine[t] # NULL
    BY <1>2, CasNextList DEF Allocates
  <2>2. CASE Links(old[t].ptr, mine[t])
    <3>1. next'[tail.ptr] = mine[t] /\ next[tail.ptr] = NULL
      BY <2>2 DEF Links
    <3>2. CASE n \in live
      <4>1. n \in tailLeft => n \in tailLeft'
        BY <2>1, <2>2, <3>2 DEF Allocates, Links
      <4>2. \A u \in Threads : u # t => mine'[u] = mine[u]
        BY <1>2, OthersStep
      <4> QED
        BY <1>0, <2>1, <3>1, <3>2, <4>1, <4>2 DEF WhereInv
    <3>3. CASE n \notin live
      BY <2>1, <2>2, <3>3 DEF Allocates, Links, TypeOK
    <3> QED
      BY <3>2, <3>3
  <2>3. CASE /\ next[old[t].ptr] # NULL
             /\ UNCHANGED <<head, tail, next, data, enq, deq, tailLeft, headLeft>>
             /\ live' = live \ Spare(t)
             /\ mine' = [mine EXCEPT ![t] = IF stored[t] THEN NULL ELSE @]
    <3>1. n \in live /\ n \notin Spare(t)
      BY <2>3
    <3>2. \A u \in Threads : n = mine[u] => n = mine'[u]
      BY <1>2, <2>3, <3>1, OthersStep DEF Spare, TypeOK
    <3> QED
      BY <2>3, <3>1, <3>2 DEF WhereInv
  <2> QED
    BY <2>1, <2>2, <2>3
<1>3. CASE ~PushCall(t) /\ ~CasNext(t)
  <2>1. \A u \in Threads : n = mine[u] /\ n # NULL => n = mine'[u]
    BY <1>3, MineKept
  <2>2. CASE SetNewTail(t)
    <3>1. n \in live
      BY <2>2 DEF SetNewTail, mem
    <3>2. CASE tail.ptr = old[t].ptr
      BY <1>0, <2>1, <2>2, <3>1, <3>2, SetTailList DEF WhereInv
    <3>3. CASE tail.ptr # old[t].ptr
      BY <1>0, <2>1, <2>2, <3>1, <3>3 DEF SetNewTail, WhereInv, mem
    <3> QED
      BY <3>2, <3>3
  <2>3. CASE CasHead(t)
    BY <1>0, <2>1, <2>3 DEF CasHead, WhereInv, mem
  <2>4. CASE ~SetNewTail(t) /\ ~CasHead(t)
    BY <1>0, <1>3, <2>1, <2>4, StillStep DEF Still, WhereInv
  <2> QED
    BY <2>2, <2>3, <2>4
<1> QED
  BY <1>1, <1>2, <1>3

\* Every step keeps the number of nodes in the list.
LEMMA ListedStep ==
  ASSUME TypeOK, Refs, AheadInv, StoreInv, ListedInv, NEW t \in Threads, Step(t)
  PROVE  ListedInv'
<1>0. /\ tail.ptr \in live /\ head.ptr \in live
      /\ head.ptr \notin headLeft /\ tail.ptr \notin headLeft
      /\ Len(enq) \in Nat /\ deq \in Nat
  BY DEF TypeOK, Refs, PtrInv
<1>1. ASSUME Listed' = Listed, enq' = enq, deq' = deq
      PROVE  ListedInv'
  BY <1>1 DEF ListedInv
<1>2. CASE PushCall(t)
  <2>1. PICK m : Allocates(m)
    BY <1>2, PushCallList
  <2>2. Listed' = Listed
    BY <1>0, <2>1 DEF Allocates, Listed
  <2> QED
    BY <1>1, <2>1, <2>2 DEF Allocates
<1>3. CASE CasNext(t)
  <2>1. Listed' = Listed
    <3>1. CASE live' = live /\ tailLeft' = tailLeft /\ headLeft' = headLeft /\ tail' = tail
      BY <3>1 DEF Listed
    <3>2. CASE \E m : Allocates(m)
      BY <1>0, <3>2 DEF Allocates, Listed
    <3>3. CASE /\ tailLeft' = tailLeft /\ headLeft' = headLeft /\ tail' = tail
               /\ live' = live \ Spare(t) /\ Spare(t) \subseteq {mine[t]} /\ mine[t] # NULL
      <4>1. mine[t] \notin tailLeft /\ mine[t] # tail.ptr
        BY <3>3 DEF Refs, OwnInv
      <4> QED
        BY <3>3, <4>1 DEF Listed
    <3> QED
      BY <1>3, <3>1, <3>2, <3>3, CasNextList
  <2>2. enq' = enq /\ deq' = deq
    BY <1>3 DEF CasNext
  <2> QED
    BY <1>1, <2>1, <2>2
<1>4. CASE SetNewTail(t)
  <2>1. CASE tail.ptr = old[t].ptr
    <3>1. PICK m : m = next[tail.ptr]
      OBVIOUS
    <3>2. Listed' = Listed \cup {m} /\ m \notin Listed
      BY <1>0, <1>4, <2>1, <3>1, SetTailList DEF Listed
    <3>3. deq' = deq /\ Len(enq') = Len(enq) + 1
      <4>1. /\ deq' = deq /\ enq' = Append(enq, data[tail.ptr]) /\ enq \in Seq(Datum)
            /\ data[tail.ptr] \in Datum
        BY <1>4, <2>1, SetTailList DEF TypeOK
      <4> QED
        BY <4>1
    <3>4. IsFiniteSet(Listed') /\ Cardinality(Listed') = Cardinality(Listed) + 1
      BY <3>2, FS_AddElement DEF ListedInv
    <3> QED
      BY <1>0, <3>3, <3>4 DEF ListedInv
  <2>2. CASE tail.ptr # old[t].ptr
    <3>1. UNCHANGED <<tail, head, live, tailLeft, headLeft, enq, deq>>
      BY <1>4, <2>2 DEF SetNewTail, mem
    <3> QED
      BY <1>1, <3>1 DEF Listed
  <2> QED
    BY <2>1, <2>2
<1>5. CASE CasHead(t)
  <2>1. CASE head = old[t]
    <3>1. PICK m : m = head.ptr
      OBVIOUS
    <3>2. Listed' = Listed \ {m} /\ m \in Listed
      BY <1>0, <1>5, <2>1, <3>1, CasHeadList DEF Listed
    <3>3. deq' = deq + 1 /\ enq' = enq
      BY <1>5, <2>1, CasHeadList
    <3>4. IsFiniteSet(Listed') /\ Cardinality(Listed') = Cardinality(Listed) - 1
      BY <3>2, FS_RemoveElement DEF ListedInv
    <3> QED
      BY <1>0, <3>3, <3>4 DEF ListedInv
  <2>2. CASE head # old[t]
    <3>1. UNCHANGED <<tail, head, live, tailLeft, headLeft, enq, deq>>
      BY <1>5, <2>2 DEF CasHead, mem
    <3> QED
      BY <1>1, <3>1 DEF Listed
  <2> QED
    BY <2>1, <2>2
<1>6. CASE ~PushCall(t) /\ ~CasNext(t) /\ ~SetNewTail(t) /\ ~CasHead(t)
  <2>1. Still
    BY <1>6, StillStep
  <2>2. Listed' = Listed
    BY <2>1 DEF Still, Listed
  <2> QED
    BY <1>1, <2>1, <2>2 DEF Still
<1> QED
  BY <1>2, <1>3, <1>4, <1>5, <1>6

-----------------------------------------------------------------------------
\* The history of the tail only grows.
LEMMA EnqGrows ==
  ASSUME TypeOK, Refs, StoreInv, NEW t \in Threads, Step(t)
  PROVE  /\ Len(enq) \in Nat /\ Len(enq') \in Nat /\ Len(enq') >= Len(enq)
         /\ \A i \in 1 .. Len(enq) : enq'[i] = enq[i]
<1>1. enq \in Seq(Datum) /\ Len(enq) \in Nat
  BY DEF TypeOK
<1>2. CASE SetNewTail(t) /\ tail.ptr = old[t].ptr
  <2>1. PICK d \in Datum : enq' = Append(enq, d)
    BY <1>2, SetTailList DEF TypeOK
  <2> QED
    BY <1>1, <2>1
<1>3. CASE ~(SetNewTail(t) /\ tail.ptr = old[t].ptr)
  <2>1. enq' = enq
    BY <1>3 DEF Step, PushCall, IncTail, CasData, CasNext, SetNewTail, PushReturn, PopCall,
         PopTest, PopEnter, IncHead, PopAtTail, LoadNext, CasHead, Take, PopReturn,
         FreeExternal, ReleaseRef, ReleaseEmpty, log
  <2> QED
    BY <1>1, <2>1
<1> QED
  BY <1>2, <1>3

\* Only a pop's Take empties a node; a node that holds a datum keeps it till then.
LEMMA DataKept ==
  ASSUME TypeOK, Refs, NEW t \in Threads, Step(t), NEW n \in live, data[n] # NULL,
         ~(Take(t) /\ n = old[t].ptr)
  PROVE  data'[n] = data[n]
<1>0. n \in Nodes
  BY DEF TypeOK
<1>1. CASE PushCall(t)
  BY <1>1, PushCallList DEF Allocates
<1>2. CASE CasNext(t)
  BY <1>0, <1>2 DEF CasNext, NewNode, TypeOK
<1>3. CASE CasData(t)
  BY <1>0, <1>3 DEF CasData, Vacant, TypeOK
<1>4. CASE Take(t)
  BY <1>0, <1>4 DEF Take, TypeOK
<1>5. CASE ~PushCall(t) /\ ~CasNext(t) /\ ~CasData(t) /\ ~Take(t)
  <2>1. data' = data
    BY <1>5 DEF Step, IncTail, SetNewTail, PushReturn, PopCall, PopTest, PopEnter, IncHead,
         PopAtTail, LoadNext, CasHead, PopReturn, FreeExternal, ReleaseRef, ReleaseEmpty, mem
  <2> QED
    BY <2>1
<1> QED
  BY <1>1, <1>2, <1>3, <1>4, <1>5

\* Every step keeps TakenInv.
LEMMA TakenStep ==
  ASSUME TypeOK, Refs, StoreInv, TakenInv, NEW t \in Threads, Step(t), NEW at, Placed(at)
  PROVE  TakenInv'
<1> SUFFICES ASSUME NEW u \in Threads
             PROVE  TakenInv!(u)'
  BY DEF TakenInv
<1>0. TakenInv!(u)
  BY DEF TakenInv
<1>1. /\ Len(enq) \in Nat /\ Len(enq') \in Nat /\ Len(enq') >= Len(enq)
      /\ \A i \in 1 .. Len(enq) : enq'[i] = enq[i]
  BY EnqGrows
<1>2. ASSUME pc'[u] = pc[u], mark'[u] = mark[u], val'[u] = val[u], old'[u] = old[u],
             ~(Take(t) /\ u = t)
      PROVE  TakenInv!(u)'
  <2>1. CASE pc[u] = "take"
    <3>1. old[u].ptr \in live
      BY <2>1 DEF Refs, HoldInv, Holding, HeadHolding
    <3>2. ~(Take(t) /\ old[u].ptr = old[t].ptr)
      BY <1>2, <2>1 DEF Take, At, Refs, FreerInv
    <3>3. data'[old[u].ptr] = data[old[u].ptr]
      BY <1>0, <2>1, <3>1, <3>2, DataKept
    <3> QED
      BY <1>0, <1>1, <1>2, <2>1, <3>3
  <2>2. CASE pc[u] # "take"
    BY <1>0, <1>1, <1>2, <2>2
  <2> QED
    BY <2>1, <2>2
<1>3. ASSUME pc'[u] \notin {"take", "free_head", "pop_stat"}
      PROVE  TakenInv!(u)'
  BY <1>3
<1>4. CASE u # t
  <2>1. /\ pc'[u] = pc[u] /\ old'[u] = old[u] /\ val'[u] = val[u]
        /\ mark'[u] = mark[u] \/ pc[u] \in Searching
    BY <1>4, OthersStep
  <2> QED
    BY <1>2, <1>3, <1>4, <2>1 DEF Searching
<1>5. CASE u = t
  <2>1. CASE CasHead(t) /\ head = old[t]
    <3>1. /\ head.ptr \in live /\ head.ptr \in tailLeft /\ head.ptr \notin headLeft
          /\ data' = data /\ enq' = enq /\ pc'[t] = "take" /\ mark'[t] = deq + 1 /\ old' = old
      BY <2>1, CasHeadList DEF TypeOK
    <3>2. /\ at[head.ptr] = deq + 1 /\ at[head.ptr] \in 1 .. Len(enq)
          /\ data[head.ptr] = enq[at[head.ptr]] /\ data[head.ptr] # NULL
      BY <3>1 DEF Placed
    <3> QED
      BY <1>5, <2>1, <3>1, <3>2
  <2>2. CASE CasHead(t) /\ head # old[t]
    <3>1. pc'[t] = "drop_head"
      BY <2>2 DEF CasHead, Goto, TypeOK
    <3> QED
      BY <1>3, <1>5, <3>1
  <2>3. CASE Take(t)
    <3>1. /\ pc[t] = "take" /\ pc'[t] = "free_head" /\ val'[t] = data[old[t].ptr]
          /\ mark' = mark
      BY <2>3 DEF Take, At, Goto, TypeOK
    <3> QED
      BY <1>0, <1>1, <1>5, <3>1
  <2>4. CASE FreeExternal(t)
    <3>1. pc[t] = "free_head" \/ pc'[t] \in {"push_stat", "inc_tail"}
      BY <2>4 DEF FreeExternal, Goto, AfterCount, Again, TypeOK
    <3>2. pc[t] = "free_head" => pc'[t] = "pop_stat" /\ mark' = mark /\ val' = val
      BY <2>4 DEF FreeExternal, Goto, AfterCount, Again, TypeOK, local
    <3> QED
      BY <1>0, <1>1, <1>3, <1>5, <3>1, <3>2
  <2>5. CASE ~CasHead(t) /\ ~Take(t) /\ ~FreeExternal(t)
    <3>1. pc'[t] \notin {"take", "free_head", "pop_stat"}
      BY <2>5, Moves DEF Step
    <3> QED
      BY <1>3, <1>5, <3>1
  <2> QED
    BY <2>1, <2>2, <2>3, <2>4, <2>5
<1> QED
  BY <1>4, <1>5

\* The tail passing a node extends the order; no other step disturbs it.
LEMMA PlacedStep ==
  ASSUME TypeOK, Refs, AheadInv, StoreInv, NEW t \in Threads, Step(t),
         NEW at \in [Nodes -> Nat], Placed(at)
  PROVE  \E at2 \in [Nodes -> Nat] :
           /\ Placed(at2)'
           /\ \A n \in live : n \in tailLeft \/ n = tail.ptr => at2[n] = at[n]
<1>0. /\ Len(enq) \in Nat /\ Len(enq') \in Nat /\ Len(enq') >= Len(enq)
      /\ \A i \in 1 .. Len(enq) : enq'[i] = enq[i]
  BY EnqGrows
<1>1. CASE SetNewTail(t) /\ tail.ptr = old[t].ptr
  <2>1. PICK m : m = next[tail.ptr]
    OBVIOUS
  <2>2. PICK c : c = tail.ptr
    OBVIOUS
  <2>3. /\ tail'.ptr = m /\ tailLeft' = tailLeft \cup {c}
        /\ enq' = Append(enq, data[c]) /\ data[c] # NULL
        /\ UNCHANGED <<head, live, data, next, deq, headLeft>>
        /\ c \in live /\ c \notin headLeft /\ c \notin tailLeft
        /\ m \in live /\ m \notin headLeft /\ m \notin tailLeft /\ m # c /\ m # head.ptr
        /\ \A n \in live : n \in tailLeft /\ n \notin headLeft => next[n] # m
    BY <1>1, <2>1, <2>2, SetTailList
  <2>4. m \in Nodes /\ c \in Nodes /\ live \subseteq Nodes /\ head.ptr \in Nodes
    BY <2>3 DEF TypeOK
  <2>5. PICK at2 : at2 = [at EXCEPT ![m] = Len(enq) + 2]
    OBVIOUS
  <2>6. at2 \in [Nodes -> Nat] /\ at2[m] = Len(enq) + 2 /\ \A n \in Nodes : n # m => at2[n] = at[n]
    BY <1>0, <2>4, <2>5
  <2>7. Len(enq') = Len(enq) + 1 /\ enq'[Len(enq) + 1] = data[c]
    BY <2>3, <2>4 DEF TypeOK
  <2>8. at[c] = Len(enq) + 1 /\ at[head.ptr] = deq + 1
    BY <2>2 DEF Placed
  <2>9. ASSUME NEW n \in live, n \in tailLeft', n \notin headLeft
        PROVE  /\ at2[n] \in 1 .. Len(enq') /\ at2[next[n]] = at2[n] + 1
               /\ data[n] = enq'[at2[n]] /\ data[n] # NULL
    <3>1. CASE n = c
      BY <1>0, <2>1, <2>2, <2>3, <2>4, <2>6, <2>7, <2>8, <3>1
    <3>2. CASE n # c
      <4>1. n \in tailLeft
        BY <2>3, <2>9, <3>2
      <4>2. next[n] # m /\ next[n] \in Nodes /\ n # m
        BY <2>3, <2>4, <2>9, <4>1 DEF Refs, ChainInv
      <4>3. /\ at[n] \in 1 .. Len(enq) /\ at[next[n]] = at[n] + 1
            /\ data[n] = enq[at[n]] /\ data[n] # NULL
        BY <2>9, <4>1 DEF Placed
      <4>4. at2[n] = at[n] /\ at2[next[n]] = at[next[n]]
        BY <2>4, <2>6, <4>2
      <4> QED
        BY <1>0, <2>7, <4>3, <4>4
    <3> QED
      BY <3>1, <3>2
  <2>10. Placed(at2)'
    BY <1>0, <2>3, <2>4, <2>6, <2>7, <2>8, <2>9 DEF Placed
  <2>11. \A n \in live : n \in tailLeft \/ n = tail.ptr => at2[n] = at[n]
    BY <2>2, <2>3, <2>4, <2>6
  <2> QED
    BY <2>6, <2>10, <2>11
<1>2. CASE ~(SetNewTail(t) /\ tail.ptr = old[t].ptr)
  <2>1. tail'.ptr = tail.ptr /\ enq' = enq
    <3>1. CASE ~PushCall(t) /\ ~CasNext(t) /\ ~SetNewTail(t) /\ ~CasHead(t)
      BY <3>1, StillStep DEF Still
    <3>2. CASE PushCall(t) \/ CasNext(t) \/ SetNewTail(t) \/ CasHead(t)
      BY <1>2, <3>2 DEF PushCall, CasNext, SetNewTail, CasHead, ptrs
    <3> QED
      BY <3>1, <3>2
  <2>2. ASSUME NEW n \in live', n \in tailLeft', n \notin headLeft'
        PROVE  /\ n \in live /\ n \in tailLeft /\ n \notin headLeft
               /\ next'[n] = next[n] /\ data'[n] = data[n]
    <3>1. n \in live /\ n \in tailLeft /\ n \notin headLeft
      <4>1. CASE ~PushCall(t) /\ ~CasNext(t) /\ ~SetNewTail(t) /\ ~CasHead(t)
        BY <2>2, <4>1, StillStep DEF Still
      <4>2. CASE PushCall(t)
        BY <2>2, <4>2, PushCallList DEF Allocates
      <4>3. CASE CasNext(t)
        BY <2>2, <4>3, CasNextList DEF Allocates
      <4>4. CASE SetNewTail(t) \/ CasHead(t)
        BY <1>2, <2>2, <4>4 DEF SetNewTail, CasHead, mem
      <4> QED
        BY <4>1, <4>2, <4>3, <4>4
    <3>2. data[n] # NULL
      BY <3>1 DEF Placed
    <3> QED
      BY <2>2, <3>1, <3>2, ListKept
  <2>3. at[head'.ptr] = deq' + 1
    <3>1. CASE CasHead(t) /\ head = old[t]
      <4>1. /\ head.ptr \in live /\ head.ptr \in tailLeft /\ head.ptr \notin headLeft
            /\ head'.ptr = next[head.ptr] /\ deq' = deq + 1
        BY <3>1, CasHeadList
      <4>2. at[next[head.ptr]] = at[head.ptr] + 1 /\ at[head.ptr] = deq + 1
        BY <4>1 DEF Placed
      <4> QED
        BY <4>1, <4>2
    <3>2. CASE ~(CasHead(t) /\ head = old[t])
      <4>1. head'.ptr = head.ptr /\ deq' = deq
        <5>1. CASE ~PushCall(t) /\ ~CasNext(t) /\ ~SetNewTail(t) /\ ~CasHead(t)
          BY <5>1, StillStep DEF Still
        <5>2. CASE PushCall(t) \/ CasNext(t) \/ SetNewTail(t) \/ CasHead(t)
          BY <3>2, <5>2 DEF PushCall, CasNext, SetNewTail, CasHead, ptrs
        <5> QED
          BY <5>1, <5>2
      <4> QED
        BY <4>1 DEF Placed
    <3> QED
      BY <3>1, <3>2
  <2>4. Placed(at)'
    BY <2>1, <2>2, <2>3 DEF Placed
  <2> QED
    BY <2>4
<1> QED
  BY <1>1, <1>2

-----------------------------------------------------------------------------
\* Unless a pop succeeds, the head and the nodes between the ends stay there.
LEMMA ListedKept ==
  ASSUME TypeOK, Refs, AheadInv, StoreInv, NEW t \in Threads, Step(t),
       ~(CasHead(t) /\ head = old[t])
  PROVE  /\ head'.ptr = head.ptr /\ deq' = deq
         /\ \A n \in live \ headLeft : n \in tailLeft \/ n = tail.ptr =>
              n \in live' \ headLeft' /\ (n \in tailLeft' \/ n = tail'.ptr)
<1>1. CASE PushCall(t)
  BY <1>1, PushCallList DEF Allocates
<1>2. CASE CasNext(t)
  <2>1. mine[t] # NULL => mine[t] \notin tailLeft /\ mine[t] # tail.ptr
    BY DEF Refs, OwnInv
  <2> QED
    BY <1>2, <2>1, CasNextList DEF Allocates
<1>3. CASE SetNewTail(t)
  <2>1. CASE tail.ptr = old[t].ptr
    BY <1>3, <2>1, SetTailList
  <2>2. CASE tail.ptr # old[t].ptr
    BY <1>3, <2>2 DEF SetNewTail, mem
  <2> QED
    BY <2>1, <2>2
<1>4. CASE CasHead(t)
  BY <1>4 DEF CasHead, mem
<1>5. CASE ~PushCall(t) /\ ~CasNext(t) /\ ~SetNewTail(t) /\ ~CasHead(t)
  BY <1>5, StillStep DEF Still
<1> QED
  BY <1>1, <1>2, <1>3, <1>4, <1>5

\* What a pop has seen of the ends stays true until another pop succeeds.
LEMMA SeenStep ==
  ASSUME TypeOK, Refs, AheadInv, StoreInv, NEW t \in Threads, Step(t),
         NEW at, Placed(at), Seen(at),
         NEW at2, \A n \in live : n \in tailLeft \/ n = tail.ptr => at2[n] = at[n]
  PROVE  Seen(at2)'
<1> SUFFICES ASSUME NEW u \in Threads, mark'[u] # 0
             PROVE  Seen(at2)!(u)'
  BY DEF Seen
<1>0. /\ Len(enq) \in Nat /\ Len(enq') \in Nat /\ Len(enq') >= Len(enq)
  BY EnqGrows
<1>1. ASSUME pc'[u] \notin Searching
      PROVE  Seen(at2)!(u)'
  BY <1>1 DEF Searching
<1>2. CASE u # t
  <2>1. /\ pc'[u] = pc[u] /\ old'[u] = old[u] /\ nxt'[u] = nxt[u]
        /\ mark'[u] = mark[u]
    BY <1>2, OthersStep
  <2>2. CASE CasHead(t) /\ head = old[t]
    <3>1. mark' = [v \in Threads |-> IF v = t THEN deq + 1
                                     ELSE IF pc[v] \in Searching THEN 0 ELSE mark[v]]
      BY <2>2, CasHeadList
    <3>2. pc[u] \notin Searching
      BY <1>2, <3>1
    <3> QED
      BY <1>1, <2>1, <3>2
  <2>3. CASE ~(CasHead(t) /\ head = old[t])
    <3>1. Seen(at)!(u)
      BY <2>1 DEF Seen
    <3>2. /\ head'.ptr = head.ptr /\ deq' = deq
          /\ \A n \in live \ headLeft : n \in tailLeft \/ n = tail.ptr =>
               n \in live' \ headLeft' /\ (n \in tailLeft' \/ n = tail'.ptr)
      BY <2>3, ListedKept
    <3>3. mark[u] \in Nat
      BY DEF TypeOK
    <3> QED
      BY <1>0, <2>1, <3>1, <3>2, <3>3
  <2> QED
    BY <2>2, <2>3
<1>3. CASE u = t
  <2>1. CASE PopCall(t)
    <3>1. mark'[t] = Len(enq) /\ enq' = enq /\ UNCHANGED <<head, tail, live, tailLeft, headLeft>>
      BY <2>1 DEF PopCall, TypeOK, ptrs, mem, log
    <3>2. \/ pc'[t] = "peek_head" /\ nxt'[t] = head.ptr
          \/ pc'[t] = "peek_tail" /\ nxt'[t] = tail.ptr
      BY <2>1 DEF PopCall, Goto, TypeOK
    <3>3. at2[tail.ptr] = Len(enq) + 1 /\ tail.ptr \in live \ headLeft
      BY DEF Placed, Refs, PtrInv
    <3> QED
      BY <1>0, <1>3, <3>1, <3>2, <3>3
  <2>2. CASE CasHead(t) /\ head = old[t]
    <3>1. pc'[t] = "take"
      BY <2>2, CasHeadList DEF TypeOK
    <3> QED
      BY <1>1, <1>3, <3>1 DEF Searching
  <2>3. CASE pc[t] \in Searching /\ ~(CasHead(t) /\ head = old[t])
    <3>0. Seen(at)!(t) /\ mark[t] \in Nat
      BY DEF Seen, TypeOK
    <3>1. CASE PopTest(t) \/ ReleaseEmpty(t)
      <4>1. pc'[t] = "idle"
        BY <3>1 DEF PopTest, ReleaseEmpty, Return, Goto, TypeOK
      <4> QED
        BY <1>1, <1>3, <4>1 DEF Searching
    <3>2. CASE PopEnter(t) \/ LoadNext(t) \/ CasHead(t) \/ ReleaseRef(t)
      <4>1. pc'[t] \in {"inc_head", "cas_head", "drop_head"}
        BY <2>3, <3>2 DEF PopEnter, LoadNext, CasHead, ReleaseRef, Goto, AfterCount, Again,
             TypeOK, Searching
      <4>2. mark'[t] = mark[t]
        BY <2>3, <3>2 DEF PopEnter, LoadNext, CasHead, ReleaseRef, local
      <4>3. mark[t] <= Len(enq')
        BY <1>0, <1>3, <2>3, <3>0, <4>2
      <4> QED
        BY <1>3, <4>1, <4>2, <4>3
    <3>3. CASE IncHead(t)
      <4>1. pc'[t] = "chk_tail" /\ mark' = mark /\ old'[t].ptr = head.ptr /\ head'.ptr = head.ptr
        BY <3>3 DEF IncHead, Goto, Counted, TypeOK
      <4> QED
        BY <1>0, <1>3, <2>3, <3>0, <4>1
    <3>4. CASE PopAtTail(t)
      <4>1. /\ pc[t] = "chk_tail" /\ mark' = mark /\ enq' = enq /\ deq' = deq
            /\ pc'[t] = IF old[t].ptr = tail.ptr THEN "drop_empty" ELSE "load_next"
        BY <3>4 DEF PopAtTail, AtTail, Goto, At, TypeOK, local, log
      <4>2. old[t].ptr = tail.ptr => mark[t] <= deq
        BY <1>0, <1>3, <2>3, <3>0, <4>1 DEF Placed, TypeOK
      <4> QED
        BY <1>0, <1>3, <2>3, <3>0, <4>1, <4>2
    <3> QED
      BY <2>3, <3>1, <3>2, <3>3, <3>4, Moves DEF Step, Searching
  <2>4. CASE pc[t] \notin Searching /\ ~PopCall(t)
    <3>1. CASE PushCall(t) \/ IncTail(t) \/ CasData(t) \/ CasNext(t) \/ SetNewTail(t) \/ Take(t)
      <4>1. pc'[t] \in {"inc_tail", "cas_data", "cas_next", "set_tail", "free_tail",
           "drop_tail", "free_head"}
        BY <3>1, Moves
      <4> QED
        BY <1>1, <1>3, <4>1 DEF Searching
    <3>2. CASE PushReturn(t) \/ PopReturn(t)
      <4>1. pc'[t] = "idle"
        BY <3>2 DEF PushReturn, PopReturn, Return, Goto, TypeOK
      <4> QED
        BY <1>1, <1>3, <4>1 DEF Searching
    <3>3. CASE FreeExternal(t) \/ ReleaseRef(t)
      <4>1. pc[t] \in {"free_tail", "free_head", "drop_tail"}
        BY <2>4, <3>3 DEF FreeExternal, ReleaseRef, Searching
      <4>2. pc'[t] = AfterCount(t)
        BY <3>3 DEF FreeExternal, ReleaseRef, Goto, TypeOK
      <4>3. pc'[t] \in {"push_stat", "inc_tail", "pop_stat"}
        BY <4>1, <4>2 DEF AfterCount
      <4> QED
        BY <1>1, <1>3, <4>3 DEF Searching
    <3> QED
      BY <2>4, <3>1, <3>2, <3>3, Moves DEF Step, Searching
  <2> QED
    BY <2>1, <2>2, <2>3, <2>4
<1> QED
  BY <1>2, <1>3

-----------------------------------------------------------------------------
\* A thread carries a value from the call on until it has stored it.
LEMMA CarryStep ==
  ASSUME TypeOK, ValInv, StoredInv, NEW t \in Threads, Step(t), ~PushCall(t),
       NEW u \in Threads, Carrying(u)'
  PROVE  Carrying(u) /\ val'[u] = val[u] /\ ~(CasData(t) /\ u = t /\ Vacant(old[t].ptr))
<1>1. CASE u # t
  BY <1>1, OthersStep DEF Carrying
<1>2. CASE u = t
  <2>1. CASE IncTail(t) \/ CasNext(t) \/ SetNewTail(t)
    BY <1>2, <2>1 DEF IncTail, CasNext, SetNewTail, At, Carrying, StoredInv, TailHolding, CasData
  <2>2. CASE CasData(t)
    <3>1. pc[t] = "cas_data" /\ val' = val /\ stored'[t] = Vacant(old[t].ptr)
      BY <2>2 DEF CasData, At, TypeOK
    <3>2. ~stored[t]
      BY <3>1 DEF StoredInv
    <3> QED
      BY <1>2, <3>1, <3>2 DEF Carrying, TailHolding
  <2>3. CASE FreeExternal(t) \/ ReleaseRef(t)
    <3>1. pc'[t] = AfterCount(t) /\ val' = val /\ stored' = stored
      BY <2>3 DEF FreeExternal, ReleaseRef, Goto, TypeOK, local
    <3>2. pc[t] \in {"free_tail", "drop_tail"}
      BY <1>2, <2>3, <3>1 DEF Carrying, TailHolding, AfterCount, Again, FreeExternal, ReleaseRef
    <3> QED
      BY <1>2, <2>3, <3>1, <3>2 DEF Carrying, TailHolding, CasData, FreeExternal, ReleaseRef, At
  <2>4. CASE /\ ~IncTail(t) /\ ~CasNext(t) /\ ~SetNewTail(t)
             /\ ~CasData(t) /\ ~FreeExternal(t) /\ ~ReleaseRef(t)
    <3>1. pc'[t] \notin {"inc_tail"} \cup TailHolding
      BY <2>4, Moves DEF Step, TailHolding
    <3> QED
      BY <1>2, <3>1 DEF Carrying
  <2> QED
    BY <2>1, <2>2, <2>3, <2>4
<1> QED
  BY <1>1, <1>2

\* A node the tail has not passed: what its datum can have come from.
LEMMA AheadKept ==
  ASSUME FreshData \cap Values = {}, TypeOK, Refs, AheadInv, StoreInv, ValInv,
       NEW t \in Threads, Step(t),
         NEW n \in live' \ tailLeft', data'[n] \in Values
  PROVE  \/ n \in live \ tailLeft /\ data'[n] = data[n]
         \/ /\ n \in live \ tailLeft /\ data[n] = NULL
            /\ CasData(t) /\ n = old[t].ptr /\ data'[n] = val[t]
<1>1. CASE PushCall(t)
  BY <1>1, PushCallList DEF Allocates
<1>2. CASE CasNext(t)
  BY <1>2, CasNextList DEF Allocates
<1>3. CASE SetNewTail(t)
  BY <1>3, SetTailList DEF SetNewTail, mem
<1>4. CASE CasHead(t)
  BY <1>4 DEF CasHead, mem
<1>5. CASE ~PushCall(t) /\ ~CasNext(t) /\ ~SetNewTail(t) /\ ~CasHead(t)
  <2>1. n \in live \ tailLeft /\ n \in Nodes
    BY <1>5, StillStep DEF Still, TypeOK
  <2>2. CASE CasData(t)
    BY <2>1, <2>2 DEF CasData, Vacant, TypeOK
  <2>3. CASE Take(t)
    <3>1. old[t].ptr \in tailLeft
      BY <2>3 DEF Take, At, Refs, FreerInv, HoldInv, PtrInv, Holding, HeadHolding
    <3> QED
      BY <2>1, <2>3, <3>1 DEF Take, TypeOK
  <2>4. CASE ~CasData(t) /\ ~Take(t)
    <3>1. data' = data
      BY <1>5, <2>4 DEF Step, IncTail, PushReturn, PopCall, PopTest, PopEnter, IncHead,
           PopAtTail, LoadNext, PopReturn, FreeExternal, ReleaseRef, ReleaseEmpty, mem
    <3> QED
      BY <2>1, <3>1
  <2> QED
    BY <2>2, <2>3, <2>4
<1> QED
  BY <1>1, <1>2, <1>3, <1>4, <1>5

\* Every step keeps each value in at most one place.
LEMMA OnceStep ==
  ASSUME FreshData \cap Values = {}, TypeOK, Refs, AheadInv, StoreInv, ValInv, StoredInv, OnceInv,
         NEW t \in Threads, Step(t)
  PROVE  OnceInv'
<1>0. /\ pushes \in 0 .. MaxPush /\ MaxPush \in Nat
      /\ \A u \in Threads : Carrying(u) => val[u] \in 1 .. pushes
      /\ Len(enq) \in Nat
  BY BoundsAssumption DEF TypeOK, ValInv, Carrying, Pushing
<1>1. CASE PushCall(t)
  <2>1. enq' = enq /\ pushes' = pushes + 1 /\ val'[t] = pushes + 1
    BY <1>1 DEF PushCall, TypeOK
  <2>2. \A u \in Threads : Carrying(u)' => (u = t \/ (Carrying(u) /\ val'[u] = val[u]))
    BY <1>1, OthersStep DEF Carrying
  <2>3. \A n \in live' \ tailLeft' :
          data'[n] \in Values => n \in live \ tailLeft /\ data'[n] = data[n]
    BY <1>1, AheadKept DEF PushCall, CasData, At
  <2>4. \A n \in live \ tailLeft : data[n] \in Values => data[n] <= pushes
    BY DEF OnceInv
  <2>5. \A i \in 1 .. Len(enq) : enq[i] \in Values => enq[i] <= pushes
    BY DEF OnceInv
  <2>6. ASSUME NEW s \in Threads, NEW u \in Threads, Carrying(s)', Carrying(u)', val'[s] = val'[u]
        PROVE  s = u
    <3>1. CASE s = t \/ u = t
      BY <1>0, <2>1, <2>2, <2>6, <3>1
    <3>2. CASE s # t /\ u # t
      BY <2>2, <2>6, <3>2 DEF OnceInv
    <3> QED
      BY <3>1, <3>2
  <2>7. ASSUME NEW n \in live' \ tailLeft', data'[n] \in Values
        PROVE  /\ data'[n] <= pushes'
               /\ \A u \in Threads : Carrying(u)' => val'[u] # data'[n]
               /\ \A m \in live' \ tailLeft' : data'[m] = data'[n] => m = n
               /\ \A i \in 1 .. Len(enq') : enq'[i] # data'[n]
    <3>1. n \in live \ tailLeft /\ data'[n] = data[n] /\ data[n] \in Values
      BY <2>3, <2>7
    <3>2. data[n] <= pushes /\ data[n] \in Int
      BY <2>4, <3>1 DEF Values
    <3>3. \A u \in Threads : Carrying(u)' => val'[u] # data[n]
      BY <1>0, <2>1, <2>2, <3>1, <3>2 DEF OnceInv
    <3> QED
      BY <1>0, <2>1, <2>3, <3>1, <3>2, <3>3 DEF OnceInv
  <2>8. ASSUME NEW i \in 1 .. Len(enq'), enq'[i] \in Values
        PROVE  /\ enq'[i] <= pushes'
               /\ \A u \in Threads : Carrying(u)' => val'[u] # enq'[i]
               /\ \A j \in 1 .. Len(enq') : enq'[j] = enq'[i] => j = i
    <3>1. i \in 1 .. Len(enq) /\ enq[i] \in Values /\ enq[i] <= pushes /\ enq[i] \in Int
      BY <2>1, <2>5, <2>8 DEF Values
    <3>2. \A u \in Threads : Carrying(u)' => val'[u] # enq[i]
      BY <1>0, <2>1, <2>2, <3>1 DEF OnceInv
    <3> QED
      BY <1>0, <2>1, <3>1, <3>2 DEF OnceInv
  <2> QED
    BY <2>6, <2>7, <2>8 DEF OnceInv
<1>2. CASE CasData(t) /\ Vacant(old[t].ptr)
  <2>1. /\ enq' = enq /\ pushes' = pushes /\ pc[t] = "cas_data"
    BY <1>2 DEF CasData, At, log, calls
  <2>2. Carrying(t) /\ val[t] \in Values
    <3>1. Carrying(t)
      BY <2>1 DEF Carrying, StoredInv, TailHolding
    <3> QED
      BY <1>0, <3>1 DEF Values
  <2>3. \A u \in Threads : Carrying(u)' => (u # t /\ Carrying(u) /\ val'[u] = val[u])
    BY <1>2, CarryStep DEF PushCall, CasData, At
  <2>4. \A n \in live' \ tailLeft' : data'[n] \in Values =>
          /\ n \in live \ tailLeft
          /\ data'[n] = data[n] \/ (n = old[t].ptr /\ data'[n] = val[t])
    BY AheadKept
  <2> QED
    BY <1>0, <2>1, <2>2, <2>3, <2>4 DEF OnceInv
<1>3. CASE SetNewTail(t) /\ tail.ptr = old[t].ptr
  <2>1. PICK c : c = tail.ptr
    OBVIOUS
  <2>2. /\ enq' = Append(enq, data[c]) /\ tailLeft' = tailLeft \cup {c} /\ c \in live \ tailLeft
        /\ data' = data /\ live' = live
    BY <1>3, <2>1, SetTailList
  <2>3. pushes' = pushes
    BY <1>3 DEF SetNewTail, calls
  <2>4. /\ Len(enq') = Len(enq) + 1 /\ enq'[Len(enq) + 1] = data[c]
        /\ \A i \in 1 .. Len(enq) : enq'[i] = enq[i]
    BY <2>2 DEF TypeOK
  <2>5. \A u \in Threads : Carrying(u)' => Carrying(u) /\ val'[u] = val[u]
    BY <1>3, CarryStep DEF PushCall, SetNewTail, At
  <2>6. \A i \in 1 .. Len(enq') : i \in 1 .. Len(enq) \/ i = Len(enq) + 1
    BY <1>0, <2>4
  <2>7. (\A s \in Threads,
       u \in Threads : Carrying(s) /\ Carrying(u) /\ val[s] = val[u] => s = u)'
    BY <2>5 DEF OnceInv
  <2>8. ASSUME NEW n \in live' \ tailLeft', data'[n] \in Values
        PROVE  /\ data'[n] <= pushes'
               /\ \A u \in Threads : Carrying(u)' => val'[u] # data'[n]
               /\ \A m \in live' \ tailLeft' : data'[m] = data'[n] => m = n
               /\ \A i \in 1 .. Len(enq') : enq'[i] # data'[n]
    BY <2>2, <2>3, <2>4, <2>5, <2>6, <2>8 DEF OnceInv
  <2>9. ASSUME NEW i \in 1 .. Len(enq'), enq'[i] \in Values
        PROVE  /\ enq'[i] <= pushes'
               /\ \A u \in Threads : Carrying(u)' => val'[u] # enq'[i]
               /\ \A j \in 1 .. Len(enq') : enq'[j] = enq'[i] => j = i
    BY <2>2, <2>3, <2>4, <2>5, <2>6, <2>9 DEF OnceInv
  <2> QED
    BY <2>7, <2>8, <2>9 DEF OnceInv
<1>4. CASE /\ ~PushCall(t) /\ ~(CasData(t) /\ Vacant(old[t].ptr))
           /\ ~(SetNewTail(t) /\ tail.ptr = old[t].ptr)
  <2>1. enq' = enq /\ pushes' = pushes
    BY <1>4 DEF Step, IncTail, CasData, CasNext, SetNewTail, PushReturn, PopCall, PopTest,
         PopEnter, IncHead, PopAtTail, LoadNext, CasHead, Take, PopReturn, FreeExternal,
         ReleaseRef, ReleaseEmpty, log, calls
  <2>2. \A u \in Threads : Carrying(u)' => Carrying(u) /\ val'[u] = val[u]
    BY <1>4, CarryStep
  <2>3. \A n \in live' \ tailLeft' :
          data'[n] \in Values => n \in live \ tailLeft /\ data'[n] = data[n]
    BY <1>4, AheadKept DEF Vacant
  <2> QED
    BY <2>1, <2>2, <2>3 DEF OnceInv
<1> QED
  BY <1>1, <1>2, <1>3, <1>4

-----------------------------------------------------------------------------
\* Where everything is while the queue exists.
Flow ==
  /\ MineInv /\ StoredInv /\ ValInv /\ StoreInv /\ AheadInv /\ WhereInv /\ ZeroInv
  /\ ListedInv /\ TakenInv
  /\ \E at \in [Nodes -> Nat] : Placed(at) /\ Seen(at)

\* The inductive invariant: the counts are exact, everything is where it should
\* be, and the destructor has left nothing behind.
FlowInv ==
  /\ Inv
  /\ (\E t \in Threads : pc[t] # "end") => Flow
  /\ (\E t \in Threads : pc[t] = "end") => live = {}

\* Before the end, Inv gives all that the steps of a call rest on.
LEMMA Alive ==
  ASSUME FlowInv, NEW t \in Threads, pc[t] # "end"
  PROVE  TypeOK /\ Refs /\ Flow /\ \A u \in Threads : pc[u] # "end"
BY DEF FlowInv, Inv, RefCountExact, Refs, EndInv

\* Every step of a call keeps Flow.
LEMMA FlowStep ==
  ASSUME TypeOK, Refs, Flow, NEW t \in Threads, Step(t)
  PROVE  Flow'
<1>1. /\ MineInv /\ StoredInv /\ ValInv /\ StoreInv /\ AheadInv /\ WhereInv /\ ZeroInv
      /\ ListedInv /\ TakenInv
  BY DEF Flow
<1>2. PICK at \in [Nodes -> Nat] : Placed(at) /\ Seen(at)
  BY DEF Flow
<1>3. MineInv' /\ StoredInv' /\ ZeroInv'
  BY <1>1, MineStep, StoredStep, ZeroStep DEF Refs
<1>4. ValInv' /\ StoreInv' /\ AheadInv'
  BY <1>1, ValStep, StoreStep, AheadStep, DatumAssumption DEF Refs
<1>5. WhereInv' /\ ListedInv'
  BY <1>1, WhereStep, ListedStep
<1>6. TakenInv'
  BY <1>1, <1>2, TakenStep
<1>7. PICK at2 \in [Nodes -> Nat] :
        /\ Placed(at2)'
        /\ \A n \in live : n \in tailLeft \/ n = tail.ptr => at2[n] = at[n]
  BY <1>1, <1>2, PlacedStep
<1>8. Seen(at2)'
  BY <1>1, <1>2, <1>7, SeenStep
<1> QED
  BY <1>3, <1>4, <1>5, <1>6, <1>7, <1>8 DEF Flow

\* The constructor's node is first and last, and empty or junk.
LEMMA FlowInit == Init => FlowInv
<1> SUFFICES ASSUME Init
             PROVE  FlowInv
  OBVIOUS
<1>1. PICK n \in Nodes : head = Counted(n, 1) /\ tail = Counted(n, 1) /\ live = {n}
  BY DEF Init
<1>2. /\ head.ptr = n /\ tail.ptr = n /\ enq = <<>> /\ deq = 0 /\ tailLeft = {} /\ headLeft = {}
      /\ next[n] = NULL /\ external[n] = 2
      /\ \A t \in Threads : pc[t] = "idle" /\ mine[t] = NULL /\ stored[t] = FALSE /\ mark[t] = 0
  BY <1>1 DEF Init, Counted
<1>3. Inv
  BY InitInv
<1>4. /\ MineInv /\ StoredInv /\ ValInv /\ StoreInv /\ AheadInv /\ WhereInv /\ ZeroInv /\ TakenInv
  BY <1>1, <1>2 DEF MineInv, StoredInv, ValInv, StoreInv, AheadInv, WhereInv, ZeroInv,
       TakenInv, Pushing, TailHolding
<1>5. ListedInv
  <2>1. Listed = {n} /\ Len(enq) = 0
    BY <1>1, <1>2 DEF Listed
  <2>2. IsFiniteSet({}) /\ Cardinality({}) = 0
    BY FS_EmptySet
  <2>3. Listed = {} \cup {n} /\ n \notin {}
    BY <2>1
  <2>4. IsFiniteSet(Listed) /\ Cardinality(Listed) = 0 + 1
    BY <2>2, <2>3, FS_AddElement
  <2> QED
    BY <1>2, <2>1, <2>4 DEF ListedInv
<1>6. \E at \in [Nodes -> Nat] : Placed(at) /\ Seen(at)
  <2>1. PICK at : at = [m \in Nodes |-> 1]
    OBVIOUS
  <2>2. at \in [Nodes -> Nat] /\ at[n] = 1 /\ Len(enq) = 0
    BY <1>2, <2>1
  <2>3. Placed(at) /\ Seen(at)
    BY <1>2, <2>2 DEF Placed, Seen
  <2> QED
    BY <2>2, <2>3
<1> QED
  BY <1>2, <1>3, <1>4, <1>5, <1>6 DEF FlowInv, Flow

\* With no call in progress every allocated node is in the list.
LEMMA IdleListed ==
  ASSUME TypeOK, Refs, Flow, \A t \in Threads : pc[t] = "idle"
  PROVE  live = Listed
<1>1. ASSUME NEW n \in live
      PROVE  n \in Listed
  <2>1. n \in Nodes /\ n # NULL
    BY NodesAssumption DEF TypeOK
  <2>2. Holders(n) = {} /\ TailFreers(n) = {} /\ HeadFreers(n) = {}
    BY DEF Holders, TailFreers, HeadFreers, Holding, TailHolding, HeadHolding
  <2>3. n \notin headLeft
    <3> SUFFICES ASSUME n \in headLeft
                 PROVE  FALSE
      OBVIOUS
    <3>1. n \in tailLeft
      BY DEF Refs, PtrInv
    <3>2. ~TailPending(n) /\ ~HeadPending(n)
      BY <2>2, <3>1 DEF TailPending, HeadPending
    <3>3. /\ external[n] = 0
          /\ TailSurplus(n) = {0} /\ HeadSurplus(n) = {0}
          /\ \A a \in TailSurplus(n),
               b \in HeadSurplus(n) : internal[n] + a + b = Cardinality(Holders(n))
      BY <3>2, Balance DEF Refs
    <3>4. internal[n] + 0 + 0 = Cardinality({})
      BY <2>2, <3>3
    <3>5. Cardinality({}) = 0
      BY FS_EmptySet
    <3>6. internal[n] = 0
      BY <2>1, <3>4, <3>5 DEF TypeOK
    <3> QED
      BY <3>3, <3>6 DEF Flow, ZeroInv
  <2>4. \A t \in Threads : mine[t] = NULL
    BY DEF Flow, MineInv
  <2>5. next[tail.ptr] = NULL
    BY DEF Flow, AheadInv
  <2>6. n \in tailLeft \/ n = tail.ptr
    BY <2>1, <2>4, <2>5 DEF Flow, WhereInv
  <2> QED
    BY <2>3, <2>6 DEF Listed
<1> QED
  BY <1>1 DEF Listed

\* With both ends on the same node nothing is queued.
LEMMA EndsMeet ==
  ASSUME TypeOK, Refs, Flow
  PROVE  deq <= Len(enq) /\ (head.ptr = tail.ptr <=> deq = Len(enq))
<1>1. PICK at \in [Nodes -> Nat] : Placed(at)
  BY DEF Flow
<1>2. at[head.ptr] = deq + 1 /\ at[tail.ptr] = Len(enq) + 1 /\ deq \in Nat /\ Len(enq) \in Nat
  BY <1>1 DEF Placed, TypeOK
<1>3. CASE head.ptr = tail.ptr
  BY <1>2, <1>3
<1>4. CASE head.ptr # tail.ptr
  <2>1. at[head.ptr] \in 1 .. Len(enq)
    BY <1>1, <1>4 DEF Placed, Refs, PtrInv
  <2> QED
    BY <1>2, <1>4, <2>1
<1> QED
  BY <1>3, <1>4

\* A step of a call, the destructor and stuttering keep FlowInv.
LEMMA FlowNext == FlowInv /\ [Next]_vars => FlowInv'
<1> SUFFICES ASSUME FlowInv, [Next]_vars
             PROVE  FlowInv'
  OBVIOUS
<1>0. Inv'
  BY NextInv DEF FlowInv
<1>1. ASSUME NEW t \in Threads, Step(t)
      PROVE  FlowInv'
  <2>1. TypeOK
    BY DEF FlowInv, Inv
  <2>2. pc[t] # "end" /\ pc'[t] # "end" /\ \A u \in Threads : u # t => pc'[u] = pc[u]
    BY <1>1, <2>1, EndStep
  <2>3. TypeOK /\ Refs /\ Flow /\ \A u \in Threads : pc[u] # "end"
    BY <2>2, Alive
  <2>4. Flow'
    BY <1>1, <2>3, FlowStep
  <2>5. \A u \in Threads : pc'[u] # "end"
    BY <2>2, <2>3
  <2> QED
    BY <1>0, <2>4, <2>5 DEF FlowInv
<1>2. CASE Destroy
  <2>1. /\ \A t \in Threads : pc[t] = "idle" /\ pc'[t] = "end"
        /\ head.ptr = tail.ptr /\ live' = live \ {head.ptr}
    BY <1>2 DEF Destroy, At
  <2>2. TypeOK /\ Refs /\ Flow
    BY <2>1, ThreadsAssumption, Alive
  <2>3. Listed = live
    BY <2>1, <2>2, IdleListed
  <2>4. deq = Len(enq) /\ Len(enq) \in Nat
    BY <2>1, <2>2, EndsMeet DEF TypeOK
  <2>5. IsFiniteSet(live) /\ Cardinality(live) = 1
    BY <2>2, <2>3, <2>4 DEF Flow, ListedInv
  <2>6. head.ptr \in live
    BY <2>2 DEF Refs, PtrInv
  <2>7. live = {head.ptr}
    BY <2>5, <2>6, Singleton
  <2>8. live' = {}
    BY <2>1, <2>7
  <2> QED
    BY <1>0, <2>1, <2>8 DEF FlowInv
<1>3. CASE UNCHANGED vars
  <2>1. UNCHANGED <<head, tail, live, data, next, internal, external, size, pc, old, mine, nxt,
       val, stored, mark, pushes, pops, done, enq, deq, tailLeft, headLeft>>
    BY <1>3 DEF vars, ptrs, mem, local, calls, log
  <2>2. ASSUME Flow
        PROVE  Flow'
    <3>1. /\ MineInv' /\ StoredInv' /\ ValInv' /\ StoreInv'
          /\ AheadInv' /\ WhereInv' /\ ZeroInv' /\ TakenInv'
      BY <2>1, <2>2 DEF Flow, MineInv, StoredInv, ValInv, StoreInv, AheadInv, WhereInv,
           ZeroInv, TakenInv
    <3>2. Listed' = Listed
      BY <2>1 DEF Listed
    <3>3. ListedInv'
      BY <2>1, <2>2, <3>2 DEF Flow, ListedInv
    <3>4. PICK at \in [Nodes -> Nat] : Placed(at) /\ Seen(at)
      BY <2>2 DEF Flow
    <3>5. Placed(at)' /\ Seen(at)'
      BY <2>1, <3>4 DEF Placed, Seen
    <3> QED
      BY <3>1, <3>3, <3>4, <3>5 DEF Flow
  <2> QED
    BY <1>0, <2>1, <2>2 DEF FlowInv
<1> QED
  BY <1>1, <1>2, <1>3 DEF Next

-----------------------------------------------------------------------------
\* The first half of FifoOnce: the k-th node the head passes hands its popper
\* the datum with which the tail passed its k-th node.
InOrder == \A t \in Threads : pc[t] \in {"free_head", "pop_stat"} => val[t] = enq[mark[t]]

\* Whatever uninitialised words the nodes start with, push and pop keep the
\* order: a pop returns what was in the queue longest.
THEOREM FirstOut == Spec => []InOrder
<1>1. FlowInv => InOrder
  BY Alive DEF Flow, TakenInv, InOrder
<1> QED
  BY <1>1, FlowInit, FlowNext, PTL DEF Spec

\* pop's test of the two ends is exact: they meet when, and only when, every
\* datum the tail has passed has been handed out.
THEOREM EmptyExact ==
  Spec => []((\E t \in Threads : pc[t] # "end") =>
               deq <= Len(enq) /\ (head.ptr = tail.ptr <=> deq = Len(enq)))
<1>1. FlowInv => ((\E t \in Threads : pc[t] # "end") =>
                    deq <= Len(enq) /\ (head.ptr = tail.ptr <=> deq = Len(enq)))
  BY Alive, EndsMeet
<1> QED
  BY <1>1, FlowInit, FlowNext, PTL DEF Spec

\* push, pop and the destructor leak no node.
THEOREM NoLeak == Spec => []NoNodeLeak
<1>1. FlowInv => NoNodeLeak
  <2> SUFFICES ASSUME FlowInv
               PROVE  NoNodeLeak
    OBVIOUS
  <2>1. ASSUME \A t \in Threads : At(t, "idle")
        PROVE  Cardinality(live) = Len(enq) - deq + 1
    <3>1. TypeOK /\ Refs /\ Flow /\ \A t \in Threads : pc[t] = "idle"
      BY <2>1, ThreadsAssumption, Alive DEF At
    <3> QED
      BY <3>1, IdleListed DEF Flow, ListedInv
  <2>2. ASSUME \A t \in Threads : At(t, "end")
        PROVE  live = {}
    BY <2>2, ThreadsAssumption DEF FlowInv, At
  <2> QED
    BY <2>1, <2>2 DEF NoNodeLeak
<1> QED
  BY <1>1, FlowInit, FlowNext, PTL DEF Spec

\* A pop that finds the queue empty has seen everything that was in it at its
\* call leave it, unless another pop succeeded meanwhile.
THEOREM Drained == Spec => EmptyMeansDrained
<1>1. FlowInv /\ [Next]_vars =>
        [\A t \in Threads :
           /\ pc[t] \in {"peek_head", "peek_tail", "drop_empty"}
           /\ pc'[t] = "idle"
           => deq >= mark[t]]_vars
  <2> SUFFICES ASSUME FlowInv, Next, NEW t \in Threads,
                      pc[t] \in {"peek_head", "peek_tail", "drop_empty"}, pc'[t] = "idle"
               PROVE  deq >= mark[t]
    OBVIOUS
  <2>1. TypeOK /\ Refs /\ Flow
    BY Alive
  <2>2. ~Destroy
    BY DEF Destroy, At
  <2>3. PICK s \in Threads : Step(s)
    BY <2>2 DEF Next
  <2>4. s = t
    BY <2>1, <2>3, OthersStep
  <2>5. PICK at \in [Nodes -> Nat] : Placed(at) /\ Seen(at)
    BY <2>1 DEF Flow
  <2>6. deq \in Nat /\ mark[t] \in Nat /\ Len(enq) \in Nat
    BY <2>1 DEF TypeOK
  <2>7. /\ mark[t] # 0 => Seen(at)!(t)
        /\ at[head.ptr] = deq + 1 /\ at[tail.ptr] = Len(enq) + 1
    BY <2>5 DEF Seen, Placed
  <2>8. CASE pc[t] = "drop_empty"
    BY <2>6, <2>7, <2>8
  <2>9. CASE pc[t] \in {"peek_head", "peek_tail"}
    <3>1. PopTest(t) \/ PopEnter(t)
      BY <2>1, <2>3, <2>4, <2>9, Moves DEF Step
    <3>2. ~PopEnter(t)
      BY <2>1 DEF PopEnter, Goto, TypeOK
    <3>3. nxt[t] = IF pc[t] = "peek_head" THEN tail.ptr ELSE head.ptr
      BY <3>1, <3>2 DEF PopTest, SameEnds, At
    <3> QED
      BY <2>6, <2>7, <2>9, <3>3 DEF Searching
  <2> QED
    BY <2>8, <2>9
<1> QED
  BY <1>1, FlowInit, FlowNext, PTL DEF Spec, EmptyMeansDrained

-----------------------------------------------------------------------------
\* No value is twice in the queue, while the queue exists and after it.
LEMMA OnceInit == ASSUME FreshData \cap Values = {} PROVE Init => OnceInv
<1> SUFFICES ASSUME Init
             PROVE  OnceInv
  OBVIOUS
<1>1. PICK n \in Nodes :
        /\ live = {n}
        /\ \E d \in FreshData : data = [m \in Nodes |-> IF m = n THEN d ELSE NULL]
  BY DEF Init
<1>2. data[n] \in FreshData /\ Len(enq) = 0 /\ \A t \in Threads : pc[t] = "idle"
  BY <1>1 DEF Init
<1>3. \A t \in Threads : ~Carrying(t)
  BY <1>2 DEF Carrying, TailHolding
<1> QED
  BY <1>1, <1>2, <1>3 DEF OnceInv

\* Every step keeps each value in one place, if nothing else looks like one.
LEMMA OnceNext ==
  ASSUME FreshData \cap Values = {}
  PROVE  FlowInv /\ OnceInv /\ [Next]_vars => OnceInv'
<1> SUFFICES ASSUME FlowInv, OnceInv, [Next]_vars
             PROVE  OnceInv'
  OBVIOUS
<1>1. ASSUME NEW t \in Threads, Step(t)
      PROVE  OnceInv'
  <2>1. pc[t] # "end"
    BY <1>1, EndStep DEF FlowInv, Inv
  <2>2. TypeOK /\ Refs /\ Flow
    BY <2>1, Alive
  <2> QED
    BY <1>1, <2>2, OnceStep DEF Flow
<1>2. CASE Destroy
  <2>1. /\ live' \subseteq live /\ UNCHANGED <<data, enq, tailLeft, pushes>>
        /\ \A t \in Threads : pc'[t] = "end"
    BY <1>2 DEF Destroy, calls, log
  <2>2. \A t \in Threads : ~Carrying(t)'
    BY <2>1 DEF Carrying, TailHolding
  <2> QED
    BY <2>1, <2>2 DEF OnceInv
<1>3. CASE UNCHANGED vars
  BY <1>3 DEF vars, mem, local, calls, log, OnceInv, Carrying
<1> QED
  BY <1>1, <1>2, <1>3 DEF Next

\* First in, first out, and no value enters the queue twice, provided that an
\* uninitialised word of a new node is not the address of a pushed datum.
THEOREM Fifo ==
  ASSUME FreshData \cap Values = {}
  PROVE  Spec => []FifoOnce
<1>1. FlowInv /\ OnceInv => FifoOnce
  BY Alive DEF Flow, TakenInv, OnceInv, FifoOnce
<1>2. Init => FlowInv /\ OnceInv
  BY FlowInit, OnceInit
<1>3. FlowInv /\ OnceInv /\ [Next]_vars => (FlowInv /\ OnceInv)'
  BY FlowNext, OnceNext
<1> QED
  BY <1>1, <1>2, <1>3, PTL DEF Spec

-----------------------------------------------------------------------------
(* A queue with one pusher loses nothing: the lost push needs two pushes     *)
(* that meet at the tail.                                                    *)

\* A lone push stays on the tail's node until it moves the tail itself, so the
\* datum it stored there is the one that enters the queue.
LoneInv ==
  /\ \A t \in Threads : pc[t] \in Pushing => t \in Pushers
  /\ \A t \in Threads : pc[t] \in {"cas_data", "cas_next", "set_tail"} => old[t].ptr = tail.ptr
  /\ \A t \in Threads :
       stored[t] /\ pc[t] \in {"cas_next", "set_tail"} => data[old[t].ptr] = val[t]
  /\ \A t \in Threads :
       stored[t] /\ pc[t] \in {"free_tail", "drop_tail", "push_stat"} =>
         \E i \in 1 .. Len(enq) : enq[i] = val[t]
  /\ \A t \in Threads : pc[t] = "push_stat" => stored[t]
  /\ NoLostPush

\* Every step of a call keeps it.
LEMMA LoneStep ==
  ASSUME \A a, b \in Pushers : a = b, TypeOK, Refs, Flow, LoneInv, NEW t \in Threads, Step(t)
  PROVE  LoneInv'
<1>0. /\ Len(enq) \in Nat /\ Len(enq') \in Nat /\ Len(enq') >= Len(enq)
      /\ \A i \in 1 .. Len(enq) : enq'[i] = enq[i]
  BY EnqGrows DEF Flow
<1>1. \A v : (\E i \in 1 .. Len(enq) : enq[i] = v) => \E i \in 1 .. Len(enq') : enq'[i] = v
  BY <1>0
<1>2. ASSUME NEW u \in Threads, pc'[u] \in Pushing
      PROVE  u \in Pushers
  <2>1. CASE u # t
    BY <1>2, <2>1, OthersStep DEF LoneInv
  <2>2. CASE u = t
    <3>1. PushCall(t) \/ pc[t] \in Pushing
      <4>1. CASE FreeExternal(t) \/ ReleaseRef(t)
        <5>1. pc'[t] = AfterCount(t)
          BY <4>1 DEF FreeExternal, ReleaseRef, Goto, TypeOK
        <5> QED
          BY <1>2, <2>2, <4>1, <5>1 DEF FreeExternal, ReleaseRef, AfterCount, Again, Pushing,
               TailHolding
      <4>2. CASE ~FreeExternal(t) /\ ~ReleaseRef(t)
        BY <1>2, <2>2, <4>2, Moves DEF Step, Pushing, TailHolding
      <4> QED
        BY <4>1, <4>2
    <3> QED
      BY <2>2, <3>1 DEF PushCall, LoneInv
  <2> QED
    BY <2>1, <2>2
<1>3. ASSUME NEW u \in Threads, u # t, pc[u] \in Pushing
      PROVE  /\ tail'.ptr = tail.ptr /\ ~IncTail(t) /\ ~CasData(t) /\ ~SetNewTail(t)
  <2>1. pc[t] \notin Pushing
    BY <1>3 DEF LoneInv
  <2>2. ~IncTail(t) /\ ~CasData(t) /\ ~CasNext(t) /\ ~SetNewTail(t)
    BY <2>1 DEF IncTail, CasData, CasNext, SetNewTail, At, Pushing, TailHolding
  <2>3. CASE PushCall(t) \/ CasHead(t)
    BY <2>2, <2>3 DEF PushCall, CasHead, ptrs
  <2>4. CASE ~PushCall(t) /\ ~CasHead(t)
    BY <2>2, <2>4, StillStep DEF Still
  <2> QED
    BY <2>2, <2>3, <2>4
<1>4. ASSUME NEW u \in Threads, pc'[u] \in {"cas_data", "cas_next", "set_tail"}
      PROVE  old'[u].ptr = tail'.ptr
  <2>1. CASE u # t
    BY <1>3, <1>4, <2>1, OthersStep DEF LoneInv, Pushing, TailHolding
  <2>2. CASE u = t /\ IncTail(t)
    BY <2>2 DEF IncTail, Counted, TypeOK
  <2>3. CASE u = t /\ (CasData(t) \/ CasNext(t))
    BY <2>3 DEF CasData, CasNext, At, ptrs, LoneInv
  <2>4. CASE u = t /\ ~IncTail(t) /\ ~CasData(t) /\ ~CasNext(t)
    <3>1. pc'[t] \notin {"cas_data", "cas_next", "set_tail"}
      BY <2>4, Moves DEF Step
    <3> QED
      BY <1>4, <2>4, <3>1
  <2> QED
    BY <2>1, <2>2, <2>3, <2>4
<1>5. ASSUME NEW u \in Threads, stored[u], pc[u] \in {"cas_next", "set_tail"}
      PROVE  data'[old[u].ptr] = val[u]
  <2>1. old[u].ptr = tail.ptr /\ data[old[u].ptr] = val[u]
    BY <1>5 DEF LoneInv
  <2>2. tail.ptr \in live /\ tail.ptr \notin headLeft /\ tail.ptr \notin tailLeft
    BY DEF Refs, PtrInv
  <2>3. data[old[u].ptr] # NULL
    BY <1>5, <2>1, <2>2 DEF Flow, StoreInv
  <2>4. ~(Take(t) /\ old[u].ptr = old[t].ptr)
    BY <2>1, <2>2 DEF Take, At, Refs, FreerInv
  <2> QED
    BY <2>1, <2>2, <2>3, <2>4, DataKept
<1>6. ASSUME NEW u \in Threads, stored'[u], pc'[u] \in {"cas_next", "set_tail"}
      PROVE  data'[old'[u].ptr] = val'[u]
  <2>1. CASE u # t
    BY <1>5, <1>6, <2>1, OthersStep
  <2>2. CASE u = t /\ CasData(t)
    <3>1. old[t].ptr \in Nodes
      BY <2>2 DEF CasData, At, Refs, HoldInv, TypeOK, Holding, TailHolding
    <3> QED
      BY <1>6, <2>2, <3>1 DEF CasData, TypeOK
  <2>3. CASE u = t /\ CasNext(t)
    BY <1>5, <1>6, <2>3 DEF CasNext, At
  <2>4. CASE u = t /\ ~CasData(t) /\ ~CasNext(t)
    <3>1. pc'[t] \notin {"cas_next", "set_tail"}
      BY <2>4, Moves DEF Step
    <3> QED
      BY <1>6, <2>4, <3>1
  <2> QED
    BY <2>1, <2>2, <2>3, <2>4
<1>7. ASSUME NEW u \in Threads, stored'[u], pc'[u] \in {"free_tail", "drop_tail", "push_stat"}
      PROVE  \E i \in 1 .. Len(enq') : enq'[i] = val'[u]
  <2>1. CASE u # t
    <3>1. stored[u] /\ pc[u] \in {"free_tail", "drop_tail", "push_stat"} /\ val'[u] = val[u]
      BY <1>7, <2>1, OthersStep
    <3>2. \E i \in 1 .. Len(enq) : enq[i] = val[u]
      BY <3>1 DEF LoneInv
    <3> QED
      BY <1>1, <3>1, <3>2
  <2>2. CASE u = t /\ SetNewTail(t)
    <3>1. /\ pc[t] = "set_tail" /\ stored[t] /\ val' = val
      BY <1>7, <2>2 DEF SetNewTail, At
    <3>2. tail.ptr = old[t].ptr /\ data[tail.ptr] = val[t]
      BY <3>1 DEF LoneInv
    <3>3. enq' = Append(enq, val[t])
      BY <2>2, <3>2 DEF SetNewTail
    <3>4. Len(enq') = Len(enq) + 1 /\ enq'[Len(enq) + 1] = val[t]
      BY <3>3 DEF TypeOK
    <3>5. Len(enq) + 1 \in 1 .. Len(enq')
      BY <1>0, <3>4
    <3> QED
      BY <2>2, <3>1, <3>4, <3>5
  <2>3. CASE u = t /\ (FreeExternal(t) \/ ReleaseRef(t))
    <3>1. pc'[t] = AfterCount(t) /\ stored' = stored /\ val' = val
      BY <2>3 DEF FreeExternal, ReleaseRef, Goto, TypeOK, local
    <3>2. pc[t] \in {"free_tail", "drop_tail"}
      BY <1>7, <2>3, <3>1 DEF FreeExternal, ReleaseRef, AfterCount, Again
    <3> QED
      BY <1>1, <1>7, <2>3, <3>1, <3>2 DEF LoneInv
  <2>4. CASE u = t /\ ~SetNewTail(t) /\ ~FreeExternal(t) /\ ~ReleaseRef(t)
    <3>1. pc'[t] \notin {"free_tail", "drop_tail", "push_stat"}
      BY <2>4, Moves DEF Step
    <3> QED
      BY <1>7, <2>4, <3>1
  <2> QED
    BY <2>1, <2>2, <2>3, <2>4
<1>8. ASSUME NEW u \in Threads, pc'[u] = "push_stat"
      PROVE  stored'[u]
  <2>1. CASE u # t
    BY <1>8, <2>1, OthersStep DEF LoneInv
  <2>2. CASE u = t /\ (FreeExternal(t) \/ ReleaseRef(t))
    <3>1. pc'[t] = AfterCount(t) /\ stored' = stored
      BY <2>2 DEF FreeExternal, ReleaseRef, Goto, TypeOK, local
    <3> QED
      BY <1>8, <2>2, <3>1 DEF FreeExternal, ReleaseRef, AfterCount, Again
  <2>3. CASE u = t /\ ~FreeExternal(t) /\ ~ReleaseRef(t)
    <3>1. pc'[t] # "push_stat"
      BY <2>3, Moves DEF Step
    <3> QED
      BY <1>8, <2>3, <3>1
  <2> QED
    BY <2>1, <2>2, <2>3
<1>9. NoLostPush'
  <2>1. CASE PushReturn(t)
    <3>1. pc[t] = "push_stat" /\ done' = done \cup {val[t]} /\ enq' = enq
      BY <2>1 DEF PushReturn, At, log
    <3>2. \E i \in 1 .. Len(enq) : enq[i] = val[t]
      BY <3>1 DEF LoneInv
    <3> QED
      BY <3>1, <3>2 DEF LoneInv, NoLostPush
  <2>2. CASE ~PushReturn(t)
    <3>1. done' = done
      BY <2>2 DEF Step, PushCall, IncTail, CasData, CasNext, SetNewTail, PopCall, PopTest,
           PopEnter, IncHead, PopAtTail, LoadNext, CasHead, Take, PopReturn, FreeExternal,
           ReleaseRef, ReleaseEmpty, calls
    <3> QED
      BY <1>1, <3>1 DEF LoneInv, NoLostPush
  <2> QED
    BY <2>1, <2>2
<1> QED
  BY <1>2, <1>4, <1>6, <1>7, <1>8, <1>9 DEF LoneInv

\* With one pusher, whatever the poppers do, every value whose push has returned
\* has entered the queue: the lost push needs a second push that helps the tail on.
THEOREM OnePusherLosesNothing ==
  ASSUME \A a, b \in Pushers : a = b
  PROVE  Spec => []NoLostPush
<1>1. Init => FlowInv /\ LoneInv
  <2> SUFFICES ASSUME Init
               PROVE  FlowInv /\ LoneInv
    OBVIOUS
  <2>1. \A t \in Threads : pc[t] = "idle"
    BY DEF Init
  <2>2. done = {}
    BY DEF Init
  <2> QED
    BY <2>1, <2>2, FlowInit DEF LoneInv, Pushing, TailHolding, NoLostPush
<1>2. FlowInv /\ LoneInv /\ [Next]_vars => (FlowInv /\ LoneInv)'
  <2> SUFFICES ASSUME FlowInv, LoneInv, [Next]_vars
               PROVE  LoneInv'
    BY FlowNext
  <2>1. ASSUME NEW t \in Threads, Step(t)
        PROVE  LoneInv'
    <3>1. pc[t] # "end"
      BY <2>1, EndStep DEF FlowInv, Inv
    <3>2. TypeOK /\ Refs /\ Flow
      BY <3>1, Alive
    <3> QED
      BY <2>1, <3>2, LoneStep
  <2>2. CASE Destroy
    BY <2>2 DEF Destroy, calls, log, LoneInv, NoLostPush, Pushing, TailHolding
  <2>3. CASE UNCHANGED vars
    BY <2>3 DEF vars, ptrs, mem, local, calls, log, LoneInv, NoLostPush
  <2> QED
    BY <2>1, <2>2, <2>3 DEF Next
<1>3. LoneInv => NoLostPush
  BY DEF LoneInv
<1> QED
  BY <1>1, <1>2, <1>3, PTL DEF Spec

=============================================================================
