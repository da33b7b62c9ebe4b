------------------------------ MODULE LFQueue ------------------------------
(***************************************************************************)
(* The lock-free queue of thread_safe/lockfree_queue.hpp, one action per   *)
(* atomic operation that other threads can observe.                        *)
(*                                                                         *)
(* A counted_node_ptr (48 bits of pointer, 16 bits of external count) is a *)
(* record [ptr, cnt].  A node's node_counter is the pair internal[n],      *)
(* external[n]; internal is a 30-bit field that wraps below zero and back, *)
(* which the integers model exactly while |Threads| and CountMax are below *)
(* 2^30.  A compare-exchange loop whose only effect is its last, successful*)
(* iteration is one step.                                                  *)
(*                                                                         *)
(* runnableQueue_ and waiterQueue_ are pushed and popped by any thread;    *)
(* ioQueue_ is pushed by any and popped by IOSubmitThread only.            *)
(***************************************************************************)
EXTENDS Integers, FiniteSets, Sequences

CONSTANTS
  Pushers,    \* threads that call push
  Poppers,    \* threads that call pop (the two sets may overlap)
  Nodes,      \* addresses the allocator can hand out (freed ones are reused)
  NULL,       \* the null pointer
  Junk,       \* non-null words a fresh node's uninitialised `data` may hold
  MaxPush,    \* bound: calls of push
  MaxPop,     \* bound: calls of pop
  CountMax    \* bound: largest external count (65535 in the code)

Threads == Pushers \cup Poppers

ASSUME ThreadsAssumption == IsFiniteSet(Threads) /\ Threads # {}
ASSUME NodesAssumption   == Nodes # {} /\ NULL \notin Nodes
ASSUME BoundsAssumption  == MaxPush \in Nat /\ MaxPop \in Nat /\ CountMax \in Nat \ {0}

\* Values are numbered by the push call that brings them: the k-th call
\* pushes k.
Values == 1 .. MaxPush
FreshData == {NULL} \cup Junk

\* Every caller of push passes a datum, never an empty unique_ptr.
ASSUME DatumAssumption == NULL \notin Values

VARIABLES
  head, tail,           \* the two std::atomic<counted_node_ptr>
  live,                 \* nodes allocated and not deleted
  data, next,           \* node::data, node::next (its count is always 1)
  internal, external,   \* node::count
  size,                 \* LFQueue::size
  pc,                   \* where each thread is
  old,                  \* old_tail / old_head of the call in progress
  mine,                 \* the node new_next points at
  nxt,                  \* old_next / next; the word loaded first by pop's test
  val,                  \* new_data of a push, res of a pop
  stored,               \* the data compare-exchange of this push succeeded
  pushes, pops,         \* calls made so far
  enq,                  \* history: data in the order the tail passed it
  deq,                  \* history: how many nodes the head has passed
  mark,                 \* history: Len(enq) when this pop began, 0 once another
                        \* pop has passed a node since; then the pop's ticket
  done,                 \* history: values whose push has returned
  tailLeft, headLeft    \* history: live nodes the tail / the head has passed

ptrs  == <<head, tail>>
mem   == <<live, data, next, internal, external>>
local == <<old, mine, nxt, val, stored, mark>>
calls == <<pushes, pops, done>>
log   == <<enq, deq, tailLeft, headLeft>>
vars  == <<ptrs, mem, size, pc, local, calls, log>>

Goto(t, l) == pc' = [pc EXCEPT ![t] = l]
At(t, l)   == pc[t] = l

\* SET_PTR / SET_COUNT: a counted pointer.
Counted(n, c) == [ptr |-> n, cnt |-> c]

-----------------------------------------------------------------------------
\* new node(): counters 0 and 2, null next; `data` keeps what the memory held.
NewNode(n) ==
  /\ n \in Nodes \ live
  /\ live' = live \cup {n}
  /\ \E d \in FreshData : data' = [data EXCEPT ![n] = d]
  /\ internal' = [internal EXCEPT ![n] = 0]
  /\ external' = [external EXCEPT ![n] = 2]
  /\ tailLeft' = tailLeft \ {n}
  /\ headLeft' = headLeft \ {n}

\* The exchange on node::count that ends release_ref and
\* free_external_counter, and the `delete` when both counters reach zero.
SetCount(n, i, e) ==
  /\ internal' = [internal EXCEPT ![n] = i]
  /\ external' = [external EXCEPT ![n] = e]
  /\ live' = IF i = 0 /\ e = 0 THEN live \ {n} ELSE live

Init ==
  /\ \E n \in Nodes :
       /\ head = Counted(n, 1)
       /\ tail = Counted(n, 1)
       /\ live = {n}
       /\ \E d \in FreshData : data = [m \in Nodes |-> IF m = n THEN d ELSE NULL]
  /\ next = [n \in Nodes |-> NULL]
  /\ internal = [n \in Nodes |-> 0]
  /\ external = [n \in Nodes |-> 2]
  /\ size = 0
  /\ pc = [t \in Threads |-> "idle"]
  /\ old = [t \in Threads |-> Counted(NULL, 0)]
  /\ mine = [t \in Threads |-> NULL]
  /\ nxt = [t \in Threads |-> NULL]
  /\ val = [t \in Threads |-> NULL]
  /\ stored = [t \in Threads |-> FALSE]
  /\ pushes = 0
  /\ pops = 0
  /\ enq = <<>>
  /\ deq = 0
  /\ mark = [t \in Threads |-> 0]
  /\ done = {}
  /\ tailLeft = {}
  /\ headLeft = {}

\* A call returns: its locals are gone.
Return(t) ==
  /\ Goto(t, "idle")
  /\ old' = [old EXCEPT ![t] = Counted(NULL, 0)]
  /\ mine' = [mine EXCEPT ![t] = NULL]
  /\ nxt' = [nxt EXCEPT ![t] = NULL]
  /\ val' = [val EXCEPT ![t] = NULL]
  /\ stored' = [stored EXCEPT ![t] = FALSE]
  /\ mark' = [mark EXCEPT ![t] = 0]

-----------------------------------------------------------------------------
(* push *)

\* push(): the fresh node new_next is allocated before the loop.
PushCall(t) ==
  /\ t \in Pushers
  /\ At(t, "idle")
  /\ pushes < MaxPush
  /\ pushes' = pushes + 1
  /\ val' = [val EXCEPT ![t] = pushes + 1]
  /\ \E n \in Nodes :
       /\ NewNode(n)
       /\ next' = [next EXCEPT ![n] = NULL]
       /\ mine' = [mine EXCEPT ![t] = n]
  /\ Goto(t, "inc_tail")
  /\ UNCHANGED <<ptrs, size, old, nxt, stored, mark, pops, done, enq, deq>>

\* increase_external_count(tail, old_tail).
IncTail(t) ==
  /\ At(t, "inc_tail")
  /\ tail.cnt < CountMax
  /\ tail' = Counted(tail.ptr, tail.cnt + 1)
  /\ old' = [old EXCEPT ![t] = tail']
  /\ Goto(t, "cas_data")
  /\ UNCHANGED <<head, mem, size, mine, nxt, val, stored, mark, calls, log>>

\* Mutant of Vacant: the datum is stored without comparing with null.
VacantBlind(n) == TRUE

Vacant(n) == data[n] = NULL

\* The compare-exchange of node::data from null to new_data.
CasData(t) ==
  /\ At(t, "cas_data")
  /\ LET n == old[t].ptr IN
       /\ stored' = [stored EXCEPT ![t] = Vacant(n)]
       /\ data' = [data EXCEPT ![n] = IF Vacant(n) THEN val[t] ELSE @]
  /\ Goto(t, "cas_next")
  /\ UNCHANGED <<ptrs, live, next, internal, external, size,
                 old, mine, nxt, val, mark, calls, log>>

\* Mutant of Spare: the loser forgets to delete it.
SpareKept(t) == {}

\* The node a push no longer needs when another one has linked its own.
Spare(t) == IF stored[t] THEN {mine[t]} ELSE {}

\* The compare-exchange of node::next from null to new_next: both arms of
\* the `if`.  A push that stored its data deletes the node it no longer
\* needs when it loses; one that did not allocates another when it wins.
CasNext(t) ==
  /\ At(t, "cas_next")
  /\ LET n == old[t].ptr IN
       \/ /\ next[n] = NULL
          /\ nxt' = [nxt EXCEPT ![t] = mine[t]]
          /\ \/ /\ stored[t]
                /\ next' = [next EXCEPT ![n] = mine[t]]
                /\ mine' = [mine EXCEPT ![t] = NULL]
                /\ UNCHANGED <<live, data, internal, external, tailLeft, headLeft>>
             \/ /\ ~stored[t]
                /\ \E m \in Nodes :
                     /\ NewNode(m)
                     /\ next' = [next EXCEPT ![n] = mine[t], ![m] = NULL]
                     /\ mine' = [mine EXCEPT ![t] = m]
       \/ /\ next[n] # NULL
          /\ nxt' = [nxt EXCEPT ![t] = next[n]]
          /\ live' = live \ Spare(t)
          /\ mine' = [mine EXCEPT ![t] = IF stored[t] THEN NULL ELSE @]
          /\ UNCHANGED <<data, next, internal, external, tailLeft, headLeft>>
  /\ Goto(t, "set_tail")
  /\ UNCHANGED <<ptrs, size, old, val, stored, mark, calls, enq, deq>>

\* set_new_tail(): whoever still finds the tail on its node moves it on and
\* takes over the tail's external count; the others only drop a reference.
SetNewTail(t) ==
  /\ At(t, "set_tail")
  /\ LET n == old[t].ptr IN
       \/ /\ tail.ptr = n
          /\ old' = [old EXCEPT ![t] = tail]
          /\ tail' = Counted(nxt[t], 1)
          /\ tailLeft' = tailLeft \cup {n}
          /\ enq' = Append(enq, data[n])
          /\ Goto(t, "free_tail")
       \/ /\ tail.ptr # n
          /\ Goto(t, "drop_tail")
          /\ UNCHANGED <<old, tail, tailLeft, enq>>
  /\ nxt' = [nxt EXCEPT ![t] = NULL]
  /\ UNCHANGED <<head, mem, size, mine, val, stored, mark, calls, deq, headLeft>>

\* push_count and size are incremented, push() returns.
PushReturn(t) ==
  /\ At(t, "push_stat")
  /\ size' = size + 1
  /\ done' = done \cup {val[t]}
  /\ Return(t)
  /\ UNCHANGED <<ptrs, mem, pushes, pops, log>>

-----------------------------------------------------------------------------
(* pop *)

\* The test `GET_PTR(head.load()) == GET_PTR(tail.load())` at the top of pop:
\* C++ leaves the order of the two loads open.
PopCall(t) ==
  /\ t \in Poppers
  /\ At(t, "idle")
  /\ pops < MaxPop
  /\ pops' = pops + 1
  /\ mark' = [mark EXCEPT ![t] = Len(enq)]
  /\ \/ Goto(t, "peek_head") /\ nxt' = [nxt EXCEPT ![t] = head.ptr]
     \/ Goto(t, "peek_tail") /\ nxt' = [nxt EXCEPT ![t] = tail.ptr]
  /\ UNCHANGED <<ptrs, mem, size, old, mine, val, stored, pushes, done, log>>

\* Mutant of SameEnds: emptiness is judged by the size counter.
SameEndsBySize(t) == size <= 0

\* Both words are equal: the one loaded first and the other one now.
SameEnds(t) == nxt[t] = IF At(t, "peek_head") THEN tail.ptr ELSE head.ptr

\* pop returns an empty unique_ptr.
PopTest(t) ==
  /\ pc[t] \in {"peek_head", "peek_tail"} /\ SameEnds(t)
  /\ Return(t)
  /\ UNCHANGED <<ptrs, mem, size, calls, log>>

PopEnter(t) ==
  /\ pc[t] \in {"peek_head", "peek_tail"} /\ ~SameEnds(t)
  /\ nxt' = [nxt EXCEPT ![t] = NULL]
  /\ Goto(t, "inc_head")
  /\ UNCHANGED <<ptrs, mem, size, old, mine, val, stored, mark, calls, log>>

\* increase_external_count(head, old_head).
IncHead(t) ==
  /\ At(t, "inc_head")
  /\ head.cnt < CountMax
  /\ head' = Counted(head.ptr, head.cnt + 1)
  /\ old' = [old EXCEPT ![t] = head']
  /\ Goto(t, "chk_tail")
  /\ UNCHANGED <<tail, mem, size, mine, nxt, val, stored, mark, calls, log>>

\* Mutant of AtTail: the second test against the tail is dropped.
AtTailNever(t) == FALSE

\* `if(ptr==GET_PTR(tail.load()))`.
AtTail(t) == old[t].ptr = tail.ptr

PopAtTail(t) ==
  /\ At(t, "chk_tail")
  /\ Goto(t, IF AtTail(t) THEN "drop_empty" ELSE "load_next")
  /\ UNCHANGED <<ptrs, mem, size, local, calls, log>>

LoadNext(t) ==
  /\ At(t, "load_next")
  /\ nxt' = [nxt EXCEPT ![t] = next[old[t].ptr]]
  /\ Goto(t, "cas_head")
  /\ UNCHANGED <<ptrs, mem, size, old, mine, val, stored, mark, calls, log>>

\* Where a pop has not passed a node yet.
Searching == {"peek_head", "peek_tail", "inc_head", "chk_tail", "load_next", "cas_head",
              "drop_head", "drop_empty"}

\* head.compare_exchange_strong(old_head, next) compares pointer and count.
CasHead(t) ==
  /\ At(t, "cas_head")
  /\ \/ /\ head = old[t]
        /\ head' = Counted(nxt[t], 1)
        /\ deq' = deq + 1
        /\ mark' = [u \in Threads |-> IF u = t THEN deq + 1
                                      ELSE IF pc[u] \in Searching THEN 0 ELSE mark[u]]
        /\ headLeft' = headLeft \cup {old[t].ptr}
        /\ Goto(t, "take")
     \/ /\ head # old[t]
        /\ Goto(t, "drop_head")
        /\ UNCHANGED <<head, deq, mark, headLeft>>
  /\ nxt' = [nxt EXCEPT ![t] = NULL]
  /\ UNCHANGED <<tail, mem, size, old, mine, val, stored, calls, enq, tailLeft>>

\* ptr->data.exchange(nullptr).
Take(t) ==
  /\ At(t, "take")
  /\ val' = [val EXCEPT ![t] = data[old[t].ptr]]
  /\ data' = [data EXCEPT ![old[t].ptr] = NULL]
  /\ Goto(t, "free_head")
  /\ UNCHANGED <<ptrs, live, next, internal, external, size,
                 old, mine, nxt, stored, mark, calls, log>>

\* pop_count and size are updated, pop() returns the value.
PopReturn(t) ==
  /\ At(t, "pop_stat")
  /\ size' = size - 1
  /\ Return(t)
  /\ UNCHANGED <<ptrs, mem, calls, log>>

-----------------------------------------------------------------------------
(* Reference counting, shared by push and pop *)

\* Mutant of Again: a pop that lost the head does not count itself again.
AgainHoisted == "chk_tail"

\* The top of pop's loop.
Again == "inc_head"

\* Where the caller goes on: a push that has stored its data is finished, one
\* that has not tries again; so does a pop that lost the head.
AfterCount(t) ==
  CASE pc[t] \in {"free_tail", "drop_tail"} ->
         IF stored[t] THEN "push_stat" ELSE "inc_tail"
    [] pc[t] = "free_head" -> "pop_stat"
    [] OTHER -> Again

\* Mutant of CountIncrease: only the pointer's own reference is subtracted.
CountIncreaseMinusOne(t) == old[t].cnt - 1

\* count_increase.
CountIncrease(t) == old[t].cnt - 2

\* free_external_counter(old): the external count less 2 goes to the
\* internal one, and one external counter is gone.
FreeExternal(t) ==
  /\ pc[t] \in {"free_tail", "free_head"}
  /\ LET n == old[t].ptr IN
       SetCount(n, internal[n] + CountIncrease(t), external[n] - 1)
  /\ Goto(t, AfterCount(t))
  /\ UNCHANGED <<ptrs, data, next, size, local, calls, log>>

\* node::release_ref() by a thread that goes on with its call.
ReleaseRef(t) ==
  /\ pc[t] \in {"drop_tail", "drop_head"}
  /\ LET n == old[t].ptr IN SetCount(n, internal[n] - 1, external[n])
  /\ Goto(t, AfterCount(t))
  /\ UNCHANGED <<ptrs, data, next, size, local, calls, log>>

\* release_ref() and `return std::unique_ptr<T>()` of a pop at the tail.
ReleaseEmpty(t) ==
  /\ At(t, "drop_empty")
  /\ LET n == old[t].ptr IN SetCount(n, internal[n] - 1, external[n])
  /\ Return(t)
  /\ UNCHANGED <<ptrs, data, next, size, calls, log>>

\* ~LFQueue(): with every other user gone, the pops of `while(pop())` are
\* ordinary calls; what is left is the head node.
Destroy ==
  /\ \A t \in Threads : At(t, "idle")
  /\ head.ptr = tail.ptr
  /\ live' = live \ {head.ptr}
  /\ pc' = [t \in Threads |-> "end"]
  /\ UNCHANGED <<ptrs, data, next, internal, external, size, local, calls, log>>

Step(t) ==
  \/ PushCall(t) \/ IncTail(t) \/ CasData(t) \/ CasNext(t) \/ SetNewTail(t)
  \/ PushReturn(t)
  \/ PopCall(t) \/ PopTest(t) \/ PopEnter(t) \/ IncHead(t) \/ PopAtTail(t)
  \/ LoadNext(t) \/ CasHead(t) \/ Take(t) \/ PopReturn(t)
  \/ FreeExternal(t) \/ ReleaseRef(t) \/ ReleaseEmpty(t)

Next == Destroy \/ \E t \in Threads : Step(t)

Spec == Init /\ [][Next]_vars
-----------------------------------------------------------------------------
(* Properties *)

\* Program counters at which a thread holds a counted reference to old[t].ptr
\* and will still read or write that node.
TailHolding == {"cas_data", "cas_next", "set_tail", "free_tail", "drop_tail"}
HeadHolding == {"chk_tail", "load_next", "cas_head", "take", "free_head",
                "drop_head", "drop_empty"}
Holding == TailHolding \cup HeadHolding

Word == Nodes \cup {NULL}
Datum == Values \cup FreshData

\* Every variable stays in the range of the C++ field it stands for.
TypeOK ==
  /\ head \in [ptr : Nodes, cnt : 1 .. CountMax]
  /\ tail \in [ptr : Nodes, cnt : 1 .. CountMax]
  /\ live \subseteq Nodes
  /\ data \in [Nodes -> Datum]
  /\ next \in [Nodes -> Word]
  /\ internal \in [Nodes -> Int]
  /\ external \in [Nodes -> 0 .. 2]
  /\ size \in Int
  /\ pc \in [Threads -> Holding \cup {"idle", "inc_tail", "push_stat", "peek_head",
                                      "peek_tail", "inc_head", "pop_stat", "end"}]
  /\ old \in [Threads -> [ptr : Word, cnt : 0 .. CountMax]]
  /\ mine \in [Threads -> Word]
  /\ nxt \in [Threads -> Word]
  /\ val \in [Threads -> Datum]
  /\ stored \in [Threads -> BOOLEAN]
  /\ pushes \in 0 .. MaxPush
  /\ pops \in 0 .. MaxPop
  /\ enq \in Seq(Datum)
  /\ deq \in Nat
  /\ mark \in [Threads -> Nat]
  /\ done \subseteq Datum
  /\ tailLeft \subseteq Nodes
  /\ headLeft \subseteq Nodes

\* No thread reads, writes or deletes a node after it was deleted: every
\* reference taken by increase_external_count keeps its node alive until the
\* matching release_ref or free_external_counter, a push owns its new node,
\* and the queue's own two pointers are never dangling.
NoUseAfterFree ==
  /\ \A t \in Threads :
       /\ pc[t] \in Holding => old[t].ptr \in live
       /\ mine[t] # NULL => mine[t] \in live
  /\ (\E t \in Threads : pc[t] # "end") => head.ptr \in live /\ tail.ptr \in live

\* Nothing is leaked: when no call is in progress the nodes still allocated
\* are the ones between head and tail (one per value still queued, plus the
\* dummy), and after the destructor none is left.
NoNodeLeak ==
  /\ (\A t \in Threads : At(t, "idle")) => Cardinality(live) = Len(enq) - deq + 1
  /\ (\A t \in Threads : At(t, "end")) => live = {}

\* First in, first out: the k-th node the head passes hands its popper the
\* datum of the k-th node the tail passed, whoever the pushers, helpers and
\* poppers were, and no pushed value enters the queue twice.
FifoOnce ==
  /\ \A t \in Threads : pc[t] \in {"free_head", "pop_stat"} => val[t] = enq[mark[t]]
  /\ \A i, j \in 1 .. Len(enq) : i # j /\ enq[i] = enq[j] => enq[i] \notin Values

\* A pop that reports an empty queue has seen every value that was in the
\* queue when it was called leave it, unless another pop took a node
\* meanwhile.  IOSubmitThread, the only popper of ioQueue_, relies on this when
\* it goes to sleep after an empty pop; with several poppers the two loads of
\* pop's first test may be equal although the queue was never empty.
EmptyMeansDrained ==
  [][\A t \in Threads :
       /\ pc[t] \in {"peek_head", "peek_tail", "drop_empty"}
       /\ pc'[t] = "idle"
       => deq >= mark[t]]_vars

\* What the header promises and the code does not keep: a value whose push
\* has returned was put in the queue, so a pop, or the destructor, gets it.
NoLostPush == \A v \in done : \E i \in 1 .. Len(enq) : enq[i] = v

-----------------------------------------------------------------------------
(* The inductive invariant behind NoUseAfterFree: where the two pointers    *)
(* have been, what each reference pins, and that the counters balance.      *)

Holders(n)    == {t \in Threads : pc[t] \in Holding /\ old[t].ptr = n}
TailFreers(n) == {t \in Threads : pc[t] = "free_tail" /\ old[t].ptr = n}
HeadFreers(n) == {t \in Threads : pc[t] \in {"take", "free_head"} /\ old[t].ptr = n}

\* Both pointers are on live nodes, the head never overtakes the tail.
PtrInv ==
  /\ head.ptr \in live \ headLeft
  /\ tail.ptr \in live \ tailLeft
  /\ head.ptr = tail.ptr \/ head.ptr \in tailLeft
  /\ \A n \in live : n \in headLeft => n \in tailLeft

\* The list from the head on: successors are live, distinct and still ahead of
\* the head; a successor of a node the tail has not left is ahead of the tail.
ChainInv ==
  /\ \A n \in live : n \in tailLeft => next[n] # NULL
  /\ \A n \in live \ headLeft : next[n] # NULL =>
       /\ next[n] \in live \ headLeft
       /\ next[n] # head.ptr
       /\ n \notin tailLeft => next[n] \notin tailLeft /\ next[n] # tail.ptr
       /\ n \in tailLeft => next[n] \in tailLeft \/ next[n] = tail.ptr
       /\ \A m \in live \ headLeft : next[m] = next[n] => m = n

\* A push owns the node it has not linked yet: nothing else refers to it.
OwnInv ==
  \A t \in Threads :
    /\ pc[t] \in {"inc_tail", "cas_data", "cas_next"} => mine[t] # NULL
    /\ pc[t] \in {"set_tail", "free_tail", "drop_tail"} /\ ~stored[t] => mine[t] # NULL
    /\ mine[t] # NULL =>
         /\ mine[t] \in live \ (headLeft \cup tailLeft)
         /\ mine[t] # head.ptr /\ mine[t] # tail.ptr
         /\ next[mine[t]] = NULL
         /\ Holders(mine[t]) = {}
         /\ \A n \in live \ headLeft : next[n] # mine[t]
         /\ \A s \in Threads : mine[s] = mine[t] => s = t

\* What a thread knows of the node it holds.
HoldInv ==
  \A t \in Threads :
    /\ pc[t] \in Holding => old[t].ptr \in live
    /\ pc[t] = "set_tail" => nxt[t] = next[old[t].ptr] /\ nxt[t] # NULL
    /\ pc[t] \in HeadHolding => old[t].ptr \in tailLeft \/ old[t].ptr = tail.ptr
    /\ pc[t] \in {"load_next", "cas_head"} => old[t].ptr \in tailLeft
    /\ pc[t] = "cas_head" => nxt[t] = next[old[t].ptr]

\* One thread frees each external counter of a node, after the pointer left it.
FreerInv ==
  \A t \in Threads :
    /\ pc[t] = "free_tail" => old[t].ptr \in tailLeft
    /\ pc[t] \in {"take", "free_head"} => old[t].ptr \in headLeft
    /\ \A s \in Threads : old[s].ptr = old[t].ptr =>
         /\ pc[s] = "free_tail" /\ pc[t] = "free_tail" => s = t
         /\ pc[s] \in {"take", "free_head"} /\ pc[t] \in {"take", "free_head"} => s = t

\* The external count still to be settled, beyond the pointer's own 1: it is
\* in the pointer, then with the thread that moved the pointer on, then gone.
TailSurplus(n) ==
  IF tail.ptr = n THEN {tail.cnt - 1}
  ELSE IF TailFreers(n) = {} THEN {0} ELSE {old[t].cnt - 1 : t \in TailFreers(n)}
HeadSurplus(n) ==
  IF head.ptr = n THEN {head.cnt - 1}
  ELSE IF HeadFreers(n) = {} THEN {0} ELSE {old[t].cnt - 1 : t \in HeadFreers(n)}

TailPending(n) == n \notin tailLeft \/ TailFreers(n) # {}
HeadPending(n) == n \notin headLeft \/ HeadFreers(n) # {}

\* node_counter is exact: external_counters counts the pointers not settled,
\* and internal_count plus the unsettled external counts is the number of
\* threads that hold the node.
CountInv ==
  \A n \in live :
    /\ external[n] = (IF TailPending(n) THEN 1 ELSE 0) + (IF HeadPending(n) THEN 1 ELSE 0)
    /\ \A a \in TailSurplus(n), b \in HeadSurplus(n) :
         internal[n] + a + b = Cardinality(Holders(n))

\* While the queue exists, all of the above holds.
RefCountExact ==
  (\E t \in Threads : pc[t] # "end") =>
    PtrInv /\ ChainInv /\ OwnInv /\ HoldInv /\ FreerInv /\ CountInv
=============================================================================
