------------------------------ MODULE Channel ------------------------------
(***************************************************************************)
(* Channel (sync/co_chan.hpp): a FIFO channel between coroutines with a    *)
(* bounded, possibly empty, buffer, queues of waiting senders and          *)
(* receivers, and Close.                                                   *)
(*                                                                         *)
(* mtx_ is a mutex (module Mutex), so an operation that does not suspend is*)
(* one step, taken when nobody holds it.  In the source the lock is still  *)
(* held while an operation is suspended: held = TRUE.  FALSE reads the code*)
(* as evidently meant, with the mutex given up once the coroutine is       *)
(* switched away from.  A behaviour chooses its reading initially.  An     *)
(* exception that leaves operator<< or operator>> ends the call.  CoChan,  *)
(* the copyable handle, forwards to it.                                    *)
(***************************************************************************)
EXTENDS Naturals, Sequences, SequencesExt

CONSTANTS
  Senders, Receivers,   \* coroutines
  NULL,
  Capacities,           \* capacities channels are constructed with
  Readings,             \* the choices of `held`; the source is TRUE
  MaxSend, MaxRecv,     \* bounds: calls of operator<<, operator>>
  MayClose              \* whether Close is called

ASSUME CapacityAssumption == Capacities \subseteq Nat /\ MaxSend \in Nat /\ MaxRecv \in Nat
ASSUME ReadingsAssumption == Readings \subseteq BOOLEAN
ASSUME RolesAssumption == Senders \cap Receivers = {} /\ NULL \notin Senders \cup Receivers

Tasks == Senders \cup Receivers

VARIABLES
  capacity,      \* capacity_, fixed by the constructor
  closed, buffer, sendQueue, recvQueue,   \* of Channel
  held,          \* whether mtx_ stays held while an operation is suspended
  mtx,           \* who holds mtx_ while no step is in progress
  pc,            \* each coroutine: "run", "suspended" or "ready"
  isError,       \* the flag of each suspended operation
  sent, recvd,   \* calls made so far; the k-th send sends k
  accepted,      \* history: values in the order operator<< took them
  delivered,     \* history: values in the order they were given out
  dropped        \* history: values of senders that Close turned away

chan == <<closed, buffer, sendQueue, recvQueue>>
hist == <<sent, recvd, accepted, delivered, dropped>>
vars == <<capacity, held, chan, mtx, pc, isError, hist>>

Init ==
  /\ capacity \in Capacities /\ held \in Readings
  /\ closed = FALSE /\ buffer = <<>> /\ sendQueue = <<>> /\ recvQueue = <<>>
  /\ mtx = NULL
  /\ pc = [t \in Tasks |-> "run"]
  /\ isError = [t \in Tasks |-> FALSE]
  /\ sent = 0 /\ recvd = 0
  /\ accepted = <<>> /\ delivered = <<>> /\ dropped = <<>>

\* AddTask of the coroutines S.
Wake(S) == pc' = [t \in Tasks |-> IF t \in S THEN "ready" ELSE pc[t]]

Suspend(t) ==
  /\ pc' = [pc EXCEPT ![t] = "suspended"]
  /\ isError' = [isError EXCEPT ![t] = FALSE]
  /\ mtx' = IF held THEN t ELSE NULL

-----------------------------------------------------------------------------
(* operator<< *)

\* Mutant of Locks: operator<< does without its lock.
LocksNever == TRUE

\* `std::unique_lock<CoMutex> lock(mtx_)` gets the mutex.
Locks == mtx = NULL

SendCall(t) ==
  /\ t \in Senders /\ pc[t] = "run" /\ Locks
  /\ sent < MaxSend /\ sent' = sent + 1

SendClosed(t) ==
  /\ SendCall(t)
  /\ closed
  /\ UNCHANGED <<chan, mtx, pc, isError, recvd, accepted, delivered, dropped>>

\* A receiver waits: it gets the value.
SendHandOver(t) ==
  /\ SendCall(t)
  /\ ~closed /\ recvQueue # <<>>
  /\ recvQueue' = Tail(recvQueue)
  /\ Wake({Head(recvQueue)})
  /\ accepted' = Append(accepted, sent')
  /\ delivered' = Append(delivered, sent')
  /\ UNCHANGED <<closed, buffer, sendQueue, mtx, isError, recvd, dropped>>

\* Mutant of Room: one value too many fits.
RoomOver == Len(buffer) <= capacity

Room == Len(buffer) < capacity

SendBuffer(t) ==
  /\ SendCall(t)
  /\ ~closed /\ recvQueue = <<>> /\ Room
  /\ buffer' = Append(buffer, sent')
  /\ accepted' = Append(accepted, sent')
  /\ UNCHANGED <<closed, sendQueue, recvQueue, mtx, pc, isError, recvd, delivered, dropped>>

SendWait(t) ==
  /\ SendCall(t)
  /\ ~closed /\ recvQueue = <<>> /\ ~Room
  /\ sendQueue' = Append(sendQueue, [task |-> t, data |-> sent'])
  /\ accepted' = Append(accepted, sent')
  /\ Suspend(t)
  /\ UNCHANGED <<closed, buffer, recvQueue, recvd, delivered, dropped>>

-----------------------------------------------------------------------------
(* operator>> *)

RecvCall(t) ==
  /\ t \in Receivers /\ pc[t] = "run" /\ Locks
  /\ recvd < MaxRecv /\ recvd' = recvd + 1

RecvClosed(t) ==
  /\ RecvCall(t)
  /\ closed /\ buffer = <<>>
  /\ UNCHANGED <<chan, mtx, pc, isError, sent, accepted, delivered, dropped>>

\* Mutant of Waits: nobody is let in.
WaitsNobody == FALSE

Waits == sendQueue # <<>>

\* Mutant of Refilled: the waiting sender's value jumps the buffer.
RefilledFront == <<Head(sendQueue).data>> \o Tail(buffer)

Refilled == Append(Tail(buffer), Head(sendQueue).data)

\* The first value of the buffer; the first waiting sender's takes its place.
RecvBuffer(t) ==
  /\ RecvCall(t)
  /\ buffer # <<>>
  /\ delivered' = Append(delivered, Head(buffer))
  /\ \/ /\ ~Waits
        /\ buffer' = Tail(buffer)
        /\ UNCHANGED <<sendQueue, pc>>
     \/ /\ Waits
        /\ buffer' = Refilled
        /\ sendQueue' = Tail(sendQueue)
        /\ Wake({Head(sendQueue).task})
  /\ UNCHANGED <<closed, recvQueue, mtx, isError, sent, accepted, dropped>>

\* Without a buffer, the first waiting sender's value.
RecvHandOver(t) ==
  /\ RecvCall(t)
  /\ buffer = <<>> /\ ~closed
  /\ capacity = 0 /\ sendQueue # <<>>
  /\ delivered' = Append(delivered, Head(sendQueue).data)
  /\ sendQueue' = Tail(sendQueue)
  /\ Wake({Head(sendQueue).task})
  /\ UNCHANGED <<closed, buffer, recvQueue, mtx, isError, sent, accepted, dropped>>

RecvWait(t) ==
  /\ RecvCall(t)
  /\ buffer = <<>> /\ ~closed
  /\ ~(capacity = 0 /\ sendQueue # <<>>)
  /\ recvQueue' = Append(recvQueue, t)
  /\ Suspend(t)
  /\ UNCHANGED <<closed, buffer, sendQueue, sent, accepted, delivered, dropped>>

-----------------------------------------------------------------------------
Data(q) == [i \in 1 .. Len(q) |-> q[i].data]
TasksOf(q) == {q[i].task : i \in 1 .. Len(q)}

\* Mutant of Turned: waiting receivers are cleared without being woken.
TurnedSenders == TasksOf(sendQueue)

\* Whom Close wakes with an error.
Turned == TasksOf(sendQueue) \cup Range(recvQueue)

\* Close turns every waiting coroutine away; a second one changes nothing.
Close ==
  /\ MayClose /\ Locks /\ ~closed
  /\ closed' = TRUE
  /\ Wake(Turned)
  /\ isError' = [t \in Tasks |-> isError[t] \/ t \in Turned]
  /\ dropped' = Data(sendQueue)
  /\ sendQueue' = <<>> /\ recvQueue' = <<>>
  /\ UNCHANGED <<buffer, mtx, sent, recvd, accepted, delivered>>

\* SuspendTask returns; the error is constructed and not thrown, so the call
\* returns like any other, and the destructor of `lock` gives mtx_ up.
Resume(t) ==
  /\ pc[t] = "ready"
  /\ pc' = [pc EXCEPT ![t] = "run"]
  /\ mtx' = IF mtx = t THEN NULL ELSE mtx
  /\ UNCHANGED <<chan, isError, hist>>

Send(t) == SendClosed(t) \/ SendHandOver(t) \/ SendBuffer(t) \/ SendWait(t)
Recv(t) == RecvClosed(t) \/ RecvBuffer(t) \/ RecvHandOver(t) \/ RecvWait(t)

Next ==
  /\ Close \/ \E t \in Tasks : Send(t) \/ Recv(t) \/ Resume(t)
  /\ UNCHANGED <<capacity, held>>

Spec == Init /\ [][Next]_vars
-----------------------------------------------------------------------------
(* Properties *)

\* Every variable has its type and the buffer respects its capacity.
TypeOK ==
  /\ closed \in BOOLEAN
  /\ capacity \in Capacities
  /\ buffer \in Seq(1 .. MaxSend) /\ Len(buffer) <= capacity
  /\ sendQueue \in Seq([task : Senders, data : 1 .. MaxSend])
  /\ recvQueue \in Seq(Receivers)
  /\ held \in BOOLEAN /\ mtx \in Tasks \cup {NULL}
  /\ pc \in [Tasks -> {"run", "suspended", "ready"}]
  /\ isError \in [Tasks -> BOOLEAN]
  /\ sent \in 0 .. MaxSend /\ recvd \in 0 .. MaxRecv

\* Values come out once each and in the order they went in: what was taken is
\* what was given out, then what is buffered, then what waits or was turned
\* away, across buffering, direct hand-over, refilling and Close.
FifoExact ==
  accepted = delivered \o buffer \o Data(sendQueue) \o dropped

\* A sender and a receiver never wait past each other: receivers wait only
\* for an empty channel, senders only for a full one.
NoMissedMatch ==
  /\ recvQueue # <<>> => buffer = <<>> /\ sendQueue = <<>>
  /\ sendQueue # <<>> => Len(buffer) = capacity

\* A coroutine is suspended exactly while it is in one of the queues, where a
\* partner or Close that gets the lock finds it, and none is once Close has.
SuspendedIsQueued ==
  /\ \A t \in Tasks : pc[t] = "suspended" <=> t \in TasksOf(sendQueue) \cup Range(recvQueue)
  /\ closed => \A t \in Tasks : pc[t] # "suspended"

\* What the source's lock does: the first operation that waits is the channel's
\* last.  As the suspended coroutine holds mtx_, no partner gets in to wake it
\* and no Close to turn it away: nothing about the channel changes any more.
HeldForGood ==
  [][held /\ (\E t \in Tasks : pc[t] = "suspended") => UNCHANGED <<chan, pc, hist>>]_vars
=============================================================================
