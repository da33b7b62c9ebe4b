--------------------------- MODULE ChannelProofs ---------------------------
(***************************************************************************)
(* Proofs about Channel, for any coroutines, capacities and numbers of     *)
(* calls, whether or not the lock is held while an operation is suspended. *)
(***************************************************************************)
EXTENDS Channel, SequenceTheorems, TLAPS

-----------------------------------------------------------------------------
(* Sequences *)

Vals  == 1 .. MaxSend
Items == [task : Senders, data : Vals]

\* Appending to the second of two sequences appends to their concatenation.
LEMMA ConcatAppend ==
  ASSUME NEW S, NEW s \in Seq(S), NEW t \in Seq(S), NEW e \in S
  PROVE  s \o Append(t, e) = Append(s \o t, e)
<1>1. /\ Append(t, e) = t \o <<e>> /\ <<e>> \in Seq(S)
      /\ s \o t \in Seq(S) /\ Append(s \o t, e) = (s \o t) \o <<e>>
  BY AppendIsConcat, ConcatProperties
<1> QED
  BY <1>1, ConcatAssociative

\* Moving the head of the second sequence to the end of the first changes
\* nothing in their concatenation.
LEMMA ConcatMove ==
  ASSUME NEW S, NEW s \in Seq(S), NEW t \in Seq(S), t # <<>>
  PROVE  Append(s, Head(t)) \o Tail(t) = s \o t
<1> DEFINE l == Append(s, Head(t)) \o Tail(t)
           r == s \o t
<1>1. /\ Head(t) \in S /\ Head(t) = t[1] /\ Tail(t) \in Seq(S) /\ Len(Tail(t)) = Len(t) - 1
      /\ \A i \in 1 .. Len(Tail(t)) : Tail(t)[i] = t[i + 1]
  BY HeadTailProperties
<1>2. /\ Append(s, Head(t)) \in Seq(S) /\ Len(Append(s, Head(t))) = Len(s) + 1
      /\ \A i \in 1 .. Len(s) : Append(s, Head(t))[i] = s[i]
      /\ Append(s, Head(t))[Len(s) + 1] = t[1]
  BY <1>1, AppendProperties
<1>3. /\ l \in Seq(S) /\ r \in Seq(S)
      /\ Len(l) = Len(s) + Len(t) /\ Len(r) = Len(s) + Len(t)
  BY <1>1, <1>2, ConcatProperties, LenProperties
<1>4. \A i \in 1 .. Len(l) : l[i] = r[i]
  <2> SUFFICES ASSUME NEW i \in 1 .. Len(l) PROVE l[i] = r[i]
    OBVIOUS
  <2>1. r[i] = IF i <= Len(s) THEN s[i] ELSE t[i - Len(s)]
    BY <1>3, ConcatProperties
  <2>2. l[i] = IF i <= Len(s) + 1 THEN Append(s, Head(t))[i] ELSE Tail(t)[i - (Len(s) + 1)]
    BY <1>1, <1>2, <1>3, ConcatProperties, LenProperties
  <2>3. CASE i <= Len(s)
    BY <2>1, <2>2, <2>3, <1>2, LenProperties
  <2>4. CASE i = Len(s) + 1
    BY <2>1, <2>2, <2>4, <1>2, LenProperties
  <2>5. CASE i > Len(s) + 1
    <3>1. i - (Len(s) + 1) \in 1 .. Len(Tail(t)) /\ (i - (Len(s) + 1)) + 1 = i - Len(s)
      BY <2>5, <1>1, <1>3, LenProperties
    <3> QED
      BY <2>1, <2>2, <2>5, <3>1, <1>1, LenProperties
  <2> QED
    BY <2>3, <2>4, <2>5, <1>3, LenProperties
<1> QED
  BY <1>3, <1>4, SeqEqual

\* The values of the waiting senders are a sequence as long as their queue.
LEMMA DataSeq ==
  ASSUME NEW q \in Seq(Items)
  PROVE  /\ Data(q) \in Seq(Vals) /\ Len(Data(q)) = Len(q)
         /\ \A i \in 1 .. Len(q) : Data(q)[i] = q[i].data
<1>1. Len(q) \in Nat /\ \A i \in 1 .. Len(q) : q[i] \in Items
  BY ElementOfSeq, LenProperties
<1>2. \A i \in 1 .. Len(q) : q[i].data \in Vals
  BY <1>1 DEF Items
<1>3. Data(q) \in [1 .. Len(q) -> Vals] /\ \A i \in 1 .. Len(q) : Data(q)[i] = q[i].data
  BY <1>2 DEF Data
<1>4. DOMAIN Data(q) = 1 .. Len(q)
  BY DEF Data
<1>5. Data(q) \in Seq(Vals)
  BY <1>1, <1>3
<1> QED
  BY <1>1, <1>3, <1>4, <1>5, LenProperties

\* They follow it.
LEMMA DataOfQueue ==
  ASSUME NEW q \in Seq(Items)
  PROVE  /\ Data(q) = <<>> <=> q = <<>>
         /\ \A x \in Items : Data(Append(q, x)) = Append(Data(q), x.data)
         /\ q # <<>> => /\ Head(Data(q)) = Head(q).data
                        /\ Tail(Data(q)) = Data(Tail(q))
<1>1. /\ Data(q) \in Seq(Vals) /\ Len(Data(q)) = Len(q)
      /\ \A i \in 1 .. Len(q) : Data(q)[i] = q[i].data
  BY DataSeq
<1>2. Data(q) = <<>> <=> q = <<>>
  BY <1>1
<1>3. ASSUME NEW x \in Items PROVE Data(Append(q, x)) = Append(Data(q), x.data)
  <2>1. /\ Append(q, x) \in Seq(Items) /\ Len(Append(q, x)) = Len(q) + 1
        /\ \A i \in 1 .. Len(q) : Append(q, x)[i] = q[i]
        /\ Append(q, x)[Len(q) + 1] = x
    BY <1>3, AppendProperties
  <2>2. /\ Data(Append(q, x)) \in Seq(Vals) /\ Len(Data(Append(q, x))) = Len(q) + 1
        /\ \A i \in 1 .. Len(q) + 1 : Data(Append(q, x))[i] = Append(q, x)[i].data
    BY <2>1, DataSeq
  <2>3. /\ Append(Data(q), x.data) \in Seq(Vals) /\ Len(Append(Data(q), x.data)) = Len(q) + 1
        /\ \A i \in 1 .. Len(q) : Append(Data(q), x.data)[i] = Data(q)[i]
        /\ Append(Data(q), x.data)[Len(q) + 1] = x.data
    <3>1. x.data \in Vals
      BY <1>3 DEF Items
    <3> QED
      BY <1>1, <3>1, AppendProperties
  <2>4. \A i \in 1 .. Len(q) + 1 : Data(Append(q, x))[i] = Append(Data(q), x.data)[i]
    BY <1>1, <2>1, <2>2, <2>3, LenProperties
  <2> QED
    BY <2>2, <2>3, <2>4, SeqEqual
<1>4. ASSUME q # <<>>
      PROVE  Head(Data(q)) = Head(q).data /\ Tail(Data(q)) = Data(Tail(q))
  <2>1. /\ Tail(q) \in Seq(Items) /\ Len(Tail(q)) = Len(q) - 1
        /\ \A i \in 1 .. Len(Tail(q)) : Tail(q)[i] = q[i + 1]
        /\ Head(q) = q[1] /\ Len(q) \in Nat /\ Len(q) > 0
    BY <1>4, HeadTailProperties, LenProperties, EmptySeq
  <2>2. /\ Tail(Data(q)) \in Seq(Vals) /\ Len(Tail(Data(q))) = Len(q) - 1
        /\ \A i \in 1 .. Len(q) - 1 : Tail(Data(q))[i] = Data(q)[i + 1]
        /\ Head(Data(q)) = Data(q)[1]
    BY <1>1, <1>2, <1>4, HeadTailProperties
  <2>3. /\ Data(Tail(q)) \in Seq(Vals) /\ Len(Data(Tail(q))) = Len(q) - 1
        /\ \A i \in 1 .. Len(q) - 1 : Data(Tail(q))[i] = Tail(q)[i].data
    BY <2>1, DataSeq
  <2>4. \A i \in 1 .. Len(q) - 1 : Tail(Data(q))[i] = Data(Tail(q))[i]
    BY <1>1, <2>1, <2>2, <2>3
  <2>5. Tail(Data(q)) = Data(Tail(q))
    BY <2>2, <2>3, <2>4, SeqEqual
  <2> QED
    BY <1>1, <2>1, <2>2, <2>5
<1> QED
  BY <1>1, <1>2, <1>3, <1>4

-----------------------------------------------------------------------------
(* Typing *)

\* The history variables hold values that were sent.
HistInv == accepted \in Seq(Vals) /\ delivered \in Seq(Vals) /\ dropped \in Seq(Vals)

\* Every variable keeps its type, and the buffer never grows past its capacity:
\* a value is put into it where there is room, or in the place of one that was
\* taken out in the same step.
LEMMA TypeStep ==
  ASSUME TypeOK, HistInv, [Next]_vars
  PROVE  TypeOK' /\ HistInv'
<1> USE CapacityAssumption, RolesAssumption, ReadingsAssumption DEF Vals, Items
<1>1. ASSUME NEW t \in Tasks, SendClosed(t), UNCHANGED <<capacity, held>> PROVE TypeOK' /\ HistInv'
  BY <1>1 DEF TypeOK, HistInv, SendClosed, SendCall, chan
<1>2. ASSUME NEW t \in Tasks, SendHandOver(t), UNCHANGED <<capacity, held>> PROVE TypeOK' /\ HistInv'
  <2>1. recvQueue' \in Seq(Receivers) /\ sent' \in Vals
    BY <1>2 DEF TypeOK, SendHandOver, SendCall
  <2>2. accepted' \in Seq(Vals) /\ delivered' \in Seq(Vals)
    BY <1>2, <2>1 DEF HistInv, SendHandOver
  <2> QED
    BY <1>2, <2>1, <2>2 DEF TypeOK, HistInv, SendHandOver, SendCall, Wake
<1>3. ASSUME NEW t \in Tasks, SendBuffer(t), UNCHANGED <<capacity, held>> PROVE TypeOK' /\ HistInv'
  <2>1. sent' \in Vals /\ capacity \in Nat
    BY <1>3 DEF TypeOK, SendBuffer, SendCall
  <2>2. accepted' \in Seq(Vals) /\ buffer' \in Seq(Vals) /\ Len(buffer') <= capacity
    BY <1>3, <2>1 DEF TypeOK, HistInv, SendBuffer, Room
  <2> QED
    BY <1>3, <2>1, <2>2 DEF TypeOK, HistInv, SendBuffer, SendCall
<1>4. ASSUME NEW t \in Tasks, SendWait(t), UNCHANGED <<capacity, held>> PROVE TypeOK' /\ HistInv'
  <2>1. sent' \in Vals /\ t \in Senders
    BY <1>4 DEF TypeOK, SendWait, SendCall
  <2>2. accepted' \in Seq(Vals) /\ sendQueue' \in Seq(Items)
    BY <1>4, <2>1 DEF TypeOK, HistInv, SendWait
  <2> QED
    BY <1>4, <2>1, <2>2 DEF TypeOK, HistInv, SendWait, SendCall, Suspend
<1>5. ASSUME NEW t \in Tasks, RecvClosed(t), UNCHANGED <<capacity, held>> PROVE TypeOK' /\ HistInv'
  BY <1>5 DEF TypeOK, HistInv, RecvClosed, RecvCall, chan
<1>6. ASSUME NEW t \in Tasks, RecvBuffer(t), UNCHANGED <<capacity, held>> PROVE TypeOK' /\ HistInv'
  <2>1. /\ buffer \in Seq(Vals) /\ buffer # <<>> /\ Len(buffer) <= capacity
        /\ capacity \in Nat /\ sendQueue \in Seq(Items)
    BY <1>6 DEF TypeOK, RecvBuffer
  <2>2. Head(buffer) \in Vals /\ Tail(buffer) \in Seq(Vals) /\ Len(Tail(buffer)) = Len(buffer) - 1
    BY <2>1, HeadTailProperties
  <2>3. delivered' \in Seq(Vals)
    BY <1>6, <2>2 DEF HistInv, RecvBuffer
  <2>4. recvd' \in 0 .. MaxRecv /\ UNCHANGED <<closed, recvQueue, mtx, isError, sent, dropped>>
    BY <1>6 DEF TypeOK, RecvBuffer, RecvCall
  <2>5. CASE ~Waits
    <3>1. buffer' = Tail(buffer) /\ sendQueue' = sendQueue /\ pc' = pc /\ accepted' = accepted
      BY <1>6, <2>5 DEF RecvBuffer
    <3>2. buffer' \in Seq(Vals) /\ Len(buffer') <= capacity
      BY <2>1, <2>2, <3>1
    <3> QED
      BY <1>6, <2>3, <2>4, <3>1, <3>2 DEF TypeOK, HistInv
  <2>6. CASE Waits
    <3>1. Head(sendQueue) \in Items /\ Tail(sendQueue) \in Seq(Items)
      BY <2>1, <2>6, HeadTailProperties DEF Waits
    <3>2. Refilled \in Seq(Vals) /\ Len(Refilled) = Len(buffer)
      BY <2>1, <2>2, <3>1 DEF Refilled
    <3>3. /\ buffer' = Refilled /\ sendQueue' = Tail(sendQueue)
          /\ pc' \in [Tasks -> {"run", "suspended", "ready"}]
      BY <1>6, <2>6 DEF TypeOK, RecvBuffer, Wake
    <3>4. accepted' \in Seq(Vals)
      BY <1>6, <2>6, <3>1 DEF HistInv, RecvBuffer
    <3> QED
      BY <1>6, <2>1, <2>3, <2>4, <3>1, <3>2, <3>3, <3>4 DEF TypeOK, HistInv
  <2> QED
    BY <2>5, <2>6
<1>7. ASSUME NEW t \in Tasks, RecvHandOver(t), UNCHANGED <<capacity, held>> PROVE TypeOK' /\ HistInv'
  <2>1. Head(sendQueue) \in Items /\ Tail(sendQueue) \in Seq(Items)
    BY <1>7, HeadTailProperties DEF TypeOK, RecvHandOver
  <2>2. delivered' \in Seq(Vals)
    BY <1>7, <2>1 DEF HistInv, RecvHandOver
  <2>3. pc' \in [Tasks -> {"run", "suspended", "ready"}]
    BY <1>7 DEF TypeOK, RecvHandOver, Wake
  <2>4. recvd' \in 0 .. MaxRecv
    BY <1>7 DEF TypeOK, RecvHandOver, RecvCall
  <2>5. sendQueue' \in Seq(Items) /\ UNCHANGED <<closed, buffer, recvQueue, mtx, isError, sent, accepted, dropped>>
    BY <1>7, <2>1 DEF RecvHandOver
  <2> QED
    BY <1>7, <2>2, <2>3, <2>4, <2>5 DEF TypeOK, HistInv
<1>8. ASSUME NEW t \in Tasks, RecvWait(t), UNCHANGED <<capacity, held>> PROVE TypeOK' /\ HistInv'
  <2>1. recvQueue' \in Seq(Receivers)
    BY <1>8 DEF TypeOK, RecvWait, RecvCall
  <2> QED
    BY <1>8, <2>1 DEF TypeOK, HistInv, RecvWait, RecvCall, Suspend
<1>9. ASSUME Close, UNCHANGED <<capacity, held>> PROVE TypeOK' /\ HistInv'
  <2>1. dropped' \in Seq(Vals)
    BY <1>9, DataSeq DEF TypeOK, Close
  <2> QED
    BY <1>9, <2>1 DEF TypeOK, HistInv, Close, Wake
<1>10. ASSUME NEW t \in Tasks, Resume(t), UNCHANGED <<capacity, held>> PROVE TypeOK' /\ HistInv'
  BY <1>10 DEF TypeOK, HistInv, Resume, chan, hist
<1>11. CASE UNCHANGED vars
  BY <1>11 DEF TypeOK, HistInv, vars, chan, hist
<1> QED
  BY <1>1, <1>2, <1>3, <1>4, <1>5, <1>6, <1>7, <1>8, <1>9, <1>10, <1>11 DEF Next, Send, Recv
\* They hold at the start.
LEMMA InitTyped ==
  ASSUME Init
  PROVE  TypeOK /\ HistInv
<1>1. /\ buffer \in Seq(Vals) /\ Len(buffer) <= capacity
      /\ sendQueue \in Seq(Items) /\ recvQueue \in Seq(Receivers)
  BY CapacityAssumption, EmptySeq DEF Init
<1>2. accepted \in Seq(Vals) /\ delivered \in Seq(Vals) /\ dropped \in Seq(Vals)
  BY EmptySeq DEF Init
<1>3. sent \in 0 .. MaxSend /\ recvd \in 0 .. MaxRecv
  BY CapacityAssumption DEF Init
<1> QED
  BY <1>1, <1>2, <1>3, ReadingsAssumption DEF Init, TypeOK, HistInv, Vals, Items

\* The types of the channel hold in every state, for every capacity.
THEOREM Typing == Spec => []TypeOK
<1>1. Init => TypeOK /\ HistInv
  BY InitTyped
<1>2. (TypeOK /\ HistInv) /\ [Next]_vars => (TypeOK /\ HistInv)'
  BY TypeStep
<1> QED
  BY <1>1, <1>2, PTL DEF Spec

-----------------------------------------------------------------------------
(* Nobody waits past a partner, and the order of values *)

\* Close empties both queues for good; nothing is turned away before it.
ClosedInv ==
  /\ closed => sendQueue = <<>> /\ recvQueue = <<>>
  /\ ~closed => dropped = <<>>

\* Every step keeps senders and receivers from waiting at the same time.
LEMMA MatchStep ==
  ASSUME TypeOK, HistInv, ClosedInv, NoMissedMatch, [Next]_vars
  PROVE  ClosedInv' /\ NoMissedMatch'
<1> USE CapacityAssumption DEF ClosedInv, NoMissedMatch
<1>0. /\ capacity \in Nat /\ buffer \in Seq(Vals) /\ Len(buffer) \in Nat /\ Len(buffer) <= capacity
      /\ sendQueue \in Seq(Items) /\ recvQueue \in Seq(Receivers)
  BY LenProperties DEF TypeOK, Vals, Items
<1>1. ASSUME NEW t \in Tasks, SendClosed(t), UNCHANGED <<capacity, held>> PROVE ClosedInv' /\ NoMissedMatch'
  BY <1>1 DEF SendClosed, chan
<1>2. ASSUME NEW t \in Tasks, SendHandOver(t), UNCHANGED <<capacity, held>> PROVE ClosedInv' /\ NoMissedMatch'
  BY <1>2 DEF SendHandOver
<1>3. ASSUME NEW t \in Tasks, SendBuffer(t), UNCHANGED <<capacity, held>> PROVE ClosedInv' /\ NoMissedMatch'
  <2>1. sendQueue = <<>> /\ recvQueue = <<>> /\ ~closed
    BY <1>0, <1>3 DEF SendBuffer, Room
  <2> QED
    BY <1>3, <2>1 DEF SendBuffer
<1>4. ASSUME NEW t \in Tasks, SendWait(t), UNCHANGED <<capacity, held>> PROVE ClosedInv' /\ NoMissedMatch'
  BY <1>0, <1>4 DEF SendWait, Room
<1>5. ASSUME NEW t \in Tasks, RecvClosed(t), UNCHANGED <<capacity, held>> PROVE ClosedInv' /\ NoMissedMatch'
  BY <1>5 DEF RecvClosed, chan
<1>6. ASSUME NEW t \in Tasks, RecvBuffer(t), UNCHANGED <<capacity, held>> PROVE ClosedInv' /\ NoMissedMatch'
  <2>1. /\ recvQueue = <<>> /\ recvQueue' = <<>>
        /\ closed' = closed /\ dropped' = dropped /\ capacity' = capacity
    BY <1>6 DEF RecvBuffer
  <2>2. CASE ~Waits
    BY <1>6, <2>1, <2>2 DEF RecvBuffer, Waits
  <2>3. CASE Waits
    <3>1. ~closed /\ Len(buffer) = capacity /\ buffer # <<>> /\ sendQueue # <<>>
      BY <1>6, <2>3 DEF RecvBuffer, Waits
    <3>2. Len(buffer') = Len(buffer)
      <4>1. Head(sendQueue).data \in Vals
        <5>1. Head(sendQueue) \in Items
          BY <1>0, <3>1, HeadTailProperties
        <5> QED
          BY <5>1 DEF Items
      <4>2. Tail(buffer) \in Seq(Vals) /\ Len(Tail(buffer)) = Len(buffer) - 1
        BY <1>0, <3>1, HeadTailProperties
      <4>3. buffer' = Append(Tail(buffer), Head(sendQueue).data)
        BY <1>6, <2>3 DEF RecvBuffer, Refilled
      <4>4. Len(buffer') = Len(Tail(buffer)) + 1
        BY <4>1, <4>2, <4>3, AppendProperties
      <4> QED
        BY ONLY <1>0, <4>2, <4>4
    <3> QED
      BY <2>1, <3>1, <3>2
  <2> QED
    BY <2>2, <2>3
<1>7. ASSUME NEW t \in Tasks, RecvHandOver(t), UNCHANGED <<capacity, held>> PROVE ClosedInv' /\ NoMissedMatch'
  BY <1>7 DEF RecvHandOver
<1>8. ASSUME NEW t \in Tasks, RecvWait(t), UNCHANGED <<capacity, held>> PROVE ClosedInv' /\ NoMissedMatch'
  <2>1. sendQueue = <<>>
    BY <1>0, <1>8 DEF RecvWait
  <2> QED
    BY <1>8, <2>1 DEF RecvWait
<1>9. ASSUME Close, UNCHANGED <<capacity, held>> PROVE ClosedInv' /\ NoMissedMatch'
  BY <1>9 DEF Close
<1>10. ASSUME NEW t \in Tasks, Resume(t), UNCHANGED <<capacity, held>> PROVE ClosedInv' /\ NoMissedMatch'
  BY <1>10 DEF Resume, chan, hist
<1>11. CASE UNCHANGED vars
  BY <1>11 DEF vars, chan, hist
<1> QED
  BY <1>1, <1>2, <1>3, <1>4, <1>5, <1>6, <1>7, <1>8, <1>9, <1>10, <1>11 DEF Next, Send, Recv

\* Every step keeps the order of values: a value moves from one part of the
\* concatenation to the next or enters behind everything that is in it.
LEMMA FifoStep ==
  ASSUME TypeOK, HistInv, ClosedInv, NoMissedMatch, FifoExact, [Next]_vars
  PROVE  FifoExact'
<1> DEFINE D == Data(sendQueue)
<1>0. /\ buffer \in Seq(Vals) /\ sendQueue \in Seq(Items) /\ D \in Seq(Vals)
      /\ delivered \in Seq(Vals) /\ dropped \in Seq(Vals) /\ accepted \in Seq(Vals)
      /\ accepted = delivered \o buffer \o D \o dropped
  BY DataSeq DEF TypeOK, HistInv, FifoExact, Vals, Items
<1>a. /\ D = <<>> <=> sendQueue = <<>>
      /\ sendQueue # <<>> => /\ Head(D) = Head(sendQueue).data
                             /\ Tail(D) = Data(Tail(sendQueue))
      /\ \A x \in Items : Data(Append(sendQueue, x)) = Append(D, x.data)
  BY <1>0, DataOfQueue
<1>b. delivered \o buffer \in Seq(Vals) /\ (delivered \o buffer) \o D \in Seq(Vals)
  BY <1>0, ConcatProperties
<1>c. Data(<<>>) = <<>>
  BY DEF Data
<1> HIDE DEF D
<1>d. ASSUME UNCHANGED <<buffer, sendQueue, accepted, delivered, dropped>> PROVE FifoExact'
  BY <1>d DEF FifoExact, Data
<1>v. ASSUME NEW t \in Tasks, SendCall(t) PROVE sent' \in Vals
  BY <1>v, CapacityAssumption DEF SendCall, TypeOK, Vals
<1>1. ASSUME NEW t \in Tasks, SendClosed(t) PROVE FifoExact'
  BY <1>1, <1>d DEF SendClosed, chan
<1>2. ASSUME NEW t \in Tasks, SendHandOver(t) PROVE FifoExact'
  <2>1. buffer = <<>> /\ D = <<>> /\ dropped = <<>> /\ sent' \in Vals
    BY <1>2, <1>a, <1>v DEF SendHandOver, NoMissedMatch, ClosedInv
  <2>2. accepted = delivered
    BY <1>0, <2>1, ConcatEmptySeq
  <2>3. /\ accepted' = Append(delivered, sent') /\ delivered' = Append(delivered, sent')
        /\ buffer' = <<>> /\ Data(sendQueue') = <<>> /\ dropped' = <<>>
    BY <1>2, <2>1, <2>2 DEF SendHandOver, D
  <2>4. Append(delivered, sent') \in Seq(Vals)
    BY <1>0, <2>1
  <2> QED
    BY <2>3, <2>4, ConcatEmptySeq DEF FifoExact
<1>3. ASSUME NEW t \in Tasks, SendBuffer(t) PROVE FifoExact'
  <2>1. sendQueue = <<>> /\ D = <<>> /\ dropped = <<>> /\ sent' \in Vals
    <3>1. sendQueue = <<>>
      BY <1>3, LenProperties, CapacityAssumption DEF SendBuffer, NoMissedMatch, Room, TypeOK
    <3> QED
      BY <1>3, <3>1, <1>a, <1>v DEF SendBuffer, ClosedInv
  <2>2. accepted = delivered \o buffer
    BY <1>0, <1>b, <2>1, ConcatEmptySeq
  <2>3. /\ accepted' = Append(delivered \o buffer, sent') /\ delivered' = delivered
        /\ buffer' = Append(buffer, sent') /\ Data(sendQueue') = <<>> /\ dropped' = <<>>
    BY <1>3, <2>1, <2>2 DEF SendBuffer, D
  <2>4. delivered \o Append(buffer, sent') = Append(delivered \o buffer, sent')
    BY <1>0, <2>1, ConcatAppend
  <2>5. Append(delivered \o buffer, sent') \in Seq(Vals)
    BY <1>b, <2>1
  <2> QED
    BY <2>3, <2>4, <2>5, ConcatEmptySeq DEF FifoExact
<1>4. ASSUME NEW t \in Tasks, SendWait(t) PROVE FifoExact'
  <2>1. dropped = <<>> /\ sent' \in Vals /\ t \in Senders
    BY <1>4, <1>v DEF SendWait, SendCall, ClosedInv
  <2>2. accepted = (delivered \o buffer) \o D
    BY <1>0, <1>b, <2>1, ConcatEmptySeq
  <2>3. /\ accepted' = Append(accepted, sent') /\ delivered' = delivered
        /\ buffer' = buffer /\ dropped' = <<>>
        /\ sendQueue' = Append(sendQueue, [task |-> t, data |-> sent'])
    BY <1>4, <2>1 DEF SendWait
  <2>4. Data(sendQueue') = Append(D, sent')
    BY <1>a, <2>1, <2>3 DEF Items
  <2>5. (delivered \o buffer) \o Append(D, sent') = Append((delivered \o buffer) \o D, sent')
    BY <1>0, <1>b, <2>1, ConcatAppend
  <2>6. Append((delivered \o buffer) \o D, sent') \in Seq(Vals)
    BY <1>b, <2>1
  <2> QED
    BY <2>2, <2>3, <2>4, <2>5, <2>6, ConcatEmptySeq DEF FifoExact
<1>5. ASSUME NEW t \in Tasks, RecvClosed(t) PROVE FifoExact'
  BY <1>5, <1>d DEF RecvClosed, chan
<1>6. ASSUME NEW t \in Tasks, RecvBuffer(t) PROVE FifoExact'
  <2>1. /\ buffer # <<>> /\ Head(buffer) \in Vals /\ Tail(buffer) \in Seq(Vals)
        /\ delivered' = Append(delivered, Head(buffer)) /\ delivered' \in Seq(Vals)
        /\ accepted' = accepted /\ dropped' = dropped
    BY <1>0, <1>6, HeadTailProperties, AppendProperties DEF RecvBuffer
  <2>2. delivered' \o Tail(buffer) = delivered \o buffer
    BY <1>0, <2>1, ConcatMove
  <2>3. CASE ~Waits
    <3>1. buffer' = Tail(buffer) /\ Data(sendQueue') = D
      BY <1>6, <2>3 DEF RecvBuffer, D
    <3> QED
      BY <1>0, <2>1, <2>2, <3>1 DEF FifoExact
  <2>4. CASE Waits
    <3>1. /\ buffer' = Append(Tail(buffer), Head(D)) /\ Data(sendQueue') = Tail(D)
          /\ D # <<>>
      BY <1>6, <1>a, <2>4 DEF RecvBuffer, Waits, Refilled
    <3>2. Head(D) \in Vals
      BY <1>0, <3>1, HeadTailProperties
    <3>3. delivered' \o buffer' = Append(delivered \o buffer, Head(D))
      BY <2>1, <2>2, <3>1, <3>2, ConcatAppend, SMTT(20)
    <3>4. Append(delivered \o buffer, Head(D)) \o Tail(D) = (delivered \o buffer) \o D
      BY <1>0, <1>b, <3>1, ConcatMove
    <3> QED
      BY <1>0, <2>1, <3>1, <3>3, <3>4 DEF FifoExact
  <2> QED
    BY <2>3, <2>4
<1>7. ASSUME NEW t \in Tasks, RecvHandOver(t) PROVE FifoExact'
  <2>1. /\ buffer = <<>> /\ buffer' = <<>> /\ D # <<>>
        /\ delivered' = Append(delivered, Head(D)) /\ Data(sendQueue') = Tail(D)
        /\ accepted' = accepted /\ dropped' = dropped
    BY <1>7, <1>a DEF RecvHandOver
  <2>2. delivered' \in Seq(Vals)
    BY <1>0, <2>1, HeadTailProperties, AppendProperties
  <2>3. delivered' \o buffer' = delivered' /\ delivered \o buffer = delivered
    BY <1>0, <2>1, <2>2, ConcatEmptySeq
  <2>4. delivered' \o Tail(D) = delivered \o D
    BY <1>0, <2>1, ConcatMove
  <2> QED
    BY <1>0, <2>1, <2>3, <2>4 DEF FifoExact
<1>8. ASSUME NEW t \in Tasks, RecvWait(t) PROVE FifoExact'
  BY <1>8, <1>d DEF RecvWait
<1>9. ASSUME Close PROVE FifoExact'
  <2>1. /\ dropped = <<>> /\ dropped' = D /\ Data(sendQueue') = <<>>
        /\ accepted' = accepted /\ delivered' = delivered /\ buffer' = buffer
    BY <1>9, <1>c DEF Close, ClosedInv, D
  <2> QED
    BY <1>0, <1>b, <2>1, ConcatEmptySeq DEF FifoExact
<1>10. ASSUME NEW t \in Tasks, Resume(t) PROVE FifoExact'
  BY <1>10, <1>d DEF Resume, chan, hist
<1>11. CASE UNCHANGED vars
  BY <1>11, <1>d DEF vars, chan, hist
<1> QED
  BY <1>1, <1>2, <1>3, <1>4, <1>5, <1>6, <1>7, <1>8, <1>9, <1>10, <1>11 DEF Next, Send, Recv
\* The inductive invariant of the order of values.
OrderInv == TypeOK /\ HistInv /\ ClosedInv /\ NoMissedMatch /\ FifoExact

\* It holds in every state.
LEMMA Order == Spec => []OrderInv
<1>1. Init => OrderInv
  <2> SUFFICES ASSUME Init PROVE OrderInv
    OBVIOUS
  <2>1. TypeOK /\ HistInv
    BY InitTyped
  <2>2. ClosedInv /\ NoMissedMatch
    BY DEF Init, ClosedInv, NoMissedMatch
  <2>3. FifoExact
    <3>1. Data(<<>>) = <<>> /\ <<>> \in Seq(Vals) /\ <<>> \o <<>> = <<>>
      BY DEF Data
    <3> QED
      BY <3>1 DEF Init, FifoExact
  <2> QED
    BY <2>1, <2>2, <2>3 DEF OrderInv
<1>2. OrderInv /\ [Next]_vars => OrderInv'
  BY TypeStep, MatchStep, FifoStep DEF OrderInv
<1> QED
  BY <1>1, <1>2, PTL DEF Spec

\* Values come out once each and in the order they went in, across buffering,
\* hand-over, refilling and Close, for every capacity, 0 included.
THEOREM Fifo == Spec => []FifoExact
BY Order, PTL DEF OrderInv

\* A sender and a receiver never wait past each other.
THEOREM Matched == Spec => []NoMissedMatch
BY Order, PTL DEF OrderInv

-----------------------------------------------------------------------------
(* Who is suspended *)

\* Each queue holds suspended coroutines, each once, and holds all of them.
QueueInv ==
  /\ \A i \in 1 .. Len(sendQueue) : pc[sendQueue[i].task] = "suspended"
  /\ \A i \in 1 .. Len(recvQueue) : pc[recvQueue[i]] = "suspended"
  /\ \A i, j \in 1 .. Len(sendQueue) : sendQueue[i].task = sendQueue[j].task => i = j
  /\ \A i, j \in 1 .. Len(recvQueue) : recvQueue[i] = recvQueue[j] => i = j
  /\ \A t \in Tasks : pc[t] = "suspended" =>
       \/ \E i \in 1 .. Len(sendQueue) : sendQueue[i].task = t
       \/ \E i \in 1 .. Len(recvQueue) : recvQueue[i] = t

\* What a queue is after its first element was taken.
LEMMA TailIndex ==
  ASSUME NEW S, NEW q \in Seq(S), q # <<>>
  PROVE  /\ Len(q) \in Nat /\ Len(q) >= 1 /\ Head(q) = q[1]
         /\ Len(Tail(q)) = Len(q) - 1
         /\ \A i \in 1 .. Len(Tail(q)) : i + 1 \in 1 .. Len(q) /\ Tail(q)[i] = q[i + 1]
         /\ \A i \in 1 .. Len(q) : i = 1 \/ (i - 1 \in 1 .. Len(Tail(q)) /\ Tail(q)[i - 1] = q[i])
<1>1. Len(q) \in Nat /\ Len(q) >= 1
  BY EmptySeq, LenProperties
<1>2. /\ Len(Tail(q)) = Len(q) - 1 /\ Head(q) = q[1]
      /\ \A i \in 1 .. Len(Tail(q)) : Tail(q)[i] = q[i + 1]
  BY HeadTailProperties
<1>3. \A i \in 1 .. Len(Tail(q)) : i + 1 \in 1 .. Len(q)
  BY <1>1, <1>2
<1>4. \A i \in 1 .. Len(q) : i = 1 \/ (i - 1 \in 1 .. Len(Tail(q)) /\ Tail(q)[i - 1] = q[i])
  <2> SUFFICES ASSUME NEW i \in 1 .. Len(q), i # 1
               PROVE  i - 1 \in 1 .. Len(Tail(q)) /\ Tail(q)[i - 1] = q[i]
    OBVIOUS
  <2>1. i - 1 \in 1 .. Len(Tail(q)) /\ (i - 1) + 1 = i
    BY <1>1, <1>2
  <2>2. Tail(q)[i - 1] = q[(i - 1) + 1]
    BY <1>2, <2>1
  <2> QED
    BY <2>1, <2>2
<1> QED
  BY <1>1, <1>2, <1>3, <1>4

\* Every step keeps the queues in order: a woken coroutine leaves its queue, one
\* that suspends was in none.
LEMMA QueueStep ==
  ASSUME TypeOK, QueueInv, [Next]_vars
  PROVE  QueueInv'
<1>0. /\ sendQueue \in Seq(Items) /\ recvQueue \in Seq(Receivers)
      /\ Len(sendQueue) \in Nat /\ Len(recvQueue) \in Nat
      /\ \A i \in 1 .. Len(sendQueue) : sendQueue[i].task \in Senders
      /\ \A i \in 1 .. Len(recvQueue) : recvQueue[i] \in Receivers
      /\ pc \in [Tasks -> {"run", "suspended", "ready"}]
  <2>1. sendQueue \in Seq(Items) /\ recvQueue \in Seq(Receivers)
    BY DEF TypeOK, Items, Vals
  <2>2. \A i \in 1 .. Len(sendQueue) : sendQueue[i] \in Items
    BY <2>1, ElementOfSeq
  <2> QED
    BY <2>1, <2>2, ElementOfSeq, LenProperties DEF TypeOK, Items
<1>a. Senders \subseteq Tasks /\ Receivers \subseteq Tasks /\ Senders \cap Receivers = {}
  BY RolesAssumption DEF Tasks
<1>d. ASSUME UNCHANGED <<sendQueue, recvQueue, pc>> PROVE QueueInv'
  BY <1>d DEF QueueInv
\* The first sender is woken.
<1>s. ASSUME sendQueue # <<>>, sendQueue' = Tail(sendQueue), recvQueue' = recvQueue,
             Wake({Head(sendQueue).task})
      PROVE  QueueInv'
  <2>1. /\ Head(sendQueue) = sendQueue[1] /\ Len(sendQueue) >= 1
        /\ Len(sendQueue') = Len(sendQueue) - 1
        /\ \A i \in 1 .. Len(sendQueue') :
             i + 1 \in 1 .. Len(sendQueue) /\ sendQueue'[i] = sendQueue[i + 1]
        /\ \A i \in 1 .. Len(sendQueue) :
             i = 1 \/ (i - 1 \in 1 .. Len(sendQueue') /\ sendQueue'[i - 1] = sendQueue[i])
    BY <1>0, <1>s, TailIndex
  <2>2. \A t \in Tasks : pc'[t] = IF t = sendQueue[1].task THEN "ready" ELSE pc[t]
    BY <1>s, <2>1 DEF Wake
  <2>3. 1 \in 1 .. Len(sendQueue) /\ sendQueue[1].task \in Senders
    BY <1>0, <2>1
  <2>4. \A i \in 1 .. Len(sendQueue') : pc'[sendQueue'[i].task] = "suspended"
    BY <1>0, <1>a, <2>1, <2>2, <2>3 DEF QueueInv
  <2>5. \A i \in 1 .. Len(recvQueue') : pc'[recvQueue'[i]] = "suspended"
    BY <1>0, <1>a, <1>s, <2>2, <2>3 DEF QueueInv
  <2>6. \A i, j \in 1 .. Len(sendQueue') : sendQueue'[i].task = sendQueue'[j].task => i = j
    BY <1>0, <2>1 DEF QueueInv
  <2>7. ASSUME NEW t \in Tasks, pc'[t] = "suspended"
        PROVE  \/ \E i \in 1 .. Len(sendQueue') : sendQueue'[i].task = t
               \/ \E i \in 1 .. Len(recvQueue') : recvQueue'[i] = t
    <3>1. pc[t] = "suspended" /\ t # sendQueue[1].task
      BY <2>2, <2>7
    <3>2. CASE \E i \in 1 .. Len(sendQueue) : sendQueue[i].task = t
      BY <2>1, <3>1, <3>2
    <3> QED
      BY <1>s, <3>1, <3>2 DEF QueueInv
  <2> QED
    BY <1>s, <2>4, <2>5, <2>6, <2>7 DEF QueueInv
\* The first receiver is woken.
<1>r. ASSUME recvQueue # <<>>, recvQueue' = Tail(recvQueue), sendQueue' = sendQueue,
             Wake({Head(recvQueue)})
      PROVE  QueueInv'
  <2>1. /\ Head(recvQueue) = recvQueue[1] /\ Len(recvQueue) >= 1
        /\ Len(recvQueue') = Len(recvQueue) - 1
        /\ \A i \in 1 .. Len(recvQueue') :
             i + 1 \in 1 .. Len(recvQueue) /\ recvQueue'[i] = recvQueue[i + 1]
        /\ \A i \in 1 .. Len(recvQueue) :
             i = 1 \/ (i - 1 \in 1 .. Len(recvQueue') /\ recvQueue'[i - 1] = recvQueue[i])
    BY <1>0, <1>r, TailIndex
  <2>2. \A t \in Tasks : pc'[t] = IF t = recvQueue[1] THEN "ready" ELSE pc[t]
    BY <1>r, <2>1 DEF Wake
  <2>3. 1 \in 1 .. Len(recvQueue) /\ recvQueue[1] \in Receivers
    BY <1>0, <2>1
  <2>4. ASSUME NEW i \in 1 .. Len(recvQueue') PROVE pc'[recvQueue'[i]] = "suspended"
    <3>1. i + 1 \in 1 .. Len(recvQueue) /\ recvQueue'[i] = recvQueue[i + 1]
      BY <2>1
    <3>2. pc[recvQueue[i + 1]] = "suspended" /\ recvQueue[i + 1] # recvQueue[1]
      BY <2>3, <3>1 DEF QueueInv
    <3>3. recvQueue[i + 1] \in Tasks
      BY <1>0, <3>1, RolesAssumption DEF Tasks
    <3> QED
      BY <2>2, <3>1, <3>2, <3>3
  <2>5. \A i \in 1 .. Len(sendQueue') : pc'[sendQueue'[i].task] = "suspended"
    BY <1>0, <1>a, <1>r, <2>2, <2>3 DEF QueueInv
  <2>6. \A i, j \in 1 .. Len(recvQueue') : recvQueue'[i] = recvQueue'[j] => i = j
    BY <1>0, <2>1 DEF QueueInv
  <2>7. ASSUME NEW t \in Tasks, pc'[t] = "suspended"
        PROVE  \/ \E i \in 1 .. Len(sendQueue') : sendQueue'[i].task = t
               \/ \E i \in 1 .. Len(recvQueue') : recvQueue'[i] = t
    <3>1. pc[t] = "suspended" /\ t # recvQueue[1]
      BY <2>2, <2>7
    <3>2. CASE \E i \in 1 .. Len(recvQueue) : recvQueue[i] = t
      BY <2>1, <3>1, <3>2
    <3> QED
      BY <1>r, <3>1, <3>2 DEF QueueInv
  <2> QED
    BY <1>r, <2>4, <2>5, <2>6, <2>7 DEF QueueInv
<1>1. ASSUME NEW t \in Tasks, SendClosed(t) PROVE QueueInv'
  BY <1>1, <1>d DEF SendClosed, chan
<1>2. ASSUME NEW t \in Tasks, SendHandOver(t) PROVE QueueInv'
  BY <1>2, <1>r DEF SendHandOver
<1>3. ASSUME NEW t \in Tasks, SendBuffer(t) PROVE QueueInv'
  BY <1>3, <1>d DEF SendBuffer
<1>4. ASSUME NEW t \in Tasks, SendWait(t) PROVE QueueInv'
  <2> DEFINE x == [task |-> t, data |-> sent']
  <2>1. t \in Senders /\ pc[t] = "run" /\ x \in Items
    BY <1>4, CapacityAssumption DEF SendWait, SendCall, TypeOK, Items, Vals
  <2>2. /\ Len(sendQueue') = Len(sendQueue) + 1 /\ sendQueue'[Len(sendQueue) + 1].task = t
        /\ \A i \in 1 .. Len(sendQueue) : sendQueue'[i] = sendQueue[i]
    BY <1>0, <1>4, <2>1, AppendProperties DEF SendWait
  <2>3. pc' = [pc EXCEPT ![t] = "suspended"] /\ recvQueue' = recvQueue
    BY <1>4 DEF SendWait, Suspend
  <2>4. \A i \in 1 .. Len(sendQueue) : sendQueue[i].task # t
    BY <1>0, <2>1 DEF QueueInv
  <2>5. \A i \in 1 .. Len(sendQueue') : i \in 1 .. Len(sendQueue) \/ i = Len(sendQueue) + 1
    BY <1>0, <2>2
  <2>6. \A i \in 1 .. Len(sendQueue') : pc'[sendQueue'[i].task] = "suspended"
    BY <1>0, <1>a, <2>1, <2>2, <2>3, <2>5 DEF QueueInv
  <2>7. \A i \in 1 .. Len(recvQueue') : pc'[recvQueue'[i]] = "suspended"
    BY <1>0, <1>a, <2>1, <2>3 DEF QueueInv
  <2>8. \A i, j \in 1 .. Len(sendQueue') : sendQueue'[i].task = sendQueue'[j].task => i = j
    BY <2>2, <2>4, <2>5 DEF QueueInv
  <2>9. ASSUME NEW u \in Tasks, pc'[u] = "suspended"
        PROVE  \/ \E i \in 1 .. Len(sendQueue') : sendQueue'[i].task = u
               \/ \E i \in 1 .. Len(recvQueue') : recvQueue'[i] = u
    <3>1. Len(sendQueue) + 1 \in 1 .. Len(sendQueue') /\ \A i \in 1 .. Len(sendQueue) : i \in 1 .. Len(sendQueue')
      BY <1>0, <2>2
    <3>2. u = t \/ pc[u] = "suspended"
      BY <1>0, <2>3, <2>9
    <3> QED
      BY <2>2, <2>3, <3>1, <3>2 DEF QueueInv
  <2> QED
    BY <2>3, <2>6, <2>7, <2>8, <2>9 DEF QueueInv
<1>5. ASSUME NEW t \in Tasks, RecvClosed(t) PROVE QueueInv'
  BY <1>5, <1>d DEF RecvClosed, chan
<1>6. ASSUME NEW t \in Tasks, RecvBuffer(t) PROVE QueueInv'
  BY <1>6, <1>d, <1>s DEF RecvBuffer, Waits
<1>7. ASSUME NEW t \in Tasks, RecvHandOver(t) PROVE QueueInv'
  BY <1>7, <1>s DEF RecvHandOver
<1>8. ASSUME NEW t \in Tasks, RecvWait(t) PROVE QueueInv'
  <2>1. t \in Receivers /\ pc[t] = "run"
    BY <1>8 DEF RecvWait, RecvCall
  <2>2. /\ Len(recvQueue') = Len(recvQueue) + 1 /\ recvQueue'[Len(recvQueue) + 1] = t
        /\ \A i \in 1 .. Len(recvQueue) : recvQueue'[i] = recvQueue[i]
    BY <1>0, <1>8, <2>1, AppendProperties DEF RecvWait
  <2>3. pc' = [pc EXCEPT ![t] = "suspended"] /\ sendQueue' = sendQueue
    BY <1>8 DEF RecvWait, Suspend
  <2>4. \A i \in 1 .. Len(recvQueue) : recvQueue[i] # t
    BY <1>0, <2>1 DEF QueueInv
  <2>5. \A i \in 1 .. Len(recvQueue') : i \in 1 .. Len(recvQueue) \/ i = Len(recvQueue) + 1
    BY <1>0, <2>2
  <2>6. \A i \in 1 .. Len(recvQueue') : pc'[recvQueue'[i]] = "suspended"
    BY <1>0, <1>a, <2>1, <2>2, <2>3, <2>5 DEF QueueInv
  <2>7. \A i \in 1 .. Len(sendQueue') : pc'[sendQueue'[i].task] = "suspended"
    BY <1>0, <1>a, <2>1, <2>3 DEF QueueInv
  <2>8. \A i, j \in 1 .. Len(recvQueue') : recvQueue'[i] = recvQueue'[j] => i = j
    BY <2>2, <2>4, <2>5 DEF QueueInv
  <2>9. ASSUME NEW u \in Tasks, pc'[u] = "suspended"
        PROVE  \/ \E i \in 1 .. Len(sendQueue') : sendQueue'[i].task = u
               \/ \E i \in 1 .. Len(recvQueue') : recvQueue'[i] = u
    <3>1. Len(recvQueue) + 1 \in 1 .. Len(recvQueue') /\ \A i \in 1 .. Len(recvQueue) : i \in 1 .. Len(recvQueue')
      BY <1>0, <2>2
    <3>2. u = t \/ pc[u] = "suspended"
      BY <1>0, <2>3, <2>9
    <3> QED
      BY <2>2, <2>3, <3>1, <3>2 DEF QueueInv
  <2> QED
    BY <2>3, <2>6, <2>7, <2>8, <2>9 DEF QueueInv
<1>9. ASSUME Close PROVE QueueInv'
  <2>1. \A t \in Tasks : pc[t] = "suspended" => t \in Turned
    <3>1. Range(recvQueue) = {recvQueue[i] : i \in 1 .. Len(recvQueue)}
      BY <1>0, RangeEquality
    <3> QED
      BY <3>1 DEF QueueInv, Turned, TasksOf
  <2>2. \A t \in Tasks : pc'[t] # "suspended"
    BY <1>9, <2>1 DEF Close, Wake
  <2>3. Len(sendQueue') = 0 /\ Len(recvQueue') = 0
    BY <1>9 DEF Close
  <2> QED
    BY <2>2, <2>3 DEF QueueInv
<1>10. ASSUME NEW t \in Tasks, Resume(t) PROVE QueueInv'
  BY <1>0, <1>a, <1>10 DEF QueueInv, Resume, chan
<1>11. CASE UNCHANGED vars
  BY <1>11, <1>d DEF vars, chan
<1> QED
  BY <1>1, <1>2, <1>3, <1>4, <1>5, <1>6, <1>7, <1>8, <1>9, <1>10, <1>11 DEF Next, Send, Recv

\* The queues are in order in every state.
LEMMA Queues == Spec => []QueueInv
<1>1. Init => QueueInv
  BY DEF Init, QueueInv
<1>2. TypeOK /\ QueueInv /\ [Next]_vars => QueueInv'
  BY QueueStep
<1> QED
  BY <1>1, <1>2, Typing, PTL DEF Spec

\* A coroutine is suspended exactly while it is in one of the queues: every
\* waiting operation can be found by its partner, and by a Close that gets in,
\* after which nobody is suspended.
THEOREM Suspended == Spec => []SuspendedIsQueued
<1>1. TypeOK /\ QueueInv /\ ClosedInv => SuspendedIsQueued
  <2> SUFFICES ASSUME TypeOK, QueueInv, ClosedInv PROVE SuspendedIsQueued
    OBVIOUS
  <2>1. Range(recvQueue) = {recvQueue[i] : i \in 1 .. Len(recvQueue)}
    BY RangeEquality DEF TypeOK
  <2>2. \A t \in Tasks : pc[t] = "suspended" <=> t \in TasksOf(sendQueue) \cup Range(recvQueue)
    BY <2>1 DEF QueueInv, TasksOf
  <2>3. ASSUME closed, NEW t \in Tasks PROVE pc[t] # "suspended"
    BY <2>3 DEF QueueInv, ClosedInv
  <2> QED
    BY <2>2, <2>3 DEF SuspendedIsQueued
<1>2. OrderInv => TypeOK /\ ClosedInv
  BY DEF OrderInv
<1> QED
  BY <1>1, <1>2, Order, Queues, PTL

-----------------------------------------------------------------------------
(* The lock held while suspended *)

\* When the lock stays held, a suspended coroutine has it and none was woken.
HeldInv ==
  held => /\ \A t \in Tasks : pc[t] # "ready"
          /\ (\E t \in Tasks : pc[t] = "suspended") => mtx # NULL

\* While the lock is held so, no operation gets it.
LEMMA NobodyGetsIn ==
  ASSUME TypeOK, HeldInv, held, NEW u \in Tasks, pc[u] = "suspended", [Next]_vars
  PROVE  UNCHANGED vars
<1>1. ~Locks /\ \A t \in Tasks : pc[t] # "ready"
  BY DEF HeldInv, Locks
<1>2. ~Close
  BY <1>1 DEF Close
<1>3. ASSUME NEW t \in Tasks PROVE ~Send(t) /\ ~Recv(t) /\ ~Resume(t)
  <2>1. ~SendCall(t) /\ ~RecvCall(t)
    BY <1>1 DEF SendCall, RecvCall
  <2>2. ~Send(t)
    BY <2>1 DEF Send, SendClosed, SendHandOver, SendBuffer, SendWait
  <2>3. ~Recv(t)
    BY <2>1 DEF Recv, RecvClosed, RecvBuffer, RecvHandOver, RecvWait
  <2> QED
    BY <1>1, <2>2, <2>3 DEF Resume
<1> QED
  BY <1>2, <1>3 DEF Next

\* Every step keeps it: an operation that would wake somebody finds nobody in
\* the queues, because whoever is there holds the lock.
LEMMA HeldStep ==
  ASSUME TypeOK, QueueInv, HeldInv, [Next]_vars
  PROVE  HeldInv'
<1>h. held' = held
  BY DEF Next, vars
<1>1. CASE ~held
  BY <1>h, <1>1 DEF HeldInv
<1>2. CASE held /\ \E t \in Tasks : pc[t] = "suspended"
  <2>1. UNCHANGED vars
    BY <1>2, NobodyGetsIn
  <2> QED
    BY <1>2, <2>1 DEF HeldInv, vars
<1>3. CASE held /\ \A t \in Tasks : pc[t] # "suspended"
  <2>0. pc \in [Tasks -> {"run", "suspended", "ready"}]
    BY DEF TypeOK
  <2>1. sendQueue = <<>> /\ recvQueue = <<>>
    <3>1. /\ sendQueue \in Seq(Items) /\ recvQueue \in Seq(Receivers)
          /\ \A i \in 1 .. Len(sendQueue) : sendQueue[i].task \in Tasks
          /\ \A i \in 1 .. Len(recvQueue) : recvQueue[i] \in Tasks
      <4>1. sendQueue \in Seq(Items) /\ recvQueue \in Seq(Receivers)
        BY DEF TypeOK, Items, Vals
      <4>2. \A i \in 1 .. Len(sendQueue) : sendQueue[i] \in Items
        BY <4>1, ElementOfSeq
      <4> QED
        BY <4>1, <4>2, ElementOfSeq DEF Items, Tasks
    <3>2. Len(sendQueue) \in Nat /\ Len(recvQueue) \in Nat
      BY <3>1, LenProperties
    <3>3. Len(sendQueue) = 0 /\ Len(recvQueue) = 0
      BY <1>3, <3>1, <3>2 DEF QueueInv
    <3> QED
      BY <3>1, <3>3, EmptySeq
  <2>r. \A t \in Tasks : pc[t] = "run"
    BY <1>3, <2>0 DEF HeldInv
  <2>2. ASSUME pc' = pc PROVE HeldInv'
    BY <1>3, <2>2, <2>r DEF HeldInv
  <2>3. ASSUME NEW t \in Tasks, Suspend(t) PROVE HeldInv'
    <3>1. pc' = [pc EXCEPT ![t] = "suspended"] /\ mtx' = t /\ t # NULL
      BY <1>3, <2>3, RolesAssumption DEF Suspend, Tasks
    <3> QED
      BY <2>0, <2>r, <3>1 DEF HeldInv
  <2>4. ASSUME NEW t \in Tasks, Send(t) PROVE HeldInv'
    BY <2>1, <2>2, <2>3, <2>4
    DEF Send, SendClosed, SendHandOver, SendBuffer, SendWait, chan
  <2>5. ASSUME NEW t \in Tasks, Recv(t) PROVE HeldInv'
    BY <2>1, <2>2, <2>3, <2>5
    DEF Recv, RecvClosed, RecvBuffer, RecvHandOver, RecvWait, chan, Waits
  <2>6. ASSUME NEW t \in Tasks, Resume(t) PROVE FALSE
    BY <2>6, <2>r DEF Resume
  <2>7. ASSUME Close PROVE HeldInv'
    <3>1. TasksOf(sendQueue) = {} /\ Range(recvQueue) = {}
      BY <2>1 DEF TasksOf, Range
    <3>t. Turned = {}
      BY <3>1 DEF Turned
    <3>2. pc' = pc
      BY <2>0, <2>7, <3>t DEF Close, Wake
    <3> QED
      BY <2>2, <3>2
  <2> QED
    BY <2>2, <2>4, <2>5, <2>6, <2>7 DEF Next, vars
<1> QED
  BY <1>1, <1>2, <1>3

\* In the source's reading an operation that suspends is the channel's last, for
\* any coroutines and capacity.
THEOREM HeldLast == Spec => HeldForGood
<1>1. Init => HeldInv
  BY DEF Init, HeldInv
<1>2. TypeOK /\ QueueInv /\ HeldInv /\ [Next]_vars => HeldInv'
  BY HeldStep
<1>3. TypeOK /\ HeldInv /\ [Next]_vars =>
        [held /\ (\E t \in Tasks : pc[t] = "suspended") => UNCHANGED <<chan, pc, hist>>]_vars
  BY NobodyGetsIn DEF vars
<1> QED
  BY <1>1, <1>2, <1>3, Typing, Queues, PTL DEF Spec, HeldForGood
=============================================================================
