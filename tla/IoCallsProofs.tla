--------------------------- MODULE IoCallsProofs ---------------------------
(***************************************************************************)
(* Who refers to the frame of a hooked call, for any number of coroutines, *)
(* calls and ring entries, and the flag IOSubmitThread sleeps behind.      *)
(*                                                                         *)
(* NoDanglingFrame and UntimedResumedOnce are not inductive: that a frame  *)
(* is still suspended when the kernel is given it follows from where the   *)
(* reference has been.  The invariant therefore follows the reference.     *)
(* For each coroutine without a timeout it is in at most one of eight      *)
(* places, from ioQueue_ to a runnable queue, there once, and names the    *)
(* current call, in which the coroutine is suspended (Token).  A step      *)
(* leaves the reference where it is, drops it, or moves it to the next     *)
(* place.  Two facts support this: timers and linked entries in the rings  *)
(* are a timed call's (KindInv), and the entry that IOSubmitThread works   *)
(* on is not published before it says so (PrivateInv), which a Stop        *)
(* breaks.  A chain of entries the kernel takes at once has at most one of *)
(* an untimed call, its last.                                              *)
(***************************************************************************)
EXTENDS IoCalls, FiniteSetTheorems, SequenceTheorems, TLAPS

\* A timer in the rings, and an entry linked to the next, belongs to a timed call,
\* and the completion of a request has a result that a call returns with.
TimerOf(e)  == e.type = "TIMEOUT" \/ e.link => e.res.task \in Timed
ResultOf(c) == /\ c.type = "TIMEOUT" => c.res.task \in Timed
               /\ c.type = "NORMAL" => c.val = "done"
KindInv ==
  /\ \A i \in 1 .. Len(sq) : TimerOf(sq[i])
  /\ \A x \in inflight : x.timed => x.res.task \in Timed
  /\ \A i \in 1 .. Len(cq) : ResultOf(cq[i])
  /\ slot # NULL => ResultOf(slot)
  /\ spc = "exec_timer" => req.task \in Timed

\* Before a Stop, the entry that IOSubmitThread has prepared is not published
\* before the thread submits it.
PrivateInv ==
  opc = "idle" /\ spc = "submit" => published < Len(sq) /\ sq[Len(sq)].res = req

\* Whether a queue of references, and one of entries or completions, refers to u.
RefIn(s, u) == \E i \in 1 .. Len(s) : s[i].task = u
ResIn(s, u) == \E i \in 1 .. Len(s) : s[i].res.task = u

\* The places a reference to the frame of u goes through.
Queued(u)    == RefIn(ioQueue, u)
Executed(u)  == spc = "exec" /\ req.task = u
Submitted(u) == ResIn(sq, u)
Working(u)   == \E x \in inflight : x.res.task = u
Completed(u) == ResIn(cq, u)
Read(u)      == slot # NULL /\ slot.res.task = u
Resumed(u)   == tk = u
Runnable(u)  == runq[u] # 0

\* A reference is in one of them at most ...
Alone(u) ==
  /\ Runnable(u)  => ~Resumed(u)
  /\ Read(u)      => ~Resumed(u) /\ ~Runnable(u)
  /\ Completed(u) => ~Read(u) /\ ~Resumed(u) /\ ~Runnable(u)
  /\ Working(u)   => ~Completed(u) /\ ~Read(u) /\ ~Resumed(u) /\ ~Runnable(u)
  /\ Submitted(u) => ~Working(u) /\ ~Completed(u) /\ ~Read(u) /\ ~Resumed(u) /\ ~Runnable(u)
  /\ Executed(u)  => ~Submitted(u) /\ ~Working(u) /\ ~Completed(u) /\ ~Read(u) /\ ~Resumed(u)
                     /\ ~Runnable(u)
  /\ Queued(u)    => ~Executed(u) /\ ~Submitted(u) /\ ~Working(u) /\ ~Completed(u) /\ ~Read(u)
                     /\ ~Resumed(u) /\ ~Runnable(u)

\* ... once, and it is to the frame of the current call ...
RefsOnce(s, u, k) ==
  \A i, j \in 1 .. Len(s) : s[i].task = u /\ s[j].task = u => i = j /\ s[i].call = k
ResOnce(s, u, k) ==
  \A i, j \in 1 .. Len(s) : s[i].res.task = u /\ s[j].res.task = u => i = j /\ s[i].res.call = k
QueueOnce(u)  == RefsOnce(ioQueue, u, call[u])
SqOnce(u)     == ResOnce(sq, u, call[u])
CqOnce(u)     == ResOnce(cq, u, call[u])
OthersOnce(u) ==
  /\ Executed(u) => req.call = call[u]
  /\ \A x, y \in inflight : x.res.task = u /\ y.res.task = u => x = y /\ x.res.call = call[u]
  /\ Read(u) => slot.res.call = call[u]
  /\ runq[u] <= 1

\* ... in which u is suspended, with the result there when it is resumed.
Somewhere(u) ==
  \/ Queued(u) \/ Executed(u) \/ Submitted(u) \/ Working(u) \/ Completed(u) \/ Read(u)
  \/ Resumed(u) \/ Runnable(u)
Waits(u) ==
  /\ Somewhere(u) => tpc[u] = "wait"
  /\ Resumed(u) \/ Runnable(u) => ret[u] # "unset"

Token(u) ==
  Alone(u) /\ QueueOnce(u) /\ SqOnce(u) /\ CqOnce(u) /\ OthersOnce(u) /\ Waits(u)
TokenInv == opc = "idle" => \A u \in Tasks \ Timed : Token(u)

\* IOSubmitThread about to sleep, or asleep, has nothing in its queue that nobody
\* will wake it for.
SleepInv ==
  /\ spc \in InWait => ioWait
  /\ spc \in {"park", "parked"} /\ ioWait /\ ioQueue # <<>> => nCheck > 0 \/ nWake > 0

-----------------------------------------------------------------------------
(* Queues *)

\* A reference, an entry or a completion at the end of a queue.
LEMMA AppendFacts ==
  ASSUME NEW S, NEW s \in Seq(S), NEW x \in S
  PROVE  /\ Append(s, x) \in Seq(S) /\ Len(Append(s, x)) = Len(s) + 1 /\ Append(s, x) # <<>>
         /\ \A i \in 1 .. Len(s) : Append(s, x)[i] = s[i]
         /\ Append(s, x)[Len(s) + 1] = x
         /\ \A i \in 1 .. Len(s) + 1 : i \in 1 .. Len(s) \/ i = Len(s) + 1
         /\ Len(s) \in Nat
<1>1. Len(s) \in Nat
  BY LenProperties
<1>2. \A i \in 1 .. Len(s) + 1 : i \in 1 .. Len(s) \/ i = Len(s) + 1
  BY <1>1
<1> QED
  BY <1>1, <1>2, AppendProperties

\* Two completions at the end of the queue.
LEMMA TwoFacts ==
  ASSUME NEW S, NEW s \in Seq(S), NEW x \in S, NEW y \in S
  PROVE  s \o <<x, y>> = Append(Append(s, x), y)
<1> DEFINE n == Len(s)
           l == s \o <<x, y>>
           r == Append(Append(s, x), y)
<1>1. <<x, y>> \in Seq(S) /\ Len(<<x, y>>) = 2 /\ <<x, y>>[1] = x /\ <<x, y>>[2] = y
  OBVIOUS
<1>2. /\ l \in Seq(S) /\ Len(l) = n + 2 /\ n \in Nat
      /\ \A i \in 1 .. n + 2 : l[i] = IF i <= n THEN s[i] ELSE <<x, y>>[i - n]
  BY <1>1, ConcatProperties, LenProperties
<1>3. /\ Append(s, x) \in Seq(S) /\ Len(Append(s, x)) = n + 1
      /\ \A i \in 1 .. n : Append(s, x)[i] = s[i]
      /\ Append(s, x)[n + 1] = x
  BY AppendFacts
<1>4. /\ r \in Seq(S) /\ Len(r) = (n + 1) + 1
      /\ \A i \in 1 .. n + 1 : r[i] = Append(s, x)[i]
      /\ r[(n + 1) + 1] = y
  BY <1>3, AppendFacts
<1> HIDE DEF n, l, r
<1>5. ASSUME NEW i \in 1 .. n + 2 PROVE l[i] = r[i]
  <2>1. CASE i \in 1 .. n
    <3>1. i <= n /\ i \in 1 .. n + 1
      BY <1>2, <2>1
    <3> QED
      BY <1>2, <1>3, <1>4, <2>1, <3>1
  <2>2. CASE i = n + 1
    <3>1. i - n = 1 /\ ~(i <= n) /\ i \in 1 .. n + 1
      BY <1>2, <2>2
    <3> QED
      BY <1>1, <1>2, <1>3, <1>4, <2>2, <3>1
  <2>3. CASE i = n + 2
    <3>1. i - n = 2 /\ ~(i <= n) /\ i = (n + 1) + 1
      BY <1>2, <2>3
    <3> QED
      BY <1>1, <1>2, <1>4, <2>3, <3>1
  <2> QED
    BY <1>2, <2>1, <2>2, <2>3
<1>6. Len(l) = Len(r)
  BY <1>2, <1>4
<1>7. l = r
  BY <1>2, <1>4, <1>5, <1>6, SeqEqual
<1> QED
  BY <1>7 DEF l, r

\* The first n of a queue are taken.
LEMMA DropFacts ==
  ASSUME NEW S, NEW s \in Seq(S), NEW n \in Nat \ {0}, n <= Len(s)
  PROVE  /\ SubSeq(s, n + 1, Len(s)) \in Seq(S) /\ Len(SubSeq(s, n + 1, Len(s))) = Len(s) - n
         /\ \A i \in 1 .. Len(s) - n : i + n \in 1 .. Len(s) /\ SubSeq(s, n + 1,
              Len(s))[i] = s[i + n]
<1>1. Len(s) \in Nat /\ n + 1 \in Nat
  OBVIOUS
<1>2. CASE n = Len(s)
  <2>1. SubSeq(s, n + 1, Len(s)) = <<>>
    BY <1>1, <1>2
  <2> QED
    BY <1>1, <1>2, <2>1
<1>3. CASE n < Len(s)
  BY <1>1, <1>3
<1> QED
  BY <1>1, <1>2, <1>3

\* The first of a queue is taken.
LEMMA TailFacts ==
  ASSUME NEW S, NEW s \in Seq(S), s # <<>>
  PROVE  /\ Head(s) = s[1] /\ Head(s) \in S /\ 1 \in 1 .. Len(s) /\ Len(s) \in Nat \ {0}
         /\ Tail(s) \in Seq(S) /\ Tail(s) = SubSeq(s, 1 + 1, Len(s)) /\ Len(Tail(s)) = Len(s) - 1
         /\ \A i \in 1 .. Len(s) - 1 : i + 1 \in 1 .. Len(s) /\ Tail(s)[i] = s[i + 1]
  OBVIOUS

\* What an extended queue refers to.
LEMMA AppendRefers ==
  ASSUME NEW S, NEW s \in Seq(S), NEW x \in S, NEW u, NEW k
  PROVE  /\ RefIn(Append(s, x), u) => RefIn(s, u) \/ x.task = u
         /\ ResIn(Append(s, x), u) => ResIn(s, u) \/ x.res.task = u
         /\ (RefsOnce(s, u, k) /\ (x.task = u => ~RefIn(s, u) /\ x.call = k))
              => RefsOnce(Append(s, x), u, k)
         /\ (ResOnce(s, u, k) /\ (x.res.task = u => ~ResIn(s, u) /\ x.res.call = k))
              => ResOnce(Append(s, x), u, k)
<1> DEFINE l == Append(s, x)
           n == Len(s)
<1>1. /\ Len(l) = n + 1 /\ n \in Nat
      /\ \A i \in 1 .. n : l[i] = s[i]
      /\ l[n + 1] = x
      /\ \A i \in 1 .. n + 1 : i \in 1 .. n \/ i = n + 1
  BY AppendFacts
<1> HIDE DEF l, n
<1>2. RefIn(l, u) => RefIn(s, u) \/ x.task = u
  BY <1>1 DEF RefIn, n
<1>3. ResIn(l, u) => ResIn(s, u) \/ x.res.task = u
  BY <1>1 DEF ResIn, n
<1>4. ASSUME RefsOnce(s, u, k), x.task = u => ~RefIn(s, u) /\ x.call = k PROVE RefsOnce(l, u, k)
  BY <1>1, <1>4 DEF RefsOnce, RefIn, n
<1>5. ASSUME ResOnce(s, u, k), x.res.task = u => ~ResIn(s, u) /\ x.res.call = k
      PROVE  ResOnce(l, u, k)
  BY <1>1, <1>5 DEF ResOnce, ResIn, n
<1> QED
  BY <1>2, <1>3, <1>4, <1>5 DEF l

\* What a queue refers to once its first n are taken.
LEMMA DropRefers ==
  ASSUME NEW S, NEW s \in Seq(S), NEW n \in Nat \ {0}, n <= Len(s), NEW u, NEW k
  PROVE  LET l == SubSeq(s, n + 1, Len(s)) IN
         /\ RefIn(l, u) => RefIn(s, u)
         /\ ResIn(l, u) => ResIn(s, u)
         /\ RefsOnce(s, u, k) => RefsOnce(l, u, k)
         /\ ResOnce(s, u, k) => ResOnce(l, u, k)
         /\ \A i \in 1 .. n : RefsOnce(s, u, k) /\ s[i].task = u
              => ~RefIn(l, u) /\ RefIn(s, u) /\ s[i].call = k
         /\ \A i \in 1 .. n : ResOnce(s, u, k) /\ s[i].res.task = u
              => ~ResIn(l, u) /\ ResIn(s, u) /\ s[i].res.call = k
<1> DEFINE l == SubSeq(s, n + 1, Len(s))
           m == Len(s)
<1>1. /\ Len(l) = m - n /\ m \in Nat /\ 1 \in 1 .. m
      /\ \A i \in 1 .. m - n : i + n \in 1 .. m /\ l[i] = s[i + n]
  BY DropFacts, LenProperties
<1> HIDE DEF l, m
<1>2. (RefIn(l, u) => RefIn(s, u)) /\ (ResIn(l, u) => ResIn(s, u))
  BY <1>1 DEF RefIn, ResIn, m
<1>3. RefsOnce(s, u, k) => RefsOnce(l, u, k)
  <2> SUFFICES ASSUME RefsOnce(s, u, k),
                      NEW i \in 1 .. m - n, NEW j \in 1 .. m - n, l[i].task = u, l[j].task = u
               PROVE  i = j /\ l[i].call = k
    BY <1>1 DEF RefsOnce
  <2>1. PICK a \in 1 .. m, b \in 1 .. m : a = i + n /\ b = j + n /\ l[i] = s[a] /\ l[j] = s[b]
    BY <1>1
  <2>2. a = b /\ s[a].call = k
    BY <2>1 DEF RefsOnce, m
  <2> QED
    BY <1>1, <2>1, <2>2
<1>4. ResOnce(s, u, k) => ResOnce(l, u, k)
  <2> SUFFICES ASSUME ResOnce(s, u, k),
                      NEW i \in 1 .. m - n, NEW j \in 1 .. m - n, l[i].res.task = u,
                           l[j].res.task = u
               PROVE  i = j /\ l[i].res.call = k
    BY <1>1 DEF ResOnce
  <2>1. PICK a \in 1 .. m, b \in 1 .. m : a = i + n /\ b = j + n /\ l[i] = s[a] /\ l[j] = s[b]
    BY <1>1
  <2>2. a = b /\ s[a].res.call = k
    BY <2>1 DEF ResOnce, m
  <2> QED
    BY <1>1, <2>1, <2>2
<1>5. \A i \in 1 .. n : i \in 1 .. m /\ \A j \in 1 .. m - n : j + n # i
  BY <1>1 DEF m
<1>6. ASSUME NEW i \in 1 .. n, RefsOnce(s, u, k), s[i].task = u
      PROVE  ~RefIn(l, u) /\ RefIn(s, u) /\ s[i].call = k
  <2>1. RefIn(s, u) /\ s[i].call = k
    BY <1>5, <1>6 DEF RefsOnce, RefIn, m
  <2>2. ASSUME NEW j \in 1 .. m - n, l[j].task = u PROVE FALSE
    <3>1. j + n \in 1 .. m /\ s[j + n].task = u /\ j + n # i
      BY <1>1, <1>5, <2>2
    <3> QED
      BY <1>5, <1>6, <3>1 DEF RefsOnce, m
  <2> QED
    BY <1>1, <2>1, <2>2 DEF RefIn
<1>7. ASSUME NEW i \in 1 .. n, ResOnce(s, u, k), s[i].res.task = u
      PROVE  ~ResIn(l, u) /\ ResIn(s, u) /\ s[i].res.call = k
  <2>1. ResIn(s, u) /\ s[i].res.call = k
    BY <1>5, <1>7 DEF ResOnce, ResIn, m
  <2>2. ASSUME NEW j \in 1 .. m - n, l[j].res.task = u PROVE FALSE
    <3>1. j + n \in 1 .. m /\ s[j + n].res.task = u /\ j + n # i
      BY <1>1, <1>5, <2>2
    <3> QED
      BY <1>5, <1>7, <3>1 DEF ResOnce, m
  <2> QED
    BY <1>1, <2>1, <2>2 DEF ResIn
<1> QED
  BY <1>2, <1>3, <1>4, <1>6, <1>7 DEF l

\* What a queue refers to once its first is taken.
LEMMA TailRefers ==
  ASSUME NEW S, NEW s \in Seq(S), s # <<>>, NEW u, NEW k
  PROVE  /\ RefIn(Tail(s), u) => RefIn(s, u)
         /\ ResIn(Tail(s), u) => ResIn(s, u)
         /\ RefsOnce(s, u, k) => RefsOnce(Tail(s), u, k)
         /\ ResOnce(s, u, k) => ResOnce(Tail(s), u, k)
         /\ (RefsOnce(s, u, k) /\ Head(s).task = u)
              => ~RefIn(Tail(s), u) /\ RefIn(s, u) /\ Head(s).call = k
         /\ (ResOnce(s, u, k) /\ Head(s).res.task = u)
              => ~ResIn(Tail(s), u) /\ ResIn(s, u) /\ Head(s).res.call = k
<1>1. PICK n \in Nat \ {0} : n = 1
  OBVIOUS
<1>2. Head(s) = s[1] /\ n <= Len(s) /\ Tail(s) = SubSeq(s, n + 1, Len(s))
  BY <1>1, TailFacts
<1> DEFINE l == SubSeq(s, n + 1, Len(s))
<1>3. /\ RefIn(l, u) => RefIn(s, u)
      /\ ResIn(l, u) => ResIn(s, u)
      /\ RefsOnce(s, u, k) => RefsOnce(l, u, k)
      /\ ResOnce(s, u, k) => ResOnce(l, u, k)
      /\ \A i \in 1 .. n : RefsOnce(s, u, k) /\ s[i].task = u
           => ~RefIn(l, u) /\ RefIn(s, u) /\ s[i].call = k
      /\ \A i \in 1 .. n : ResOnce(s, u, k) /\ s[i].res.task = u
           => ~ResIn(l, u) /\ ResIn(s, u) /\ s[i].res.call = k
  BY <1>2, DropRefers
<1>4. Tail(s) = l
  BY <1>2
<1>5. 1 \in 1 .. n
  BY <1>1
<1> HIDE DEF l
<1> QED
  BY <1>2, <1>3, <1>4, <1>5

-----------------------------------------------------------------------------
(* Types *)

\* The parts of TypeOK.
CoTypes    == /\ tpc \in [Tasks -> {"body", "defer", "wait"}]
              /\ call \in [Tasks -> Nat]
              /\ ret \in [Tasks -> {"unset", "done", "EAGAIN"}]
SchedTypes == /\ ioQueue \in Seq(Refs) /\ ioWait \in BOOLEAN /\ stop \in BOOLEAN
              /\ nCheck \in Nat /\ nWake \in Nat
              /\ opc \in {"idle", "wake", "get_sqe", "submit", "end"}
ReqTypes   == /\ spc \in {"none", "loop", "pop", "lock", "pop_locked", "park", "parked", "exec",
                          "exec_timer", "submit", "advance", "end"}
              /\ req \in Refs \cup {NULL}
              /\ req = NULL <=> spc \notin {"exec", "exec_timer", "submit", "advance"}
              /\ refused \subseteq Refs
SqTypes    == sq \in Seq(Entries) /\ Len(sq) <= SqSize /\ published \in 0 .. Len(sq)
Requested  == [res : Refs, timed : BOOLEAN, after : Refs \cup {NULL}]
DoneTypes  == inflight \subseteq Requested /\ cq \in Seq(Cqes)
WaitTypes  == /\ wpc \in {"none", "loop", "wait", "read", "add", "end"}
              /\ slot \in Cqes \cup {NULL} /\ (wpc = "read" <=> slot # NULL)
              /\ tk \in Tasks \cup {NULL}
              /\ runq \in [Tasks \cup {NULL} -> Nat]
Types == CoTypes /\ SchedTypes /\ ReqTypes /\ SqTypes /\ DoneTypes /\ WaitTypes

\* The parts together are TypeOK.
LEMMA TypesOK == Types <=> TypeOK
  BY DEF Types, CoTypes, SchedTypes, ReqTypes, SqTypes, DoneTypes, WaitTypes, TypeOK, Requested

\* The variables that a step leaves alone keep what is said of them alone.
CoSame    == tpc' = tpc /\ call' = call /\ ret' = ret
SchedSame == ioQueue' = ioQueue /\ ioWait' = ioWait /\ stop' = stop /\ nCheck' = nCheck
             /\ nWake' = nWake
SqSame    == sq' = sq /\ published' = published
DoneSame  == inflight' = inflight /\ cq' = cq
WaitSame  == wpc' = wpc /\ slot' = slot /\ tk' = tk
ReqSame   == spc' = spc /\ req' = req /\ refused' = refused

\* What a step leaves alone keeps its type.
LEMMA SameTypes ==
  ASSUME Types
  PROVE  /\ CoSame => CoTypes'
         /\ SchedSame /\ opc' = opc => SchedTypes'
         /\ ReqSame => ReqTypes'
         /\ SqSame => SqTypes'
         /\ DoneSame => DoneTypes'
         /\ WaitSame /\ runq' = runq => WaitTypes'
  BY DEF Types, CoTypes, SchedTypes, ReqTypes, SqTypes, DoneTypes, WaitTypes, CoSame, SchedSame,
         ReqSame, SqSame, DoneSame, WaitSame

\* The parts of KindInv.
SqKind   == \A i \in 1 .. Len(sq) : TimerOf(sq[i])
WorkKind == \A x \in inflight : x.timed => x.res.task \in Timed
CqKind   == \A i \in 1 .. Len(cq) : ResultOf(cq[i])
SlotKind == slot # NULL => ResultOf(slot)
ReqKind  == spc = "exec_timer" => req.task \in Timed

\* The parts together are KindInv.
LEMMA KindParts == KindInv <=> SqKind /\ WorkKind /\ CqKind /\ SlotKind /\ ReqKind
  BY DEF KindInv, SqKind, WorkKind, CqKind, SlotKind, ReqKind

\* What a step leaves alone keeps its kind.
LEMMA SameKinds ==
  ASSUME KindInv
  PROVE  /\ sq' = sq => SqKind'
         /\ inflight' = inflight => WorkKind'
         /\ cq' = cq => CqKind'
         /\ slot' = slot => SlotKind'
         /\ ReqSame => ReqKind'
  BY DEF KindInv, SqKind, WorkKind, CqKind, SlotKind, ReqKind, ReqSame

\* A new completion at the end of the completion queue.
LEMMA CqGrows ==
  ASSUME NEW s \in Seq(Cqes), \A i \in 1 .. Len(s) : ResultOf(s[i]), NEW c \in Cqes, ResultOf(c)
  PROVE  Append(s, c) \in Seq(Cqes) /\ \A i \in 1 .. Len(Append(s, c)) : ResultOf(Append(s, c)[i])
<1> HIDE DEF Cqes
<1>1. /\ Append(s, c) \in Seq(Cqes) /\ Len(Append(s, c)) = Len(s) + 1
      /\ \A i \in 1 .. Len(s) : Append(s, c)[i] = s[i]
      /\ Append(s, c)[Len(s) + 1] = c
      /\ \A i \in 1 .. Len(s) + 1 : i \in 1 .. Len(s) \/ i = Len(s) + 1
  BY AppendFacts
<1> QED
  BY <1>1

\* A prepared entry.
LEMMA EntryFacts ==
  ASSUME NEW r \in Refs, NEW y \in {"NORMAL", "TIMEOUT"}, NEW l \in BOOLEAN,
         y = "TIMEOUT" \/ l => r.task \in Timed
  PROVE  Entry(y, r, l) \in Entries /\ Entry(y, r, l).res = r /\ TimerOf(Entry(y, r, l))
  BY DEF Entry, Entries, TimerOf

\* What the submission queue is after GetSqe and the preparation of an entry.
LEMMA SqGrows ==
  ASSUME Types, SqKind, GetSqe, NEW e \in Entries, TimerOf(e), sq' = Append(sq, e),
         published' = published
  PROVE  SqTypes' /\ SqKind' /\ Len(sq') = Len(sq) + 1 /\ sq'[Len(sq')] = e
<1>1. sq \in Seq(Entries) /\ published \in 0 .. Len(sq) /\ SqSize \in Nat
  BY SizeAssumption DEF Types, SqTypes
<1>2. /\ sq' \in Seq(Entries) /\ Len(sq') = Len(sq) + 1 /\ Len(sq) \in Nat
      /\ \A i \in 1 .. Len(sq) : sq'[i] = sq[i]
      /\ sq'[Len(sq) + 1] = e
      /\ \A i \in 1 .. Len(sq) + 1 : i \in 1 .. Len(sq) \/ i = Len(sq) + 1
  BY <1>1, AppendFacts
<1>3. Len(sq') <= SqSize /\ published' \in 0 .. Len(sq')
  BY <1>1, <1>2 DEF GetSqe
<1> QED
  BY <1>1, <1>2, <1>3 DEF SqTypes, SqKind

\* What it is when another thread may be given the same entry.
LEMMA SqFilled ==
  ASSUME Types, SqKind, NEW e \in Entries, TimerOf(e), NEW other \in BOOLEAN, NEW r \in Refs,
         sq' \in Filled(e, other, r), published' = published
  PROVE  SqTypes' /\ SqKind'
<1>1. sq \in Seq(Entries) /\ published \in 0 .. Len(sq) /\ Len(sq) \in Nat /\ Len(sq) <= SqSize
  BY LenProperties DEF Types, SqTypes
<1>2. \/ GetSqe /\ sq' = Append(sq, e)
      \/ sq' = sq
      \/ Open(r) /\ sq' = [sq EXCEPT ![Len(sq)] = e]
  BY DEF Filled
<1>3. CASE GetSqe /\ sq' = Append(sq, e)
  BY <1>3, SqGrows
<1>4. CASE sq' = sq
  BY <1>4, SameTypes, SameKinds DEF SqSame, SqKind, Types, SqTypes
<1>5. CASE Open(r) /\ sq' = [sq EXCEPT ![Len(sq)] = e]
  <2>1. Len(sq) \in 1 .. Len(sq)
    BY <1>1, <1>5 DEF Open
  <2>2. /\ sq' \in Seq(Entries) /\ Len(sq') = Len(sq)
        /\ \A j \in 1 .. Len(sq) : sq'[j] = IF j = Len(sq) THEN e ELSE sq[j]
    BY <1>1, <1>5, <2>1, ExceptSeq
  <2>3. SqTypes'
    BY <1>1, <2>2 DEF SqTypes
  <2>4. SqKind'
    BY <2>2 DEF SqKind
  <2> QED
    BY <2>3, <2>4
<1> QED
  BY <1>2, <1>3, <1>4, <1>5

\* The request made of the i-th of n entries that belong together.
Nth(n, i) == [res   |-> sq[i].res,
              timed |-> i < n /\ sq[i + 1].type = "TIMEOUT",
              after |-> IF i = 1 THEN NULL ELSE sq[i - 1].res]

\* The kernel takes n entries that belong together, all but the last linked.
Taken(n) ==
  /\ n <= published /\ published <= Len(sq) /\ published' = published - n
  /\ sq' = SubSeq(sq, n + 1, Len(sq))
  /\ \A i \in 1 .. n - 1 : sq[i].res.task \in Timed
  /\ \A x \in inflight' : x \in inflight \/ \E i \in 1 .. n : x = Nth(n, i)
  /\ \/ cq' = cq
     \/ \E c \in Cqes : ResultOf(c) /\ c.type = "TIMEOUT" /\ cq' = Append(cq, c)

\* What KernelTake does.
LEMMA TakeFacts ==
  ASSUME Types, KindInv, KernelTake
  PROVE  \E n \in Nat \ {0} : Taken(n)
<1>1. sq \in Seq(Entries) /\ published \in 0 .. Len(sq) /\ Len(sq) \in Nat /\ published \in Nat
  BY LenProperties DEF Types, SqTypes
<1>2. PICK n \in 1 .. published :
        /\ Chained(n)
        /\ inflight' = inflight \cup Requests(n)
        /\ sq' = SubSeq(sq, n + 1, Len(sq))
        /\ published' = published - n
        /\ cq' = IF sq[1].type = "TIMEOUT" THEN Append(cq, Cqe("TIMEOUT", sq[1].res, "other")) ELSE cq
  BY DEF KernelTake
<1>3. n \in Nat \ {0} /\ n <= published /\ published <= Len(sq) /\ 1 \in 1 .. Len(sq)
  BY <1>1, <1>2
<1>4. \A i \in 1 .. n - 1 : sq[i].res.task \in Timed
  <2> TAKE i \in 1 .. n - 1
  <2>1. i \in 1 .. Len(sq) /\ sq[i].link
    BY <1>1, <1>2, <1>3 DEF Chained
  <2> QED
    BY <2>1 DEF KindInv, TimerOf
<1>5. \A x \in inflight' : x \in inflight \/ \E i \in 1 .. n : x = Nth(n, i)
  BY <1>2 DEF Requests, Nth
<1>6. cq' = cq \/ \E c \in Cqes : ResultOf(c) /\ c.type = "TIMEOUT" /\ cq' = Append(cq, c)
  <2>1. CASE sq[1].type # "TIMEOUT"
    BY <1>2, <2>1
  <2>2. CASE sq[1].type = "TIMEOUT"
    <3>0. sq[1] \in Entries /\ TimerOf(sq[1])
      BY <1>1, <1>3 DEF KindInv
    <3>1. sq[1].res \in Refs /\ sq[1].res.task \in Timed
      BY <2>2, <3>0 DEF TimerOf, Entries
    <3> DEFINE c == Cqe("TIMEOUT", sq[1].res, "other")
    <3>2. c \in Cqes /\ ResultOf(c) /\ c.type = "TIMEOUT"
      BY <3>1 DEF Cqe, Cqes, ResultOf
    <3>3. cq' = Append(cq, c)
      BY <1>2, <2>2
    <3> QED
      BY <3>2, <3>3
  <2> QED
    BY <2>1, <2>2
<1> QED
  BY <1>2, <1>3, <1>4, <1>5, <1>6 DEF Taken

\* The requests it makes of them.
LEMMA NthFacts ==
  ASSUME Types, NEW n \in Nat \ {0}, Taken(n), NEW i \in 1 .. n
  PROVE  /\ i \in 1 .. Len(sq) /\ sq[i].res \in Refs
         /\ Nth(n, i) \in Requested /\ Nth(n, i).res = sq[i].res
         /\ Nth(n, i).timed => Nth(n, i).res.task \in Timed
<1>1. sq \in Seq(Entries) /\ Len(sq) \in Nat /\ published \in Nat
  BY LenProperties DEF Types, SqTypes
<1>2. i \in 1 .. Len(sq) /\ (i # 1 => i - 1 \in 1 .. Len(sq)) /\ (i < n => i \in 1 .. n - 1)
  BY <1>1 DEF Taken
<1>3. sq[i].res \in Refs /\ (i # 1 => sq[i - 1].res \in Refs)
  <2>1. \A j \in 1 .. Len(sq) : sq[j] \in Entries
    BY <1>1
  <2>2. \A e \in Entries : e.res \in Refs
    BY DEF Entries
  <2> QED
    BY <1>2, <2>1, <2>2
<1>4. Nth(n, i) \in Requested /\ Nth(n, i).res = sq[i].res
  BY <1>3 DEF Nth, Requested
<1>5. Nth(n, i).timed => Nth(n, i).res.task \in Timed
  BY <1>2 DEF Nth, Taken
<1> QED
  BY <1>2, <1>3, <1>4, <1>5

\* A request ends: what it leaves in flight, and the completions it posts.
Ended(x, a) ==
  /\ x \in inflight /\ inflight' = Without(x)
  /\ a \in Cqes /\ ResultOf(a) /\ a.res = x.res
Posted(x, a, b) ==
  /\ Ended(x, a) /\ x.timed
  /\ b \in Cqes /\ ResultOf(b) /\ b.res = x.res
  /\ cq' = Append(Append(cq, a), b)
Detached(x, a) ==
  /\ x \in inflight /\ inflight' = (inflight \ {x}) \cup {[x EXCEPT !.timed = FALSE]}
  /\ a \in Cqes /\ ResultOf(a) /\ a.res = x.res /\ x.timed
  /\ cq' = Append(cq, a)
Ends ==
  \E x \in inflight, a \in Cqes :
    \/ Ended(x, a) /\ cq' = Append(cq, a)
    \/ \E b \in Cqes : Posted(x, a, b)
    \/ Detached(x, a)

\* What a request is once x, after which it may come, has ended.
Left(x, y) == IF y.after = x.res THEN [y EXCEPT !.after = NULL] ELSE y

\* The requests left are what the others are then, and of the same calls.
LEMMA WithoutFacts ==
  ASSUME Types, NEW x \in inflight
  PROVE  /\ \A y \in Without(x) : \E z \in inflight \ {x} : y = Left(x, z)
         /\ \A z \in inflight : /\ Left(x, z) \in Requested
                              /\ Left(x, z).res = z.res /\ Left(x, z).timed = z.timed
<1>1. inflight \subseteq Requested
  BY DEF Types, DoneTypes
<1>2. ASSUME NEW z \in inflight
      PROVE  Left(x, z) \in Requested /\ Left(x, z).res = z.res /\ Left(x, z).timed = z.timed
  BY <1>1 DEF Left, Requested
<1>3. \A y \in Without(x) : \E z \in inflight \ {x} : y = Left(x, z)
  BY DEF Without, Left
<1> QED
  BY <1>2, <1>3

\* Two completions are posted one after the other, in either order.
LEMMA PostFacts ==
  ASSUME Types, NEW a \in Cqes, NEW b \in Cqes, Post(a, b)
  PROVE  cq' = Append(Append(cq, a), b) \/ cq' = Append(Append(cq, b), a)
<1>1. cq \in Seq(Cqes)
  BY DEF Types, DoneTypes
<1>2. cq \o <<a, b>> = Append(Append(cq, a), b) /\ cq \o <<b, a>> = Append(Append(cq, b), a)
  BY <1>1, TwoFacts
<1> QED
  BY <1>2 DEF Post

\* The kernel ends a request in one of these ways.
LEMMA EndFacts ==
  ASSUME Types, KindInv, KernelComplete \/ KernelExpire
  PROVE  Ends
<1>1. \A x \in inflight : x \in Requested /\ x.res \in Refs /\ (x.timed => x.res.task \in Timed)
  BY DEF Types, DoneTypes, KindInv, Requested
<1>2. \A r \in Refs : /\ Cqe("NORMAL", r, "done") \in Cqes /\ Cqe("NORMAL", r, "done").res = r
                     /\ ResultOf(Cqe("NORMAL", r, "done"))
  BY DEF Cqe, Cqes, ResultOf
<1>3. \A r \in Refs, v \in {"ECANCELED", "ETIME", "other"} :
        /\ Cqe("TIMEOUT", r, v) \in Cqes /\ Cqe("TIMEOUT", r, v).res = r
        /\ r.task \in Timed => ResultOf(Cqe("TIMEOUT", r, v))
  BY DEF Cqe, Cqes, ResultOf
<1>4. CASE KernelComplete
  <2>1. PICK x \in inflight :
          /\ inflight' = Without(x)
          /\ \/ ~x.timed /\ cq' = Append(cq, Cqe("NORMAL", x.res, "done"))
             \/ x.timed /\ Post(Cqe("NORMAL", x.res, "done"), Cqe("TIMEOUT", x.res, "ECANCELED"))
    BY <1>4 DEF KernelComplete
  <2>2. PICK a \in Cqes : a = Cqe("NORMAL", x.res, "done") /\ ResultOf(a) /\ a.res = x.res
    BY <1>1, <1>2
  <2>3. CASE ~x.timed
    BY <2>1, <2>2, <2>3 DEF Ends, Ended
  <2>4. CASE x.timed
    <3>1. PICK b \in Cqes : b = Cqe("TIMEOUT", x.res, "ECANCELED") /\ ResultOf(b) /\ b.res = x.res
      BY <1>1, <1>3, <2>4
    <3>2. cq' = Append(Append(cq, a), b) \/ cq' = Append(Append(cq, b), a)
      BY <2>1, <2>2, <2>4, <3>1, PostFacts
    <3>3. Posted(x, a, b) \/ Posted(x, b, a)
      BY <2>1, <2>2, <2>4, <3>1, <3>2 DEF Posted, Ended
    <3> QED
      BY <3>3 DEF Ends
  <2> QED
    BY <2>3, <2>4
<1>5. CASE KernelExpire
  <2>1. PICK x \in inflight :
       /\ x.timed
       /\ \/ /\ inflight' = Without(x)
             /\ Post(Cqe("TIMEOUT", x.res, "ETIME"), Cqe("NORMAL", x.res, "done"))
          \/ /\ inflight' = Without(x)
             /\ Post(Cqe("TIMEOUT", x.res, "other"), Cqe("NORMAL", x.res, "done"))
          \/ /\ inflight' = (inflight \ {x}) \cup {[x EXCEPT !.timed = FALSE]}
             /\ cq' = Append(cq, Cqe("TIMEOUT", x.res, "other"))
    BY <1>5 DEF KernelExpire
  <2>2. PICK a \in Cqes : a = Cqe("NORMAL", x.res, "done") /\ ResultOf(a) /\ a.res = x.res
    BY <1>1, <1>2
  <2>3. PICK b \in Cqes : b = Cqe("TIMEOUT", x.res, "ETIME") /\ ResultOf(b) /\ b.res = x.res
    BY <1>1, <1>3, <2>1
  <2>4. PICK c \in Cqes : c = Cqe("TIMEOUT", x.res, "other") /\ ResultOf(c) /\ c.res = x.res
    BY <1>1, <1>3, <2>1
  <2>5. CASE inflight' = Without(x) /\ Post(b, a)
    <3>1. Posted(x, b, a) \/ Posted(x, a, b)
      BY <2>1, <2>2, <2>3, <2>5, PostFacts DEF Posted, Ended
    <3> QED
      BY <3>1 DEF Ends
  <2>6. CASE inflight' = Without(x) /\ Post(c, a)
    <3>1. Posted(x, c, a) \/ Posted(x, a, c)
      BY <2>1, <2>2, <2>4, <2>6, PostFacts DEF Posted, Ended
    <3> QED
      BY <3>1 DEF Ends
  <2>7. CASE inflight' = (inflight \ {x}) \cup {[x EXCEPT !.timed = FALSE]} /\ cq' = Append(cq, c)
    BY <2>1, <2>4, <2>7 DEF Ends, Detached
  <2> QED
    BY <2>1, <2>2, <2>3, <2>4, <2>5, <2>6, <2>7
<1> QED
  BY <1>4, <1>5

\* The head of ioQueue_ is popped.
LEMMA PopFacts ==
  ASSUME Types, ioQueue # <<>>
  PROVE  Head(ioQueue) \in Refs /\ Head(ioQueue) # NULL /\ Tail(ioQueue) \in Seq(Refs)
<1>1. ioQueue \in Seq(Refs)
  BY DEF Types, SchedTypes
<1>2. Head(ioQueue) \in Refs /\ Tail(ioQueue) \in Seq(Refs)
  BY <1>1, TailFacts
<1> QED
  BY <1>2, NullAssumption

\* A step keeps the types and what a timer in the rings belongs to.
LEMMA TypeStep ==
  ASSUME Types, KindInv, [Next]_vars
  PROVE  Types' /\ KindInv'
<1> USE DEF co, sched, ring, waiter
<1>k. SqKind /\ WorkKind /\ CqKind /\ SlotKind /\ ReqKind
  BY KindParts
<1>g. /\ (CoTypes' /\ SchedTypes' /\ ReqTypes' /\ SqTypes' /\ DoneTypes' /\ WaitTypes') => Types'
      /\ (SqKind' /\ WorkKind' /\ CqKind' /\ SlotKind' /\ ReqKind') => KindInv'
  BY DEF Types, KindInv, SqKind, WorkKind, CqKind, SlotKind, ReqKind
<1>n. Nobody \in Refs
  BY DEF Nobody, Refs
<1>1. ASSUME NEW t \in Tasks, HookedCall(t) PROVE Types' /\ KindInv'
  <2>1. CoTypes'
    BY <1>1 DEF Types, CoTypes, HookedCall
  <2>2. SchedSame /\ opc' = opc /\ ReqSame /\ SqSame /\ DoneSame /\ WaitSame /\ runq' = runq
    BY <1>1 DEF HookedCall, SchedSame, ReqSame, SqSame, DoneSame, WaitSame
  <2> QED
    BY <1>g, <2>1, <2>2, SameTypes, SameKinds DEF SqSame, DoneSame, WaitSame
<1>2. ASSUME NEW t \in Tasks, IOSubmit(t) PROVE Types' /\ KindInv'
  <2>1. CoTypes'
    BY <1>2 DEF Types, CoTypes, IOSubmit
  <2>2. Ref(t) \in Refs
    BY DEF Types, CoTypes, Ref, Refs
  <2>3. SchedTypes'
    <3>1. ioQueue' \in Seq(Refs)
      BY <1>2, <2>2, AppendFacts DEF Types, SchedTypes, IOSubmit
    <3> QED
      BY <1>2, <3>1 DEF Types, SchedTypes, IOSubmit
  <2>4. ReqSame /\ SqSame /\ DoneSame /\ WaitSame /\ runq' = runq
    BY <1>2 DEF IOSubmit, ReqSame, SqSame, DoneSame, WaitSame
  <2> QED
    BY <1>g, <2>1, <2>3, <2>4, SameTypes, SameKinds DEF SqSame, DoneSame, WaitSame
<1>3. ASSUME NEW t \in Tasks, Return(t) PROVE Types' /\ KindInv'
  <2>1. CoTypes'
    BY <1>3 DEF Types, CoTypes, Return
  <2>2. WaitTypes'
    BY <1>3 DEF Types, WaitTypes, Return
  <2>3. SchedSame /\ opc' = opc /\ ReqSame /\ SqSame /\ DoneSame /\ WaitSame
    BY <1>3 DEF Return, SchedSame, ReqSame, SqSame, DoneSame, WaitSame
  <2> QED
    BY <1>g, <2>1, <2>2, <2>3, SameTypes, SameKinds DEF SqSame, DoneSame, WaitSame
<1>4. CASE Notifier
  <2>1. SchedTypes'
    <3>1. CASE IOSubmitCheck
      BY <3>1 DEF Types, SchedTypes, IOSubmitCheck
    <3>2. CASE WakeUpIOSubmit
      <4>1. nWake \in Nat /\ nWake > 0 /\ nWake' = nWake - 1
        BY <3>2 DEF Types, SchedTypes, WakeUpIOSubmit
      <4>2. nWake' \in Nat
        BY <4>1
      <4>3. ioWait' \in BOOLEAN
        BY <3>2, Zenon DEF WakeUpIOSubmit
      <4>4. ioQueue' = ioQueue /\ stop' = stop /\ nCheck' = nCheck /\ opc' = opc
        BY <3>2 DEF WakeUpIOSubmit
      <4> QED
        BY <4>2, <4>3, <4>4 DEF Types, SchedTypes
    <3> QED
      BY <1>4, <3>1, <3>2 DEF Notifier
  <2>2. CoSame /\ ReqSame /\ SqSame /\ DoneSame /\ WaitSame /\ runq' = runq
    BY <1>4 DEF Notifier, IOSubmitCheck, WakeUpIOSubmit, CoSame, ReqSame, SqSame, DoneSame,
         WaitSame
  <2> QED
    BY <1>g, <2>1, <2>2, SameTypes, SameKinds DEF SqSame, DoneSame, WaitSame
<1>5. CASE SubmitLoop \/ SubmitPop \/ SubmitLock \/ SubmitPopLocked \/ SubmitPark \/ SubmitWoken
  <2>1. SchedTypes'
    BY <1>5, PopFacts DEF Types, SchedTypes, SubmitLoop, SubmitPop, SubmitLock, SubmitPopLocked,
       SubmitPark, SubmitWoken
  <2>2. ReqTypes' /\ ReqKind'
    <3>1. CASE ioQueue # <<>>
      BY <1>5, <3>1, PopFacts DEF Types, ReqTypes, ReqKind, SubmitLoop, SubmitPop, SubmitLock,
         SubmitPopLocked, SubmitPark, SubmitWoken
    <3>2. CASE ioQueue = <<>>
      BY <1>5, <3>2 DEF Types, ReqTypes, ReqKind, SubmitLoop, SubmitPop, SubmitLock,
         SubmitPopLocked, SubmitPark, SubmitWoken
    <3> QED
      BY <3>1, <3>2
  <2>3. CoSame /\ SqSame /\ DoneSame /\ WaitSame /\ runq' = runq
    BY <1>5 DEF SubmitLoop, SubmitPop, SubmitLock, SubmitPopLocked, SubmitPark, SubmitWoken,
       CoSame, SqSame, DoneSame, WaitSame
  <2> QED
    BY <1>g, <2>1, <2>2, <2>3, SameTypes, SameKinds DEF SqSame, DoneSame, WaitSame
<1>6. CASE ExecGetSqe \/ ExecTimer
  <2>1. req \in Refs /\ (spc = "exec_timer" => req.task \in Timed) /\ published' = published
    BY <1>6 DEF Types, ReqTypes, KindInv, ExecGetSqe, ExecTimer
  <2>2. SqTypes' /\ SqKind'
    <3>1. CASE sq' = sq
      BY <2>1, <3>1, SameTypes, SameKinds DEF SqSame
    <3>o. (opc = "submit") \in BOOLEAN /\ HasTimer(req) \in BOOLEAN
      BY DEF HasTimer
    <3>2. CASE sq' \in Filled(Entry("NORMAL", req, HasTimer(req)), opc = "submit", Nobody)
      <4> DEFINE e == Entry("NORMAL", req, HasTimer(req))
      <4>1. e \in Entries /\ TimerOf(e)
        BY <2>1, <3>o, EntryFacts DEF HasTimer
      <4> HIDE DEF e
      <4> QED
        BY <1>k, <1>n, <2>1, <3>2, <3>o, <4>1, SqFilled DEF e
    <3>3. CASE ExecTimer /\ sq' \in Filled(Entry("TIMEOUT", req, FALSE), opc = "submit", Nobody)
      <4> DEFINE e == Entry("TIMEOUT", req, FALSE)
      <4>1. e \in Entries /\ TimerOf(e)
        BY <2>1, <3>3, EntryFacts DEF ExecTimer
      <4> HIDE DEF e
      <4> QED
        BY <1>k, <1>n, <2>1, <3>3, <3>o, <4>1, SqFilled DEF e
    <3> QED
      BY <1>6, <3>1, <3>2, <3>3 DEF ExecGetSqe, ExecTimer, Refuse
  <2>3. ReqTypes' /\ ReqKind'
    <3>1. \/ /\ spc' \in {"exec_timer", "submit"} /\ req' = req /\ refused' = refused
             /\ spc' = "exec_timer" => HasTimer(req)
          \/ /\ spc' \in {"loop", "advance"} /\ (spc' = "advance" => req' = req)
             /\ (spc' = "loop" => req' = NULL) /\ refused' = refused \cup {req}
      BY <1>6 DEF ExecGetSqe, ExecTimer, Refuse, After
    <3>2. req # NULL /\ refused \subseteq Refs
      BY <2>1, NullAssumption DEF Types, ReqTypes
    <3> QED
      BY <2>1, <3>1, <3>2 DEF ReqTypes, ReqKind, HasTimer
  <2>4. CoSame /\ SchedSame /\ opc' = opc /\ DoneSame /\ WaitSame /\ runq' = runq
    BY <1>6 DEF ExecGetSqe, ExecTimer, CoSame, SchedSame, DoneSame, WaitSame
  <2> QED
    BY <1>g, <2>2, <2>3, <2>4, SameTypes, SameKinds DEF DoneSame, WaitSame
<1>7. CASE ExecSubmit \/ ExecAdvance
  <2>1. ReqTypes' /\ ReqKind'
    BY <1>7 DEF Types, ReqTypes, ReqKind, ExecSubmit, ExecAdvance, After
  <2>2. SqTypes' /\ sq' = sq
    <3>1. Len(sq) \in Nat
      BY LenProperties DEF Types, SqTypes
    <3> QED
      BY <1>7, <3>1 DEF Types, SqTypes, ExecSubmit, ExecAdvance
  <2>3. CoSame /\ SchedSame /\ opc' = opc /\ DoneSame /\ WaitSame /\ runq' = runq
    BY <1>7 DEF ExecSubmit, ExecAdvance, CoSame, SchedSame, DoneSame, WaitSame
  <2> QED
    BY <1>g, <2>1, <2>2, <2>3, SameTypes, SameKinds DEF DoneSame, WaitSame
<1>8. CASE KernelTake
  <2>1. PICK n \in Nat \ {0} : Taken(n)
    BY <1>8, TakeFacts
  <2>2. sq \in Seq(Entries) /\ Len(sq) <= SqSize /\ Len(sq) \in Nat /\ published \in Nat
        /\ SqSize \in Nat
    BY LenProperties, SizeAssumption DEF Types, SqTypes
  <2>3. n <= Len(sq) /\ n <= published /\ published <= Len(sq) /\ published' = published - n
    BY <2>1, <2>2 DEF Taken
  <2>4. /\ sq' \in Seq(Entries) /\ Len(sq') = Len(sq) - n
        /\ \A i \in 1 .. Len(sq) - n : i + n \in 1 .. Len(sq) /\ sq'[i] = sq[i + n]
    <3>1. sq' = SubSeq(sq, n + 1, Len(sq))
      BY <2>1 DEF Taken
    <3>2. /\ SubSeq(sq, n + 1, Len(sq)) \in Seq(Entries)
          /\ Len(SubSeq(sq, n + 1, Len(sq))) = Len(sq) - n
          /\ \A i \in 1 .. Len(sq) - n : i + n \in 1 .. Len(sq)
                                        /\ SubSeq(sq, n + 1, Len(sq))[i] = sq[i + n]
      BY <2>2, <2>3, DropFacts
    <3> QED
      BY <3>1, <3>2
  <2>5. SqTypes' /\ SqKind'
    <3>1. Len(sq') <= SqSize /\ published' \in 0 .. Len(sq')
      BY <2>2, <2>3, <2>4
    <3> QED
      BY <1>k, <2>4, <3>1 DEF SqTypes, SqKind
  <2>6. inflight' \subseteq Requested /\ WorkKind'
    <3>1. \A x \in inflight : x \in Requested /\ (x.timed => x.res.task \in Timed)
      BY <1>k DEF Types, DoneTypes, WorkKind
    <3>2. \A x \in inflight' : x \in Requested /\ (x.timed => x.res.task \in Timed)
      BY <2>1, <3>1, NthFacts DEF Taken
    <3> QED
      BY <3>2 DEF WorkKind
  <2>7. cq' \in Seq(Cqes) /\ CqKind'
    <3>1. cq \in Seq(Cqes) /\ \A i \in 1 .. Len(cq) : ResultOf(cq[i])
      BY <1>k DEF Types, DoneTypes, CqKind
    <3>2. CASE cq' = cq
      BY <1>k, <3>1, <3>2 DEF CqKind
    <3>3. ASSUME NEW c \in Cqes, ResultOf(c), cq' = Append(cq, c) PROVE cq' \in Seq(Cqes) /\ CqKind'
      <4>1. /\ Append(cq, c) \in Seq(Cqes)
            /\ \A i \in 1 .. Len(Append(cq, c)) : ResultOf(Append(cq, c)[i])
        BY <3>1, <3>3, CqGrows
      <4> QED
        BY <3>3, <4>1 DEF CqKind
    <3> QED
      BY <2>1, <3>2, <3>3 DEF Taken
  <2>8. CoSame /\ SchedSame /\ opc' = opc /\ ReqSame /\ WaitSame /\ runq' = runq
    BY <1>8 DEF KernelTake, CoSame, SchedSame, ReqSame, WaitSame
  <2>9. DoneTypes'
    BY <2>6, <2>7 DEF DoneTypes
  <2> QED
    BY <1>g, <2>5, <2>6, <2>7, <2>8, <2>9, SameTypes, SameKinds DEF WaitSame
<1>9. CASE KernelComplete \/ KernelExpire
  <2>1. PICK x \in inflight, a \in Cqes :
          \/ Ended(x, a) /\ cq' = Append(cq, a)
          \/ \E b \in Cqes : Posted(x, a, b)
          \/ Detached(x, a)
    BY <1>9, EndFacts DEF Ends
  <2>2. cq \in Seq(Cqes) /\ inflight \subseteq Requested
        /\ (\A i \in 1 .. Len(cq) : ResultOf(cq[i])) /\ ResultOf(a)
    BY <1>k, <2>1 DEF Types, DoneTypes, CqKind, Ended, Posted, Detached
  <2>3. Append(cq, a) \in Seq(Cqes) /\ \A i \in 1 .. Len(Append(cq, a)) : ResultOf(Append(cq,
       a)[i])
    BY <2>2, CqGrows
  <2>4. cq' \in Seq(Cqes) /\ CqKind'
    <3>1. CASE cq' = Append(cq, a)
      BY <2>3, <3>1 DEF CqKind
    <3>2. ASSUME NEW b \in Cqes, Posted(x, a, b) PROVE cq' \in Seq(Cqes) /\ CqKind'
      <4>1. cq' = Append(Append(cq, a), b) /\ ResultOf(b)
        BY <3>2 DEF Posted
      <4>2. Append(Append(cq, a), b) \in Seq(Cqes)
            /\ \A i \in 1 .. Len(Append(Append(cq, a), b)) : ResultOf(Append(Append(cq, a), b)[i])
        BY <2>3, <4>1, CqGrows
      <4> QED
        BY <4>1, <4>2 DEF CqKind
    <3> QED
      BY <2>1, <3>1, <3>2 DEF Detached
  <2>5. inflight' \subseteq Requested /\ WorkKind'
    <3>1. CASE inflight' = Without(x)
      <4>1. \A y \in inflight' : y \in Requested /\ (y.timed => y.res.task \in Timed)
        BY <1>k, <3>1, WithoutFacts DEF WorkKind
      <4> QED
        BY <4>1 DEF WorkKind
    <3>2. CASE Detached(x, a)
      <4>1. [x EXCEPT !.timed = FALSE] \in Requested /\ [x EXCEPT !.timed = FALSE].timed = FALSE
        BY <2>2 DEF Requested
      <4> QED
        BY <1>k, <2>2, <3>2, <4>1 DEF Detached, WorkKind
    <3> QED
      BY <2>1, <3>1, <3>2 DEF Ended, Posted
  <2>6. CoSame /\ SchedSame /\ opc' = opc /\ ReqSame /\ SqSame /\ WaitSame /\ runq' = runq
    BY <1>9 DEF KernelComplete, KernelExpire, CoSame, SchedSame, ReqSame, SqSame, WaitSame
  <2>7. DoneTypes'
    BY <2>4, <2>5 DEF DoneTypes
  <2> QED
    BY <1>g, <2>4, <2>5, <2>6, <2>7, SameTypes, SameKinds DEF SqSame, WaitSame
<1>10. CASE WaitLoop \/ WaitAdd
  <2>1. WaitTypes' /\ slot' = slot
    <3>1. CASE WaitLoop
      BY <3>1 DEF Types, WaitTypes, WaitLoop
    <3>2. CASE WaitAdd
      BY <3>2 DEF Types, WaitTypes, WaitAdd
    <3> QED
      BY <1>10, <3>1, <3>2
  <2>2. CoSame /\ SchedSame /\ opc' = opc /\ ReqSame /\ SqSame /\ DoneSame
    BY <1>10 DEF WaitLoop, WaitAdd, CoSame, SchedSame, ReqSame, SqSame, DoneSame
  <2> QED
    BY <1>g, <2>1, <2>2, SameTypes, SameKinds DEF SqSame, DoneSame
<1>11. CASE WaitCqe
  <2>1. cq \in Seq(Cqes) /\ cq # <<>>
    BY <1>11 DEF Types, DoneTypes, WaitCqe
  <2>2. /\ Head(cq) = cq[1] /\ Head(cq) \in Cqes /\ 1 \in 1 .. Len(cq)
        /\ Tail(cq) \in Seq(Cqes) /\ Len(Tail(cq)) = Len(cq) - 1
        /\ \A i \in 1 .. Len(cq) - 1 : i + 1 \in 1 .. Len(cq) /\ Tail(cq)[i] = cq[i + 1]
    BY <2>1, TailFacts
  <2>3. slot' = Head(cq) /\ cq' = Tail(cq) /\ wpc' = "read" /\ tk' = tk /\ runq' = runq
        /\ inflight' = inflight
    BY <1>11 DEF WaitCqe
  <2>4. WaitTypes' /\ SlotKind'
    BY <1>k, <2>2, <2>3, NullAssumption DEF Types, WaitTypes, SlotKind, CqKind
  <2>5. DoneTypes' /\ CqKind'
    BY <1>k, <2>2, <2>3 DEF Types, DoneTypes, CqKind
  <2>6. CoSame /\ SchedSame /\ opc' = opc /\ ReqSame /\ SqSame
    BY <1>11 DEF WaitCqe, CoSame, SchedSame, ReqSame, SqSame
  <2> QED
    BY <1>g, <2>3, <2>4, <2>5, <2>6, SameTypes, SameKinds DEF SqSame
<1>12. CASE WaitResult
  <2>1. wpc = "read" /\ slot # NULL /\ slot \in Cqes /\ ResultOf(slot)
    BY <1>12, <1>k DEF Types, WaitTypes, SlotKind, WaitResult
  <2>2. slot.res \in Refs /\ slot.res.task \in Tasks \cup {NULL} /\ slot.type \in {"NORMAL",
       "TIMEOUT"}
    BY <2>1 DEF Cqes, Refs
  <2>3. Outcome(slot) \in {"add", "wait", "loop"}
    BY <2>2 DEF Outcome
  <2>4. PICK v \in {"done", "EAGAIN"} : Stored(slot) = [ret EXCEPT ![slot.res.task] = v]
    <3>1. CASE slot.type = "NORMAL"
      BY <2>1, <3>1 DEF ResultOf, Stored
    <3>2. CASE slot.type = "TIMEOUT"
      BY <3>2 DEF Stored
    <3> QED
      BY <2>2, <3>1, <3>2
  <2>5. PICK known \in BOOLEAN : /\ known => slot.res.task # NULL
                                 /\ tk' = IF known THEN slot.res.task ELSE NULL
                                 /\ ret' = IF known THEN Stored(slot) ELSE ret
    BY <1>12 DEF WaitResult
  <2>6. CoTypes'
    <3>1. tpc' = tpc /\ call' = call
      BY <1>12 DEF WaitResult
    <3> QED
      BY <2>4, <2>5, <3>1 DEF Types, CoTypes
  <2>7. WaitTypes' /\ SlotKind'
    <3>1. wpc' = Outcome(slot) /\ slot' = NULL /\ runq' = runq
      BY <1>12 DEF WaitResult
    <3> QED
      BY <2>2, <2>3, <2>5, <3>1 DEF Types, WaitTypes, SlotKind
  <2>8. SchedSame /\ opc' = opc /\ ReqSame /\ SqSame /\ DoneSame
    BY <1>12 DEF WaitResult, SchedSame, ReqSame, SqSame, DoneSame
  <2> QED
    BY <1>g, <2>6, <2>7, <2>8, SameTypes, SameKinds DEF SqSame, DoneSame
<1>13. CASE StopCall \/ StopWakeSubmit
  <2>1. SchedTypes'
    BY <1>13 DEF Types, SchedTypes, StopCall, StopWakeSubmit
  <2>2. CoSame /\ ReqSame /\ SqSame /\ DoneSame /\ WaitSame /\ runq' = runq
    BY <1>13 DEF StopCall, StopWakeSubmit, CoSame, ReqSame, SqSame, DoneSame, WaitSame
  <2> QED
    BY <1>g, <2>1, <2>2, SameTypes, SameKinds DEF SqSame, DoneSame, WaitSame
<1>14. CASE StopGetSqe \/ StopSubmit
  <2>1. SchedTypes'
    BY <1>14 DEF Types, SchedTypes, StopGetSqe, StopSubmit
  <2>3. SqTypes' /\ SqKind'
    <3>1. CASE sq' = sq
      <4>1. Len(sq) \in Nat /\ SqTypes
        BY LenProperties DEF Types, SqTypes
      <4>2. published' \in {published, Len(sq)}
        BY <1>14 DEF StopGetSqe, StopSubmit
      <4> QED
        BY <3>1, <4>1, <4>2, SameKinds DEF SqTypes
    <3>2. CASE StopGetSqe
               /\ sq' \in Filled(Entry("NORMAL", Nobody, FALSE), spc \in {"exec_timer", "submit"}, req)
      <4> DEFINE e     == Entry("NORMAL", Nobody, FALSE)
                 other == spc \in {"exec_timer", "submit"}
      <4>0. e \in Entries /\ TimerOf(e)
        BY <1>n, EntryFacts
      <4>1. published' = published /\ sq' \in Filled(e, other, req)
        BY <3>2 DEF StopGetSqe
      <4>2. CASE other
        <5>1. req \in Refs
          BY <4>2 DEF Types, ReqTypes
        <5>2. sq' \in Filled(e, TRUE, req)
          BY <4>1, <4>2 DEF Filled
        <5> HIDE DEF e, other
        <5> QED
          BY <1>k, <4>0, <4>1, <5>1, <5>2, SqFilled
      <4>3. CASE ~other
        <5>1. sq' \in Filled(e, FALSE, Nobody)
          BY <4>1, <4>3 DEF Filled
        <5> HIDE DEF e, other
        <5> QED
          BY <1>k, <1>n, <4>0, <4>1, <5>1, SqFilled
      <4> QED
        BY <4>2, <4>3
    <3> QED
      BY <1>14, <3>1, <3>2 DEF StopGetSqe, StopSubmit
  <2>4. CoSame /\ ReqSame /\ DoneSame /\ WaitSame /\ runq' = runq
    BY <1>14 DEF StopGetSqe, StopSubmit, CoSame, ReqSame, DoneSame, WaitSame
  <2> QED
    BY <1>g, <2>1, <2>3, <2>4, SameTypes, SameKinds DEF DoneSame, WaitSame
<1>15. CASE UNCHANGED vars
  <2>1. CoSame /\ SchedSame /\ opc' = opc /\ ReqSame /\ SqSame /\ DoneSame /\ WaitSame
        /\ runq' = runq
    BY <1>15 DEF vars, CoSame, SchedSame, ReqSame, SqSame, DoneSame, WaitSame
  <2> QED
    BY <1>g, <2>1, SameTypes, SameKinds DEF SqSame, DoneSame, WaitSame
<1> QED
  BY <1>1, <1>2, <1>3, <1>4, <1>5, <1>6, <1>7, <1>8, <1>9, <1>10, <1>11, <1>12, <1>13, <1>14,
       <1>15
  DEF Next, Caller, Coroutine, Notifier, Submitter, Waiter, Stopper

-----------------------------------------------------------------------------
(* IOSubmitThread and its queue *)

\* Nobody takes a Stop back.
LEMMA IdleFirst ==
  ASSUME [Next]_vars, opc' = "idle"
  PROVE  opc = "idle" /\ ~StopCall /\ ~Stopper
<1> USE DEF co, sched, ring, waiter
<1>1. ~StopCall /\ ~Stopper
  BY DEF StopCall, Stopper, StopWakeSubmit, StopGetSqe, StopSubmit
<1>2. CASE (\E t \in Tasks : HookedCall(t) \/ IOSubmit(t) \/ Return(t)) \/ Notifier
  BY <1>1, <1>2 DEF HookedCall, IOSubmit, Return, Notifier, IOSubmitCheck, WakeUpIOSubmit
<1>3. CASE Submitter
  BY <1>1, <1>3 DEF Submitter, SubmitLoop, SubmitPop, SubmitLock, SubmitPopLocked, SubmitPark,
     SubmitWoken, ExecGetSqe, ExecTimer, ExecSubmit, ExecAdvance
<1>4. CASE KernelTake \/ KernelComplete \/ KernelExpire \/ Waiter \/ UNCHANGED vars
  BY <1>1, <1>4 DEF KernelTake, KernelComplete, KernelExpire, Waiter, WaitLoop, WaitCqe, WaitResult,
     WaitAdd, vars
<1> QED
  BY <1>1, <1>2, <1>3, <1>4 DEF Next, Caller, Coroutine

\* Before a Stop, the entry IOSubmitThread prepares is its own.
LEMMA Prepared ==
  ASSUME Types, KindInv, opc = "idle", ExecGetSqe \/ ExecTimer
  PROVE  \E e \in Entries :
           /\ e.res = req /\ TimerOf(e) /\ published' = published
           /\ \/ GetSqe /\ sq' = Append(sq, e) /\ req' = req
              \/ sq' = sq /\ spc' \in {"loop", "advance"}
<1>1. req \in Refs /\ (spc = "exec_timer" => req.task \in Timed) /\ published' = published
  BY DEF Types, ReqTypes, KindInv, ExecGetSqe, ExecTimer
<1>2. ASSUME NEW e \in Entries, e.res = req, TimerOf(e), sq' \in Filled(e, opc = "submit", Nobody),
             req' = req
      PROVE  GetSqe /\ sq' = Append(sq, e)
  BY <1>2 DEF Filled
<1>3. CASE sq' \in Filled(Entry("NORMAL", req, HasTimer(req)), opc = "submit", Nobody)
           /\ req' = req
  <2> DEFINE e == Entry("NORMAL", req, HasTimer(req))
  <2>1. e \in Entries /\ e.res = req /\ TimerOf(e)
    <3>1. HasTimer(req) \in BOOLEAN /\ (HasTimer(req) => req.task \in Timed)
      BY DEF HasTimer
    <3> QED
      BY <1>1, <3>1, EntryFacts
  <2> HIDE DEF e
  <2> QED
    BY <1>1, <1>2, <1>3, <2>1 DEF e
<1>4. CASE ExecTimer /\ sq' \in Filled(Entry("TIMEOUT", req, FALSE), opc = "submit", Nobody)
           /\ req' = req
  <2> DEFINE e == Entry("TIMEOUT", req, FALSE)
  <2>1. e \in Entries /\ e.res = req /\ TimerOf(e)
    BY <1>1, <1>4 DEF Entry, Entries, TimerOf, ExecTimer
  <2> HIDE DEF e
  <2> QED
    BY <1>1, <1>2, <1>4, <2>1 DEF e
<1>5. CASE Refuse
  <2> DEFINE e == Entry("NORMAL", req, FALSE)
  <2>1. e \in Entries /\ e.res = req /\ TimerOf(e)
    BY <1>1 DEF Entry, Entries, TimerOf
  <2>2. sq' = sq /\ spc' \in {"loop", "advance"}
    BY <1>5 DEF Refuse, After
  <2> HIDE DEF e
  <2> QED
    BY <1>1, <2>1, <2>2
<1> QED
  BY <1>3, <1>4, <1>5 DEF ExecGetSqe, ExecTimer

\* A step keeps the prepared entry unpublished, until Stop is called.
LEMMA PrivateStep ==
  ASSUME Types, KindInv, PrivateInv, [Next]_vars
  PROVE  PrivateInv'
<1> USE DEF co, sched, ring, waiter
<1> SUFFICES ASSUME opc' = "idle", spc' = "submit"
             PROVE  published' < Len(sq') /\ sq'[Len(sq')].res = req'
  BY DEF PrivateInv
<1>00. opc = "idle"
  BY IdleFirst
<1>0. spc = "submit" => published < Len(sq) /\ sq[Len(sq)].res = req
  BY <1>00 DEF PrivateInv
<1>2. CASE ReqSame /\ SqSame
  BY <1>0, <1>2 DEF ReqSame, SqSame
<1>3. CASE ExecGetSqe \/ ExecTimer
  <2>1. PICK e \in Entries : e.res = req /\ TimerOf(e) /\ published' = published
                           /\ (\/ GetSqe /\ sq' = Append(sq, e) /\ req' = req
                               \/ spc' # "submit")
    BY <1>3, <1>00, Prepared
  <2>2. Len(sq') = Len(sq) + 1 /\ sq'[Len(sq')] = e
    BY <2>1, KindParts, SqGrows
  <2>3. published <= Len(sq) /\ published \in Nat /\ Len(sq) \in Nat
    BY LenProperties DEF Types, SqTypes
  <2> QED
    BY <2>1, <2>2, <2>3
<1>4. CASE KernelTake
  <2>1. PICK n \in Nat \ {0} : Taken(n)
    BY <1>4, TakeFacts
  <2>2. spc' = spc /\ req' = req
    BY <1>4 DEF KernelTake
  <2>3. sq \in Seq(Entries) /\ Len(sq) \in Nat /\ published \in Nat
    BY LenProperties DEF Types, SqTypes
  <2>4. n <= published /\ n <= Len(sq) /\ published' = published - n
    BY <2>1, <2>3 DEF Taken
  <2>5. /\ Len(sq') = Len(sq) - n
        /\ \A i \in 1 .. Len(sq) - n : sq'[i] = sq[i + n]
    <3>1. sq' = SubSeq(sq, n + 1, Len(sq))
      BY <2>1 DEF Taken
    <3> QED
      BY <2>3, <2>4, <3>1, DropFacts
  <2>6. ASSUME spc = "submit" PROVE published' < Len(sq') /\ sq'[Len(sq')].res = req
    <3>1. published < Len(sq) /\ sq[Len(sq)].res = req
      BY <1>0, <2>6
    <3>2. published' < Len(sq') /\ Len(sq') \in 1 .. Len(sq) - n /\ Len(sq') + n = Len(sq)
      BY <2>3, <2>4, <2>5, <3>1
    <3> QED
      BY <2>5, <3>1, <3>2
  <2> QED
    BY <1>0, <2>2, <2>6
<1>5. \/ UNCHANGED vars \/ (\E t \in Tasks : HookedCall(t) \/ IOSubmit(t) \/ Return(t))
      \/ Notifier \/ KernelComplete \/ KernelExpire \/ Waiter
      => ReqSame /\ SqSame
  BY DEF vars, HookedCall, IOSubmit, Return, Notifier, IOSubmitCheck, WakeUpIOSubmit,
     KernelComplete, KernelExpire, Waiter, WaitLoop, WaitCqe, WaitResult, WaitAdd, ReqSame, SqSame
<1>6. SubmitLoop \/ SubmitPop \/ SubmitLock \/ SubmitPopLocked \/ SubmitPark \/ SubmitWoken
      \/ ExecSubmit \/ ExecAdvance
      => spc' # "submit"
  BY DEF SubmitLoop, SubmitPop, SubmitLock, SubmitPopLocked, SubmitPark, SubmitWoken, ExecSubmit,
     ExecAdvance, After
<1>7. ~StopCall /\ ~Stopper
  BY <1>00 DEF StopCall, Stopper, StopWakeSubmit, StopGetSqe, StopSubmit
<1> QED
  BY <1>2, <1>3, <1>4, <1>5, <1>6, <1>7 DEF Next, Caller, Coroutine, Submitter

\* A step leaves IOSubmitThread a thread that will wake it, if it needs one and
\* its flag is read as it was written.
LEMMA SleepStep ==
  ASSUME PlainFlag = FALSE, Types, SleepInv, [Next]_vars
  PROVE  SleepInv'
<1> USE DEF co, sched, ring, waiter
<1>0. /\ spc \in InWait => ioWait
      /\ spc \in {"park", "parked"} /\ ioWait /\ ioQueue # <<>> => nCheck > 0 \/ nWake > 0
  BY DEF SleepInv
<1>t. ioQueue \in Seq(Refs) /\ nCheck \in Nat /\ nWake \in Nat /\ ioWait \in BOOLEAN
  BY DEF Types, SchedTypes
<1>1. CASE SchedSame /\ spc' = spc
  BY <1>0, <1>1 DEF SleepInv, SchedSame
<1>2. ASSUME NEW t \in Tasks, IOSubmit(t) PROVE SleepInv'
  <2>1. spc' = spc /\ ioWait' = ioWait /\ nCheck' = nCheck + 1
    BY <1>2 DEF IOSubmit
  <2>2. nCheck' > 0
    BY <1>t, <2>1
  <2> QED
    BY <1>0, <2>1, <2>2 DEF SleepInv
<1>3. CASE IOSubmitCheck
  <2>1. spc' = spc /\ ioWait' = ioWait /\ ioQueue' = ioQueue
        /\ nWake' = (IF ioWait THEN nWake + 1 ELSE nWake)
    BY <1>3 DEF IOSubmitCheck, WaitRead
  <2>2. CASE ioWait
    <3>1. nWake' > 0
      BY <1>t, <2>1, <2>2
    <3> QED
      BY <1>0, <2>1, <3>1 DEF SleepInv
  <2>3. CASE ~ioWait
    BY <1>0, <2>1, <2>3 DEF SleepInv
  <2> QED
    BY <2>2, <2>3
<1>4. CASE WakeUpIOSubmit \/ StopWakeSubmit
  BY <1>4 DEF SleepInv, WakeUpIOSubmit, StopWakeSubmit
<1>5. CASE spc' \notin InWait \cup {"parked"}
  BY <1>5 DEF SleepInv, InWait
<1>6. CASE SubmitLock
  BY <1>6 DEF SleepInv, SubmitLock, InWait
<1>7. CASE SubmitPopLocked
  <2>1. CASE spc' = "exec"
    BY <2>1 DEF SleepInv, InWait
  <2>2. CASE ioQueue = <<>> /\ spc' = "park" /\ ioQueue' = ioQueue /\ ioWait' = ioWait
    BY <1>0, <1>7, <2>2 DEF SleepInv, SubmitPopLocked, InWait
  <2> QED
    BY <1>7, <2>1, <2>2 DEF SubmitPopLocked
<1>8. CASE SubmitPark
  BY <1>0, <1>8 DEF SleepInv, SubmitPark, InWait
<1>9. \/ UNCHANGED vars \/ (\E t \in Tasks : HookedCall(t) \/ Return(t)) \/ KernelTake
      \/ KernelComplete \/ KernelExpire \/ Waiter \/ StopGetSqe \/ StopSubmit
      => SchedSame /\ spc' = spc
  BY DEF vars, HookedCall, Return, KernelTake, KernelComplete, KernelExpire, Waiter, WaitLoop,
     WaitCqe, WaitResult, WaitAdd, StopGetSqe, StopSubmit, SchedSame
<1>10. CASE StopCall
  BY <1>0, <1>10 DEF SleepInv, StopCall
<1>11. SubmitLoop \/ SubmitPop \/ SubmitWoken \/ ExecGetSqe \/ ExecTimer \/ ExecSubmit
       \/ ExecAdvance
       => spc' \notin InWait \cup {"parked"}
  BY DEF SubmitLoop, SubmitPop, SubmitWoken, ExecGetSqe, ExecTimer, ExecSubmit, ExecAdvance,
       InWait, Refuse, After
<1> QED
  BY <1>1, <1>2, <1>3, <1>4, <1>5, <1>6, <1>7, <1>8, <1>9, <1>10, <1>11
  DEF Next, Caller, Coroutine, Notifier, Submitter, Stopper

-----------------------------------------------------------------------------
(* The reference to the frame of an untimed call *)

\* A step takes the reference to u to no place where it was not.
Fewer(u) ==
  /\ Queued(u)' => Queued(u)
  /\ Executed(u)' => Executed(u)
  /\ Submitted(u)' => Submitted(u)
  /\ Working(u)' => Working(u)
  /\ Completed(u)' => Completed(u)
  /\ Read(u)' => Read(u)
  /\ Resumed(u)' => Resumed(u)
  /\ Runnable(u)' => Runnable(u)

\* A step that moves no reference keeps it in its one place.
LEMMA FewerToken ==
  ASSUME NEW u \in Tasks, Token(u), Fewer(u), tpc'[u] = tpc[u], ret'[u] = ret[u]
  PROVE  Alone(u)' /\ Waits(u)'
  BY DEF Token, Fewer, Alone, Waits, Somewhere

\* A reference that is nowhere does not come back by itself.
LEMMA NowhereToken ==
  ASSUME NEW u \in Tasks, ~Somewhere(u), Fewer(u)
  PROVE  Alone(u)' /\ Waits(u)'
  BY DEF Fewer, Alone, Waits, Somewhere

\* What a step leaves alone keeps its references.
LEMMA SamePlaces ==
  ASSUME NEW u \in Tasks, Token(u), call'[u] = call[u]
  PROVE  /\ ioQueue' = ioQueue => Queued(u)' = Queued(u) /\ QueueOnce(u)'
         /\ sq' = sq => Submitted(u)' = Submitted(u) /\ SqOnce(u)'
         /\ cq' = cq => Completed(u)' = Completed(u) /\ CqOnce(u)'
         /\ inflight' = inflight => Working(u)' = Working(u)
         /\ slot' = slot => Read(u)' = Read(u)
         /\ tk' = tk => Resumed(u)' = Resumed(u)
         /\ runq' = runq => Runnable(u)' = Runnable(u)
         /\ ReqSame => Executed(u)' = Executed(u)
         /\ ReqSame /\ inflight' = inflight /\ slot' = slot /\ runq'[u] <= 1 => OthersOnce(u)'
<1>1. ioQueue' = ioQueue => Queued(u)' = Queued(u) /\ QueueOnce(u)'
  BY DEF Token, Queued, RefIn, QueueOnce, RefsOnce
<1>2. sq' = sq => Submitted(u)' = Submitted(u) /\ SqOnce(u)'
  BY DEF Token, Submitted, ResIn, SqOnce, ResOnce
<1>3. cq' = cq => Completed(u)' = Completed(u) /\ CqOnce(u)'
  BY DEF Token, Completed, ResIn, CqOnce, ResOnce
<1>4. inflight' = inflight => Working(u)' = Working(u)
  BY DEF Working
<1>5. /\ slot' = slot => Read(u)' = Read(u)
      /\ tk' = tk => Resumed(u)' = Resumed(u)
      /\ runq' = runq => Runnable(u)' = Runnable(u)
      /\ ReqSame => Executed(u)' = Executed(u)
  BY DEF Read, Resumed, Runnable, Executed, ReqSame
<1>6. ReqSame /\ inflight' = inflight /\ slot' = slot /\ runq'[u] <= 1 => OthersOnce(u)'
  BY DEF Token, OthersOnce, ReqSame, Executed, Read
<1> QED
  BY <1>1, <1>2, <1>3, <1>4, <1>5, <1>6

\* A step of the coroutine u or of another one.
LEMMA CoroutineToken ==
  ASSUME NEW u \in Tasks \ Timed, Types, Token(u),
         NEW t \in Tasks, HookedCall(t) \/ IOSubmit(t) \/ Return(t)
  PROVE  Token(u)'
<1> USE DEF co, sched, ring, waiter
<1>t. tpc \in [Tasks -> {"body", "defer", "wait"}] /\ call \in [Tasks -> Nat]
      /\ ret \in [Tasks -> {"unset", "done", "EAGAIN"}] /\ runq \in [Tasks \cup {NULL} -> Nat]
      /\ ioQueue \in Seq(Refs)
  BY DEF Types, CoTypes, WaitTypes, SchedTypes
<1>u. u \in Tasks /\ runq[u] <= 1 /\ Alone(u) /\ Waits(u)
  BY DEF Token, OthersOnce
<1>s. sq' = sq /\ cq' = cq /\ inflight' = inflight /\ slot' = slot /\ tk' = tk /\ ReqSame
  BY DEF HookedCall, IOSubmit, Return, ReqSame
<1>1. CASE HookedCall(t)
  <2>1. ioQueue' = ioQueue /\ runq' = runq
    BY <1>1 DEF HookedCall
  <2>2. CASE t # u
    <3>1. tpc'[u] = tpc[u] /\ call'[u] = call[u] /\ ret'[u] = ret[u]
      BY <1>1, <1>t, <1>u, <2>2 DEF HookedCall
    <3>2. Fewer(u) /\ QueueOnce(u)' /\ SqOnce(u)' /\ CqOnce(u)' /\ OthersOnce(u)'
      BY <1>s, <1>u, <2>1, <3>1, SamePlaces DEF Fewer
    <3> QED
      BY <1>u, <3>1, <3>2, FewerToken DEF Token
  <2>3. CASE t = u
    <3>1. tpc[u] = "body"
      BY <1>1, <2>3 DEF HookedCall
    <3>2. ~Somewhere(u)
      BY <1>u, <3>1 DEF Waits
    <3>3. Fewer(u)
      BY <1>s, <2>1 DEF Fewer, Queued, Executed, Submitted, Working, Completed, Read, Resumed,
           Runnable,
         RefIn, ResIn, ReqSame
    <3>4. ~Queued(u)' /\ ~Submitted(u)' /\ ~Completed(u)' /\ ~Executed(u)' /\ ~Working(u)'
          /\ ~Read(u)'
      BY <3>2, <3>3 DEF Fewer, Somewhere
    <3>5. QueueOnce(u)' /\ SqOnce(u)' /\ CqOnce(u)'
      BY <3>4 DEF QueueOnce, SqOnce, CqOnce, RefsOnce, ResOnce, Queued, Submitted, Completed,
           RefIn, ResIn
    <3>6. OthersOnce(u)'
      BY <1>u, <2>1, <3>4 DEF OthersOnce, Working
    <3> QED
      BY <1>u, <3>2, <3>3, <3>5, <3>6, NowhereToken DEF Token
  <2> QED
    BY <2>2, <2>3
<1>2. CASE IOSubmit(t)
  <2>1. call' = call /\ ret' = ret /\ runq' = runq /\ ioQueue' = Append(ioQueue, Ref(t))
    BY <1>2 DEF IOSubmit
  <2>2. Ref(t) \in Refs /\ Ref(t).task = t /\ Ref(t).call = call[t]
    BY <1>t DEF Ref, Refs
  <2>3. Queued(u)' => Queued(u) \/ t = u
    <3>1. PICK r \in Refs : r = Ref(t)
      BY <2>2
    <3>2. RefIn(Append(ioQueue, r), u) => RefIn(ioQueue, u) \/ r.task = u
      BY <1>t, AppendRefers
    <3> QED
      BY <2>1, <2>2, <3>1, <3>2 DEF Queued, RefIn
  <2>4. ASSUME t = u => ~Queued(u) PROVE QueueOnce(u)'
    <3>1. PICK k : k = call[u]
      OBVIOUS
    <3>2. RefsOnce(ioQueue, u, k)
      BY <3>1 DEF Token, QueueOnce
    <3>3. Ref(t).task = u => ~RefIn(ioQueue, u) /\ Ref(t).call = k
      BY <2>2, <2>4, <3>1 DEF Queued
    <3>4. RefsOnce(Append(ioQueue, Ref(t)), u, k)
      BY <1>t, <2>2, <3>2, <3>3, AppendRefers
    <3> QED
      BY <2>1, <3>1, <3>4 DEF QueueOnce, RefsOnce
  <2>5. SqOnce(u)' /\ CqOnce(u)' /\ OthersOnce(u)'
        /\ Submitted(u)' = Submitted(u) /\ Completed(u)' = Completed(u) /\ Working(u)' = Working(u)
        /\ Read(u)' = Read(u) /\ Resumed(u)' = Resumed(u) /\ Runnable(u)' = Runnable(u)
        /\ Executed(u)' = Executed(u)
    BY <1>s, <1>u, <2>1, SamePlaces
  <2>6. CASE t # u
    <3>1. tpc'[u] = tpc[u]
      BY <1>2, <1>t, <1>u, <2>6 DEF IOSubmit
    <3>2. Fewer(u)
      BY <2>3, <2>5, <2>6 DEF Fewer
    <3> QED
      BY <1>u, <2>1, <2>4, <2>5, <2>6, <3>1, <3>2, FewerToken DEF Token
  <2>7. CASE t = u
    <3>1. tpc[u] = "defer" /\ tpc'[u] = "wait"
      BY <1>2, <1>t, <1>u, <2>7 DEF IOSubmit
    <3>2. ~Somewhere(u)
      BY <1>u, <3>1 DEF Waits
    <3>3. Alone(u)' /\ Waits(u)'
      BY <2>5, <3>1, <3>2 DEF Alone, Waits, Somewhere
    <3>4. QueueOnce(u)'
      BY <2>4, <3>2 DEF Somewhere
    <3> QED
      BY <2>5, <3>3, <3>4 DEF Token
  <2> QED
    BY <2>6, <2>7
<1>3. CASE Return(t)
  <2>1. call' = call /\ ioQueue' = ioQueue
    BY <1>3 DEF Return
  <2>2. runq'[u] = IF t = u THEN runq[u] - 1 ELSE runq[u]
    BY <1>3, <1>t, <1>u DEF Return
  <2>3. runq[u] \in Nat /\ (t = u => runq[u] > 0)
    BY <1>3, <1>t, <1>u DEF Return
  <2>4. runq'[u] <= 1 /\ (Runnable(u)' => Runnable(u)) /\ (t = u => Runnable(u) /\ ~Runnable(u)')
    BY <1>u, <2>2, <2>3 DEF Runnable
  <2>5. Fewer(u) /\ QueueOnce(u)' /\ SqOnce(u)' /\ CqOnce(u)' /\ OthersOnce(u)'
    BY <1>s, <1>u, <2>1, <2>4, SamePlaces DEF Fewer
  <2>6. CASE t # u
    <3>1. tpc'[u] = tpc[u] /\ ret'[u] = ret[u]
      BY <1>3, <1>t, <1>u, <2>6 DEF Return
    <3> QED
      BY <1>u, <2>1, <2>5, <3>1, FewerToken DEF Token
  <2>7. CASE t = u
    <3>1. ~Somewhere(u)'
      BY <1>u, <2>4, <2>5, <2>7 DEF Alone, Somewhere, Fewer
    <3>2. Alone(u)' /\ Waits(u)'
      BY <3>1 DEF Alone, Waits, Somewhere
    <3> QED
      BY <2>5, <3>2 DEF Token
  <2> QED
    BY <2>6, <2>7
<1> QED
  BY <1>1, <1>2, <1>3

\* A step that moves no reference.
LEMMA RestToken ==
  ASSUME NEW u \in Tasks, Token(u), CoSame, runq' = runq, ioQueue' = ioQueue, sq' = sq, DoneSame,
         slot' = slot, tk' = tk, ReqSame \/ spc' # "exec"
  PROVE  Token(u)'
<1>1. call'[u] = call[u] /\ tpc'[u] = tpc[u] /\ ret'[u] = ret[u] /\ inflight' = inflight /\ cq' = cq
  BY DEF CoSame, DoneSame
<1>2. Executed(u)' => Executed(u) /\ ReqSame
  BY DEF Executed, ReqSame
<1>3. QueueOnce(u)' /\ SqOnce(u)' /\ CqOnce(u)' /\ Fewer(u)
  BY <1>1, <1>2, SamePlaces DEF Fewer
<1>4. OthersOnce(u)'
  BY <1>1, <1>2 DEF Token, OthersOnce, Executed, Read, ReqSame
<1> QED
  BY <1>1, <1>3, <1>4, FewerToken DEF Token

\* IOSubmitThread pops a request.
LEMMA PopToken ==
  ASSUME NEW u \in Tasks, Types, Token(u), ioQueue # <<>>, req' = Head(ioQueue),
         ioQueue' = Tail(ioQueue), CoSame, sq' = sq, DoneSame, WaitSame, runq' = runq,
         spc # "exec"
  PROVE  Token(u)'
<1>1. call'[u] = call[u] /\ tpc'[u] = tpc[u] /\ ret'[u] = ret[u] /\ inflight' = inflight /\ cq' = cq
      /\ slot' = slot /\ tk' = tk
  BY DEF CoSame, DoneSame, WaitSame
<1>2. SqOnce(u)' /\ CqOnce(u)' /\ Submitted(u)' = Submitted(u) /\ Completed(u)' = Completed(u)
      /\ Working(u)' = Working(u) /\ Read(u)' = Read(u) /\ Resumed(u)' = Resumed(u)
      /\ Runnable(u)' = Runnable(u)
  BY <1>1, SamePlaces
<1>3. PICK k : k = call[u]
  OBVIOUS
<1>4. ioQueue \in Seq(Refs) /\ RefsOnce(ioQueue, u, k)
  BY <1>3 DEF Types, SchedTypes, Token, QueueOnce
<1>6. /\ RefIn(Tail(ioQueue), u) => RefIn(ioQueue, u)
      /\ RefsOnce(Tail(ioQueue), u, k)
      /\ Head(ioQueue).task = u => ~RefIn(Tail(ioQueue), u) /\ RefIn(ioQueue, u)
                                   /\ Head(ioQueue).call = k
  BY <1>4, TailRefers
<1>7. QueueOnce(u)' /\ (Queued(u)' => Queued(u)) /\ ~Executed(u)
  BY <1>1, <1>3, <1>6 DEF QueueOnce, RefsOnce, Queued, RefIn, Executed
<1>8. Executed(u)' => Queued(u) /\ ~Queued(u)' /\ req'.call = k
  BY <1>6 DEF Executed, Queued, RefIn
<1>9. OthersOnce(u)'
  BY <1>1, <1>3, <1>8 DEF Token, OthersOnce, Read
<1>10. CASE Executed(u)'
  <2>1. Alone(u)' /\ Waits(u)'
    BY <1>1, <1>2, <1>7, <1>8, <1>10 DEF Token, Alone, Waits, Somewhere
  <2> QED
    BY <1>2, <1>7, <1>9, <2>1 DEF Token
<1>11. CASE ~Executed(u)'
  <2>1. Fewer(u)
    BY <1>2, <1>7, <1>11 DEF Fewer
  <2> QED
    BY <1>1, <1>2, <1>7, <1>9, <2>1, FewerToken DEF Token
<1> QED
  BY <1>10, <1>11

\* IOSubmitThread prepares an entry.
LEMMA PrepareToken ==
  ASSUME NEW u \in Tasks, Types, Token(u), NEW e \in Entries, sq' = Append(sq, e), e.res = req,
         spc = "exec" \/ req.task # u, spc' # "exec",
         CoSame, ioQueue' = ioQueue, DoneSame, WaitSame, runq' = runq
  PROVE  Token(u)'
<1>1. call'[u] = call[u] /\ tpc'[u] = tpc[u] /\ ret'[u] = ret[u] /\ inflight' = inflight /\ cq' = cq
      /\ slot' = slot /\ tk' = tk
  BY DEF CoSame, DoneSame, WaitSame
<1>2. QueueOnce(u)' /\ CqOnce(u)' /\ Queued(u)' = Queued(u) /\ Completed(u)' = Completed(u)
      /\ Working(u)' = Working(u) /\ Read(u)' = Read(u) /\ Resumed(u)' = Resumed(u)
      /\ Runnable(u)' = Runnable(u)
  BY <1>1, SamePlaces
<1>3. PICK k : k = call[u]
  OBVIOUS
<1>4. sq \in Seq(Entries) /\ ResOnce(sq, u, k)
  BY <1>3 DEF Types, SqTypes, Token, SqOnce
<1>5. e.res.task = u => Executed(u) /\ ~ResIn(sq, u) /\ e.res.call = k
  BY <1>3 DEF Token, OthersOnce, Executed, Alone, Submitted
<1>6. (ResIn(Append(sq, e), u) => ResIn(sq, u) \/ e.res.task = u) /\ ResOnce(Append(sq, e), u, k)
  BY <1>4, <1>5, AppendRefers
<1>7. SqOnce(u)' /\ (Submitted(u)' => Submitted(u) \/ e.res.task = u) /\ ~Executed(u)'
  BY <1>1, <1>3, <1>6 DEF SqOnce, ResOnce, Submitted, ResIn, Executed
<1>8. OthersOnce(u)'
  BY <1>1, <1>7 DEF Token, OthersOnce, Read
<1>9. CASE e.res.task = u
  <2>1. Alone(u)' /\ Waits(u)'
    BY <1>1, <1>2, <1>5, <1>7, <1>9 DEF Token, Alone, Waits, Somewhere
  <2> QED
    BY <1>2, <1>7, <1>8, <2>1 DEF Token
<1>10. CASE e.res.task # u
  <2>1. Fewer(u)
    BY <1>2, <1>7, <1>10 DEF Fewer
  <2> QED
    BY <1>1, <1>2, <1>7, <1>8, <2>1, FewerToken DEF Token
<1> QED
  BY <1>9, <1>10

\* A step of IOSubmitThread.
LEMMA SubmitterToken ==
  ASSUME NEW u \in Tasks \ Timed, Types, KindInv, Token(u), Submitter, opc = "idle"
  PROVE  Token(u)'
<1> USE DEF co, sched, ring, waiter
<1>s. CoSame /\ DoneSame /\ WaitSame /\ runq' = runq /\ slot' = slot /\ tk' = tk /\ u \in Tasks
  BY DEF Submitter, SubmitLoop, SubmitPop, SubmitLock, SubmitPopLocked, SubmitPark, SubmitWoken,
     ExecGetSqe, ExecTimer, ExecSubmit, ExecAdvance, CoSame, DoneSame, WaitSame
<1>1. CASE SubmitLoop \/ SubmitLock \/ SubmitPark \/ SubmitWoken \/ ExecSubmit \/ ExecAdvance
  <2>1. ioQueue' = ioQueue /\ sq' = sq /\ spc' # "exec"
    BY <1>1 DEF SubmitLoop, SubmitLock, SubmitPark, SubmitWoken, ExecSubmit, ExecAdvance, After
  <2> QED
    BY <1>s, <2>1, RestToken
<1>2. CASE SubmitPop \/ SubmitPopLocked
  <2>1. CASE ioQueue # <<>>
    <3>1. req' = Head(ioQueue) /\ ioQueue' = Tail(ioQueue) /\ sq' = sq /\ spc # "exec"
      BY <1>2, <2>1 DEF SubmitPop, SubmitPopLocked
    <3> QED
      BY <1>s, <2>1, <3>1, PopToken
  <2>2. CASE ioQueue = <<>>
    <3>1. ioQueue' = ioQueue /\ sq' = sq /\ spc' # "exec"
      BY <1>2, <2>2 DEF SubmitPop, SubmitPopLocked
    <3> QED
      BY <1>s, <3>1, RestToken
  <2> QED
    BY <2>1, <2>2
<1>3. CASE ExecGetSqe \/ ExecTimer
  <2>1. ioQueue' = ioQueue /\ spc' # "exec" /\ req \in Refs /\ (spc = "exec" \/ req.task # u)
    BY <1>3 DEF ExecGetSqe, ExecTimer, Types, ReqTypes, KindInv, Refuse, After
  <2>2. CASE sq' = sq
    BY <1>s, <2>1, <2>2, RestToken
  <2>3. CASE sq' # sq
    <3>1. PICK e \in Entries : e.res = req /\ sq' = Append(sq, e)
      BY <1>3, <2>3, Prepared
    <3> QED
      BY <1>s, <2>1, <3>1, PrepareToken
  <2> QED
    BY <2>2, <2>3
<1> QED
  BY <1>1, <1>2, <1>3 DEF Submitter

\* The kernel takes a request.
LEMMA TakeToken ==
  ASSUME NEW u \in Tasks \ Timed, Types, KindInv, Token(u), KernelTake
  PROVE  Token(u)'
<1> USE DEF co, sched, ring, waiter
<1>1. PICK n \in Nat \ {0} : Taken(n)
  BY TakeFacts
<1>2. CoSame /\ ReqSame /\ ioQueue' = ioQueue /\ WaitSame /\ runq' = runq /\ u \in Tasks
      /\ slot' = slot /\ tk' = tk
  BY DEF KernelTake, CoSame, ReqSame, WaitSame
<1>3. PICK k : k = call[u]
  OBVIOUS
<1>4. sq \in Seq(Entries) /\ cq \in Seq(Cqes) /\ Len(sq) \in Nat /\ published \in Nat
      /\ ResOnce(sq, u, k) /\ ResOnce(cq, u, k)
  BY <1>3, LenProperties DEF Types, SqTypes, DoneTypes, Token, SqOnce, CqOnce
<1>5. n <= Len(sq) /\ \A i \in 1 .. n : i \in 1 .. Len(sq) /\ Nth(n, i).res = sq[i].res
  <2>1. n <= Len(sq)
    BY <1>1, <1>4 DEF Taken
  <2> QED
    BY <1>1, <2>1, NthFacts
<1> DEFINE l == SubSeq(sq, n + 1, Len(sq))
<1>6. /\ ResIn(l, u) => ResIn(sq, u)
      /\ ResOnce(l, u, k)
      /\ \A i \in 1 .. n : sq[i].res.task = u => ~ResIn(l, u) /\ ResIn(sq, u) /\ sq[i].res.call = k
  BY <1>4, <1>5, DropRefers
<1>7. sq' = l
  BY <1>1 DEF Taken
<1> HIDE DEF l
<1>8. call'[u] = call[u] /\ tpc'[u] = tpc[u] /\ ret'[u] = ret[u]
  BY <1>2 DEF CoSame
<1>9. /\ SqOnce(u)' /\ (Submitted(u)' => Submitted(u))
      /\ \A i \in 1 .. n : sq[i].res.task = u
           => Submitted(u) /\ ~Submitted(u)' /\ sq[i].res.call = k
  BY <1>3, <1>6, <1>7, <1>8 DEF SqOnce, ResOnce, Submitted, ResIn
<1>10. QueueOnce(u)' /\ Queued(u)' = Queued(u)
       /\ Read(u)' = Read(u) /\ Resumed(u)' = Resumed(u) /\ Runnable(u)' = Runnable(u)
       /\ Executed(u)' = Executed(u)
  BY <1>2, <1>8, SamePlaces
<1>11. CqOnce(u)' /\ (Completed(u)' => Completed(u))
  <2>1. CASE cq' = cq
    BY <1>8, <2>1, SamePlaces
  <2>2. ASSUME NEW c \in Cqes, ResultOf(c), c.type = "TIMEOUT", cq' = Append(cq, c)
        PROVE  CqOnce(u)' /\ (Completed(u)' => Completed(u))
    <3>1. c.res.task # u
      BY <2>2 DEF ResultOf
    <3>2. (ResIn(Append(cq, c), u) => ResIn(cq, u)) /\ ResOnce(Append(cq, c), u, k)
      BY <1>4, <3>1, AppendRefers
    <3> QED
      BY <1>3, <1>8, <2>2, <3>2 DEF CqOnce, ResOnce, Completed, ResIn
  <2> QED
    BY <1>1, <2>1, <2>2 DEF Taken
<1>12. ASSUME NEW x \in inflight', x.res.task = u
       PROVE  x \in inflight \/ \E i \in 1 .. n : x = Nth(n, i) /\ sq[i].res.task = u /\ x.res.call = k
  <2>1. x \in inflight \/ \E i \in 1 .. n : x = Nth(n, i)
    BY <1>1, <1>12 DEF Taken
  <2> QED
    BY <1>5, <1>9, <1>12, <2>1
<1>13. CASE \E i \in 1 .. n : sq[i].res.task = u
  <2>1. Submitted(u) /\ ~Submitted(u)' /\ ~Working(u)
    BY <1>9, <1>13 DEF Token, Alone
  <2>2. \A x, y \in inflight' : x.res.task = u /\ y.res.task = u => x = y /\ x.res.call = k
    <3> SUFFICES ASSUME NEW x \in inflight', NEW y \in inflight', x.res.task = u, y.res.task = u
                 PROVE  x = y /\ x.res.call = k
      OBVIOUS
    <3>1. x \notin inflight /\ y \notin inflight
      BY <2>1 DEF Working
    <3>2. PICK i \in 1 .. n : x = Nth(n, i) /\ sq[i].res.task = u /\ x.res.call = k
      BY <1>12, <3>1
    <3>3. PICK j \in 1 .. n : y = Nth(n, j) /\ sq[j].res.task = u
      BY <1>12, <3>1
    <3>4. i = j
      BY <1>4, <1>5, <3>2, <3>3 DEF ResOnce
    <3> QED
      BY <3>2, <3>3, <3>4
  <2>3. OthersOnce(u)'
    BY <1>2, <1>3, <1>8, <2>2 DEF Token, OthersOnce, Executed, Read, ReqSame
  <2>4. Alone(u)' /\ Waits(u)'
    BY <1>8, <1>10, <1>11, <2>1 DEF Token, Alone, Waits, Somewhere
  <2> QED
    BY <1>9, <1>10, <1>11, <2>3, <2>4 DEF Token
<1>14. CASE ~ \E i \in 1 .. n : sq[i].res.task = u
  <2>1. \A x \in inflight' : x.res.task = u => x \in inflight
    BY <1>12, <1>14
  <2>2. (Working(u)' => Working(u)) /\ OthersOnce(u)'
    BY <1>2, <1>8, <2>1 DEF Token, OthersOnce, Executed, Read, ReqSame, Working
  <2>3. Fewer(u)
    BY <1>9, <1>10, <1>11, <2>2 DEF Fewer
  <2> QED
    BY <1>2, <1>8, <1>9, <1>10, <1>11, <2>2, <2>3, FewerToken DEF Token
<1> QED
  BY <1>13, <1>14

\* The kernel ends a request, its timer or both.
LEMMA EndToken ==
  ASSUME NEW u \in Tasks \ Timed, Types, KindInv, Token(u), KernelComplete \/ KernelExpire
  PROVE  Token(u)'
<1> USE DEF co, sched, ring, waiter
<1>1. PICK x \in inflight, a \in Cqes :
        \/ Ended(x, a) /\ cq' = Append(cq, a)
        \/ \E b \in Cqes : Posted(x, a, b)
        \/ Detached(x, a)
  BY EndFacts DEF Ends
<1>2. CoSame /\ ReqSame /\ ioQueue' = ioQueue /\ sq' = sq /\ WaitSame /\ runq' = runq /\ u \in Tasks
      /\ slot' = slot /\ tk' = tk
  BY DEF KernelComplete, KernelExpire, CoSame, ReqSame, WaitSame
<1>3. PICK k : k = call[u]
  OBVIOUS
<1>4. cq \in Seq(Cqes) /\ ResOnce(cq, u, k) /\ inflight \subseteq Requested
  BY <1>3 DEF Types, DoneTypes, Token, CqOnce
<1>5. \A y \in inflight : y.timed => y.res.task # u
  BY DEF KindInv
<1>6. \A y, z \in inflight : y.res.task = u /\ z.res.task = u => y = z /\ y.res.call = k
  BY <1>3 DEF Token, OthersOnce
<1>7. call'[u] = call[u] /\ tpc'[u] = tpc[u] /\ ret'[u] = ret[u]
  BY <1>2 DEF CoSame
<1>8. QueueOnce(u)' /\ SqOnce(u)' /\ Queued(u)' = Queued(u) /\ Submitted(u)' = Submitted(u)
      /\ Read(u)' = Read(u) /\ Resumed(u)' = Resumed(u) /\ Runnable(u)' = Runnable(u)
      /\ Executed(u)' = Executed(u)
  BY <1>2, <1>7, SamePlaces
<1>9. /\ \A y \in inflight' : y.res.task = u => \E z \in inflight \ {x} : z.res = y.res
      /\ \A y, z \in inflight' : y.res.task = u /\ z.res.task = u => y = z
  <2>1. CASE inflight' = Without(x)
    <3>1. \A y \in inflight' : \E z \in inflight \ {x} : y = Left(x, z) /\ z.res = y.res
      BY <2>1, WithoutFacts
    <3>2. ASSUME NEW y \in inflight', NEW z \in inflight', y.res.task = u, z.res.task = u PROVE y = z
      <4>1. PICK v \in inflight \ {x} : y = Left(x, v) /\ v.res = y.res
        BY <3>1
      <4>2. PICK w \in inflight \ {x} : z = Left(x, w) /\ w.res = z.res
        BY <3>1
      <4>3. v = w
        BY <1>6, <3>2, <4>1, <4>2
      <4> QED
        BY <4>1, <4>2, <4>3
    <3> QED
      BY <3>1, <3>2
  <2>2. CASE Detached(x, a)
    <3>1. inflight' = (inflight \ {x}) \cup {[x EXCEPT !.timed = FALSE]} /\ x.timed
      BY <2>2 DEF Detached
    <3>2. [x EXCEPT !.timed = FALSE].res = x.res /\ x.res.task # u
      BY <1>4, <1>5, <3>1 DEF Requested
    <3>3. \A y \in inflight' : y.res.task = u => y \in inflight \ {x}
      BY <3>1, <3>2
    <3> QED
      BY <1>6, <3>3
  <2> QED
    BY <1>1, <2>1, <2>2 DEF Ended, Posted
<1>10. OthersOnce(u)' /\ (Working(u)' => Working(u))
  <2>1. \A y, z \in inflight' : y.res.task = u /\ z.res.task = u => y = z /\ y.res.call = k
    BY <1>6, <1>9
  <2>2. Working(u)' => Working(u)
    BY <1>9 DEF Working
  <2> QED
    BY <1>2, <1>3, <1>7, <2>1, <2>2 DEF Token, OthersOnce, Executed, Read, ReqSame
<1>11. CASE x.res.task # u
  <2>1. a.res.task # u
    BY <1>1, <1>11 DEF Ended, Posted, Detached
  <2>2. (ResIn(Append(cq, a), u) => ResIn(cq, u)) /\ ResOnce(Append(cq, a), u, k)
        /\ Append(cq, a) \in Seq(Cqes)
    BY <1>4, <2>1, AppendRefers, AppendFacts
  <2>3. (ResIn(cq', u) => ResIn(cq, u)) /\ ResOnce(cq', u, k)
    <3>1. CASE cq' = Append(cq, a)
      BY <2>2, <3>1
    <3>2. ASSUME NEW b \in Cqes, Posted(x, a, b) PROVE (ResIn(cq', u) => ResIn(cq,
         u)) /\ ResOnce(cq', u, k)
      <4>1. cq' = Append(Append(cq, a), b) /\ b.res.task # u
        BY <1>11, <3>2 DEF Posted
      <4>2. PICK s \in Seq(Cqes) : s = Append(cq, a)
        BY <2>2
      <4>3. (ResIn(Append(s, b), u) => ResIn(s, u)) /\ ResOnce(Append(s, b), u, k)
        BY <2>2, <4>1, <4>2, AppendRefers
      <4> QED
        BY <2>2, <4>1, <4>2, <4>3
    <3> QED
      BY <1>1, <3>1, <3>2 DEF Detached
  <2>4. CqOnce(u)' /\ (Completed(u)' => Completed(u))
    BY <1>3, <1>7, <2>3 DEF CqOnce, ResOnce, Completed, ResIn
  <2>5. Fewer(u)
    BY <1>8, <1>10, <2>4 DEF Fewer
  <2> QED
    BY <1>2, <1>7, <1>8, <1>10, <2>4, <2>5, FewerToken DEF Token
<1>12. CASE x.res.task = u
  <2>1. Ended(x, a) /\ cq' = Append(cq, a)
    BY <1>1, <1>5, <1>12 DEF Posted, Detached
  <2>2. Working(u) /\ a.res.task = u /\ a.res.call = k
    BY <1>6, <1>12, <2>1 DEF Working, Ended
  <2>3. ~Working(u)'
    <3>1. \A z \in inflight \ {x} : z.res.task # u
      BY <1>6, <1>12
    <3> QED
      BY <1>9, <3>1 DEF Working
  <2>4. ~Completed(u)
    BY <2>2 DEF Token, Alone
  <2>5. ResOnce(Append(cq, a), u, k)
    BY <1>4, <2>2, <2>4, AppendRefers DEF Completed
  <2>6. CqOnce(u)'
    BY <1>3, <1>7, <2>1, <2>5 DEF CqOnce, ResOnce
  <2>7. Alone(u)' /\ Waits(u)'
    BY <1>7, <1>8, <2>2, <2>3 DEF Token, Alone, Waits, Somewhere
  <2> QED
    BY <1>8, <1>10, <2>6, <2>7 DEF Token
<1> QED
  BY <1>11, <1>12

\* A step of IOWaitThread.
LEMMA WaiterToken ==
  ASSUME NEW u \in Tasks \ Timed, Types, KindInv, Token(u), Waiter
  PROVE  Token(u)'
<1> USE DEF co, sched, ring, waiter
<1>0. u \in Tasks /\ u # NULL /\ tpc' = tpc /\ call' = call /\ ReqSame /\ ioQueue' = ioQueue
      /\ sq' = sq
      /\ inflight' = inflight
  BY NamesAssumption DEF Waiter, WaitLoop, WaitCqe, WaitResult, WaitAdd, ReqSame
<1>t. /\ slot \in Cqes \cup {NULL} /\ (wpc = "read" <=> slot # NULL)
      /\ tk \in Tasks \cup {NULL} /\ runq \in [Tasks \cup {NULL} -> Nat]
      /\ ret \in [Tasks -> {"unset", "done", "EAGAIN"}]
  BY DEF Types, WaitTypes, CoTypes
<1>k. PICK k : k = call[u]
  OBVIOUS
<1>s. QueueOnce(u)' /\ SqOnce(u)' /\ Queued(u)' = Queued(u) /\ Submitted(u)' = Submitted(u)
      /\ Executed(u)' = Executed(u) /\ Working(u)' = Working(u)
      /\ (cq' = cq => Completed(u)' = Completed(u) /\ CqOnce(u)')
      /\ (slot' = slot => Read(u)' = Read(u))
      /\ (tk' = tk => Resumed(u)' = Resumed(u))
      /\ (runq' = runq => Runnable(u)' = Runnable(u))
  BY <1>0, SamePlaces
<1>o. (Read(u)' => slot'.res.call = k) /\ runq'[u] <= 1 => OthersOnce(u)'
  BY <1>0, <1>k DEF Token, OthersOnce, ReqSame, Executed
<1>1. CASE WaitLoop
  <2>1. CoSame /\ DoneSame /\ slot' = slot /\ tk' = tk /\ runq' = runq
    BY <1>1 DEF WaitLoop, CoSame, DoneSame
  <2> QED
    BY <1>0, <2>1, RestToken
<1>2. CASE WaitCqe
  <2>1. cq # <<>> /\ slot' = Head(cq) /\ cq' = Tail(cq) /\ tk' = tk /\ runq' = runq /\ ret' = ret
        /\ wpc = "wait"
    BY <1>2 DEF WaitCqe
  <2>2. cq \in Seq(Cqes) /\ ResOnce(cq, u, k) /\ ~Read(u)
    BY <1>k, <1>t, <2>1 DEF Types, DoneTypes, Token, CqOnce, Read
  <2>3. /\ ResIn(Tail(cq), u) => ResIn(cq, u)
        /\ ResOnce(Tail(cq), u, k)
        /\ Head(cq).res.task = u => ~ResIn(Tail(cq), u) /\ ResIn(cq, u) /\ Head(cq).res.call = k
    BY <2>1, <2>2, TailRefers
  <2>4. CqOnce(u)' /\ (Completed(u)' => Completed(u))
    BY <1>0, <1>k, <2>1, <2>3 DEF CqOnce, ResOnce, Completed, ResIn
  <2>5. Read(u)' => Completed(u) /\ ~Completed(u)' /\ slot'.res.call = k
    BY <2>1, <2>3 DEF Read, Completed, ResIn
  <2>6. OthersOnce(u)'
    BY <1>o, <2>1, <2>5 DEF Token, OthersOnce
  <2>7. Alone(u)' /\ Waits(u)'
    BY <1>0, <1>s, <2>1, <2>2, <2>4, <2>5 DEF Token, Alone, Waits, Somewhere
  <2> QED
    BY <1>s, <2>4, <2>6, <2>7 DEF Token
<1>3. CASE WaitResult
  <2>1. wpc = "read" /\ slot \in Cqes /\ slot' = NULL /\ cq' = cq /\ runq' = runq
    BY <1>3, <1>t DEF WaitResult
  <2>2. ~Read(u)' /\ OthersOnce(u)'
    BY <1>o, <2>1 DEF Read, Token, OthersOnce
  <2>3. CASE slot.res.task = u
    <3>1. Read(u) /\ slot.type = "NORMAL" /\ slot.val = "done"
      <4>1. Read(u) /\ slot.type \in {"NORMAL", "TIMEOUT"} /\ ResultOf(slot)
        BY <1>t, <2>1, <2>3 DEF Read, KindInv, Cqes
      <4> QED
        BY <2>3, <4>1 DEF ResultOf
    <3>2. Outcome(slot) = "add"
      BY <3>1 DEF Outcome
    <3>3. tk' = u /\ ret' = Stored(slot)
      BY <1>0, <1>3, <2>3, <3>2 DEF WaitResult
    <3>4. ret'[u] # "unset"
      BY <1>0, <1>t, <2>3, <3>1, <3>3 DEF Stored
    <3>5. Alone(u)' /\ Waits(u)'
      BY <1>0, <1>s, <2>1, <2>2, <3>1, <3>3, <3>4 DEF Token, Alone, Waits, Somewhere
    <3> QED
      BY <1>s, <2>1, <2>2, <3>5 DEF Token
  <2>4. CASE slot.res.task # u
    <3>1. tk' # u /\ ret'[u] = ret[u]
      BY <1>0, <1>3, <1>t, <2>4 DEF WaitResult, Stored
    <3>2. Fewer(u)
      BY <1>s, <2>1, <2>2, <3>1 DEF Fewer, Resumed
    <3> QED
      BY <1>0, <1>s, <2>1, <2>2, <3>1, <3>2, FewerToken DEF Token
  <2> QED
    BY <2>3, <2>4
<1>4. CASE WaitAdd
  <2>1. wpc = "add" /\ slot' = slot /\ cq' = cq /\ ret' = ret /\ tk' = NULL /\ slot = NULL
    BY <1>4, <1>t DEF WaitAdd
  <2>2. runq'[u] = (IF tk = u THEN runq[u] + 1 ELSE runq[u]) /\ runq[u] \in Nat
    BY <1>0, <1>4, <1>t DEF WaitAdd
  <2>3. ~Resumed(u)' /\ (Runnable(u)' => Resumed(u) \/ Runnable(u))
    BY <1>0, <2>1, <2>2 DEF Resumed, Runnable
  <2>4. runq'[u] <= 1
    <3>1. CASE tk = u
      <4>1. runq[u] = 0
        BY <3>1 DEF Token, Alone, Resumed, Runnable
      <4> QED
        BY <2>2, <3>1, <4>1
    <3>2. CASE tk # u
      BY <2>2, <3>2 DEF Token, OthersOnce
    <3> QED
      BY <3>1, <3>2
  <2>5. OthersOnce(u)' /\ ~Read(u)'
    BY <1>o, <2>1, <2>4 DEF Read
  <2>6. Alone(u)' /\ Waits(u)'
    BY <1>0, <1>s, <2>1, <2>3, <2>5 DEF Token, Alone, Waits, Somewhere
  <2> QED
    BY <1>s, <2>1, <2>5, <2>6 DEF Token
<1> QED
  BY <1>1, <1>2, <1>3, <1>4 DEF Waiter

\* A step keeps the reference to the frame of each untimed call, until Stop is
\* called.
LEMMA TokenStep ==
  ASSUME Types, KindInv, PrivateInv, TokenInv, [Next]_vars
  PROVE  TokenInv'
<1> USE DEF co, sched, ring, waiter
<1> SUFFICES ASSUME opc' = "idle", NEW u \in Tasks \ Timed
             PROVE  Token(u)'
  BY DEF TokenInv
<1>2. opc = "idle" /\ ~StopCall /\ ~Stopper
  BY IdleFirst
<1>0. Token(u) /\ u \in Tasks
  BY <1>2 DEF TokenInv
<1>1. CASE Notifier \/ UNCHANGED vars
  <2>1. CoSame /\ runq' = runq /\ ioQueue' = ioQueue /\ sq' = sq /\ DoneSame /\ slot' = slot
        /\ tk' = tk
        /\ ReqSame
    BY <1>1 DEF Notifier, IOSubmitCheck, WakeUpIOSubmit, vars, CoSame, DoneSame, ReqSame
  <2> QED
    BY <1>0, <2>1, RestToken
<1> QED
  BY <1>0, <1>1, <1>2, CoroutineToken, SubmitterToken, TakeToken, EndToken, WaiterToken
  DEF Next, Caller, Coroutine

-----------------------------------------------------------------------------
(* Theorems *)

\* In the initial states nothing refers to a frame.
LEMMA Start ==
  ASSUME Init
  PROVE  Types /\ KindInv /\ PrivateInv /\ TokenInv /\ SleepInv
<1>1. /\ tpc = [t \in Tasks |-> "body"] /\ call = [t \in Tasks |-> 0]
      /\ ret = [t \in Tasks |-> "unset"]
      /\ ioQueue = <<>> /\ ioWait = FALSE /\ stop = FALSE /\ nCheck = 0 /\ nWake = 0
      /\ spc \in {"none", "loop"} /\ req = NULL /\ opc = "idle" /\ refused = {}
      /\ sq = <<>> /\ published = 0 /\ inflight = {} /\ cq = <<>>
      /\ wpc \in {"none", "loop"} /\ slot = NULL /\ tk = NULL /\ runq = [t \in Tasks \cup {NULL} |-> 0]
  BY DEF Init
<1>2. <<>> \in Seq(Refs) /\ <<>> \in Seq(Entries) /\ <<>> \in Seq(Cqes) /\ Len(<<>>) = 0
  BY EmptySeq
<1>3. Len(sq) = 0 /\ Len(cq) = 0 /\ Len(ioQueue) = 0
  BY <1>1, <1>2
<1>4. CoTypes /\ SchedTypes /\ ReqTypes /\ SqTypes /\ DoneTypes /\ WaitTypes
  <2>1. CoTypes /\ SchedTypes
    BY <1>1, <1>2 DEF CoTypes, SchedTypes
  <2>2. ReqTypes /\ DoneTypes /\ WaitTypes
    BY <1>1, <1>2 DEF ReqTypes, DoneTypes, WaitTypes
  <2>3. SqTypes
    BY <1>1, <1>2, SizeAssumption DEF SqTypes
  <2> QED
    BY <2>1, <2>2, <2>3
<1>5. KindInv /\ PrivateInv
  BY <1>1, <1>3 DEF KindInv, PrivateInv
<1>6. ASSUME NEW u \in Tasks PROVE Token(u)
  <2>1. ~Somewhere(u)
    BY <1>1, <1>3, <1>6, NamesAssumption DEF Somewhere, Queued, Executed, Submitted, Working,
         Completed,
       Read, Resumed, Runnable, RefIn, ResIn
  <2>2. QueueOnce(u) /\ SqOnce(u) /\ CqOnce(u)
    BY <1>3 DEF QueueOnce, SqOnce, CqOnce, RefsOnce, ResOnce
  <2>3. OthersOnce(u)
    BY <1>1, <2>1 DEF OthersOnce, Somewhere
  <2> QED
    BY <2>1, <2>2, <2>3 DEF Token, Alone, Waits, Somewhere
<1>7. SleepInv
  BY <1>1 DEF SleepInv, InWait
<1> QED
  BY <1>4, <1>5, <1>6, <1>7 DEF Types, TokenInv

\* Every variable of the I/O path has its type, whatever the coroutines, the
\* kernel and a Stop do; in particular the submission queue never holds more than
\* its size, Exec always has a request, and WaitResult a completion to look at.
THEOREM Typing == Spec => []TypeOK
<1>1. Init => Types /\ KindInv
  BY Start
<1>2. Types /\ KindInv /\ [Next]_vars => Types' /\ KindInv'
  BY TypeStep
<1>3. Types => TypeOK
  BY TypesOK
<1> QED
  BY <1>1, <1>2, <1>3, PTL DEF Spec

\* The invariant that follows the reference to the frame of each untimed call.
LEMMA References == Spec => [](Types /\ KindInv /\ PrivateInv /\ TokenInv)
<1>1. Init => Types /\ KindInv /\ PrivateInv /\ TokenInv
  BY Start
<1>2. Types /\ KindInv /\ PrivateInv /\ TokenInv /\ [Next]_vars
      => Types' /\ KindInv' /\ PrivateInv' /\ TokenInv'
  BY TypeStep, PrivateStep, TokenStep
<1> QED
  BY <1>1, <1>2, PTL DEF Spec

\* Until Stop is called, the kernel, IOSubmitThread and IOWaitThread refer to the
\* frame of an untimed call only while its coroutine is suspended in it, however
\* many timed calls there are beside it and however full the ring is.
THEOREM Frames == Spec => []NoDanglingFrame
<1>1. ASSUME Types, KindInv, PrivateInv, TokenInv PROVE NoDanglingFrame
  <2> SUFFICES ASSUME opc = "idle", NEW t \in Tasks \ Timed, NEW k \in 1 .. MaxCalls,
                      NEW r, r = [task |-> t, call |-> k],
                      InRing(r) \/ (req = r /\ spc # "advance") \/ r \in Range(ioQueue)
               PROVE  tpc[t] = "wait" /\ call[t] = k /\ runq[t] = 0
    BY DEF NoDanglingFrame
  <2>1. Token(t) /\ t \in Tasks /\ t \notin Timed /\ r.task = t /\ r.call = k /\ r \in Refs
    BY <1>1 DEF TokenInv, Refs
  <2>2. ASSUME InRing(r)
        PROVE (Submitted(t) \/ Working(t) \/ Completed(t) \/ Read(t)) /\ call[t] = k
    <3>1. ASSUME NEW i \in 1 .. Len(sq), sq[i].res = r PROVE Submitted(t) /\ call[t] = k
      BY <2>1, <3>1 DEF Token, SqOnce, ResOnce, Submitted, ResIn
    <3>2. ASSUME NEW x \in inflight, x.res = r PROVE Working(t) /\ call[t] = k
      BY <2>1, <3>2 DEF Token, OthersOnce, Working
    <3>3. ASSUME NEW i \in 1 .. Len(cq), cq[i].res = r PROVE Completed(t) /\ call[t] = k
      BY <2>1, <3>3 DEF Token, CqOnce, ResOnce, Completed, ResIn
    <3>4. ASSUME slot # NULL, slot.res = r PROVE Read(t) /\ call[t] = k
      BY <2>1, <3>4 DEF Token, OthersOnce, Read
    <3> QED
      BY <2>2, <3>1, <3>2, <3>3, <3>4 DEF InRing
  <2>3. ASSUME r \in Range(ioQueue) PROVE Queued(t) /\ call[t] = k
    <3>1. PICK i \in 1 .. Len(ioQueue) : ioQueue[i] = r
      <4>1. DOMAIN ioQueue = 1 .. Len(ioQueue)
        BY <1>1, LenProperties DEF Types, SchedTypes
      <4> QED
        BY <2>3, <4>1 DEF Range
    <3> QED
      BY <2>1, <3>1 DEF Token, QueueOnce, RefsOnce, Queued, RefIn
  <2>4. ASSUME req = r, spc # "advance" PROVE (Executed(t) \/ Submitted(t)) /\ call[t] = k
    <3>1. req # NULL
      BY <2>1, <2>4, NullAssumption
    <3>2. spc \in {"exec", "exec_timer", "submit"}
      BY <1>1, <2>4, <3>1 DEF Types, ReqTypes
    <3>3. CASE spc = "exec"
      BY <2>1, <2>4, <3>3 DEF Executed, Token, OthersOnce
    <3>4. spc # "exec_timer"
      BY <1>1, <2>1, <2>4 DEF KindInv
    <3>5. CASE spc = "submit"
      <4>1. published < Len(sq) /\ sq[Len(sq)].res = r
        BY <1>1, <2>4, <3>5 DEF PrivateInv
      <4>2. Len(sq) \in 1 .. Len(sq)
        <5>1. Len(sq) \in Nat /\ published \in Nat
          BY <1>1, LenProperties DEF Types, SqTypes
        <5> QED
          BY <4>1, <5>1
      <4> QED
        BY <2>1, <4>1, <4>2 DEF Token, SqOnce, ResOnce, Submitted, ResIn
    <3> QED
      BY <3>2, <3>3, <3>4, <3>5
  <2>5. /\ call[t] = k
        /\ Queued(t) \/ Executed(t) \/ Submitted(t) \/ Working(t) \/ Completed(t) \/ Read(t)
    BY <2>2, <2>3, <2>4
  <2>6. tpc[t] = "wait" /\ ~Runnable(t)
    BY <2>1, <2>5 DEF Token, Alone, Waits, Somewhere
  <2> QED
    BY <2>5, <2>6 DEF Runnable
<1> QED
  BY <1>1, References, PTL

\* Until Stop is called, a coroutine whose call has no timeout is made runnable once
\* for it, suspended, with the result in place.
THEOREM Resumption == Spec => []UntimedResumedOnce
<1>1. ASSUME Types, KindInv, PrivateInv, TokenInv PROVE UntimedResumedOnce
  <2> SUFFICES ASSUME opc = "idle", NEW t \in Tasks \ Timed
               PROVE  Once(t)
    BY DEF UntimedResumedOnce
  <2>1. Token(t)
    BY <1>1 DEF TokenInv
  <2>2. runq[t] = 1 => Runnable(t)
    BY DEF Runnable
  <2>3. tk = t <=> Resumed(t)
    BY DEF Resumed
  <2> QED
    BY <2>1, <2>2, <2>3 DEF Once, Token, Alone, OthersOnce, Waits, Somewhere
<1> QED
  BY <1>1, References, PTL

\* If ioWait_ is read as it was written, IOSubmitThread never sleeps on a request
\* that nobody will wake it for, a Stop or not.
THEOREM RequestSeen ==
  ASSUME PlainFlag = FALSE
  PROVE  Spec => []NoLostRequest
<1>1. Init => Types /\ KindInv /\ SleepInv
  BY Start
<1>2. Types /\ KindInv /\ SleepInv /\ [Next]_vars => Types' /\ KindInv' /\ SleepInv'
  BY TypeStep, SleepStep
<1>3. SleepInv => NoLostRequest
  BY DEF SleepInv, NoLostRequest
<1> QED
  BY <1>1, <1>2, <1>3, PTL DEF Spec
=============================================================================
