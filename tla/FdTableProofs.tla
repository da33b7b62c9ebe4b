--------------------------- MODULE FdTableProofs ---------------------------
(***************************************************************************)
(* The descriptor table agrees with the kernel, for any number of          *)
(* coroutines and threads, descriptors, files, calls and timeouts.         *)
(*                                                                         *)
(* What the properties say of the table between calls is not inductive: a  *)
(* call that is half done has to be described too.  So the invariant says  *)
(* what each call has in hand: a new file is under one number that nobody  *)
(* else knows (NewInv); a call that no other crossed has its numbers and   *)
(* its file to itself (CrossInv), and the kernel still has there what the  *)
(* call found (HandInv); an entry that no call is about to write, and that *)
(* no crossed call wrote last, is the kernel's file (TableInv).  The same  *)
(* for the settings: what is recorded of a file is what the kernel has, or *)
(* a call at work on it knows the difference (RecordInv, SettingInv,       *)
(* AcceptInv, TimeInv).                                                    *)
(***************************************************************************)
EXTENDS FdTable, WellFoundedInduction, TLAPS

\* A caller that has a new file in hand.
Pending(t) == pc[t] \in {"store", "accepted"}

\* No call is about to write the entry n.
Quiet(n) == \A t \in Callers : n \notin Writes(t)

Described(f) == desc[f].fdType # "none"

PcType   == {"idle", "store", "accept", "accepted", "clear", "copy", "setfl", "settimeout"}
FileType == [kind : {"none", "file", "stream", "dgram"}, nonblock : BOOLEAN]
DescType == [fdType : {"none", "tSocket", "tOther"},
             type : {"none", "stream", "dgram", "flagged"}, nonblock : BOOLEAN,
             timeout : [Dirs -> -(IntMax + 1) .. IntMax]]

\* The arguments of each call in progress, and the timeouts asked for.
ArgOK ==
  /\ DOMAIN arg = Callers
  /\ \A t \in Callers :
       /\ pc[t] = "store" => arg[t] \in [fd : Fds, file : Files, new : DescType]
       /\ pc[t] = "accept" => arg[t] \in [sockfd : Fds, listener : Files, nonblock : BOOLEAN]
       /\ pc[t] = "accepted" => arg[t] \in [fd : Fds, file : Files, sockfd : Fds,
                                            listener : Files, nonblock : BOOLEAN]
       /\ pc[t] = "clear" => arg[t] \in [fd : Fds]
       /\ pc[t] = "copy" => arg[t] \in [fd : Fds, from : Fds]
       /\ pc[t] = "setfl" => arg[t] \in [fd : Fds, file : Files, nonblock : BOOLEAN]
       /\ pc[t] = "settimeout" => arg[t] \in [fd : Fds, file : Files, dir : Dirs, time : Times]
  /\ asked \in [Files -> [Dirs -> Times \cup {0}]]

\* A file has a name of its own: one that was never opened is nowhere.
UsedInv ==
  /\ \A n \in Fds : kfd[n] # NULL => kfile[kfd[n]].kind # "none"
  /\ \A f \in Files : kfile[f].kind = "none" =>
       ~Described(f) /\ asked[f] = Zero /\ f \notin unseen /\ f \notin flagged /\ f \notin misread

\* A file is recorded, or about to be, unless it is one the code does not see;
\* an entry of the table is a recorded one.
SeenInv ==
  /\ \A n \in Fds : fds[n] # NULL => Described(fds[n])
  /\ \A f \in Files : kfile[f].kind # "none" =>
       \/ f \in unseen
       \/ Described(f)
       \/ \E t \in Callers : Pending(t) /\ arg[t].file = f
  /\ \A f \in Files : f \in unseen =>
       ~Described(f) /\ \A t \in Callers : Pending(t) => arg[t].file # f

\* A new file is under one descriptor only, which nobody else knows.
NewInv ==
  \A t \in Callers : Pending(t) =>
    /\ kfd[arg[t].fd] = arg[t].file
    /\ \A n \in Fds : kfd[n] = arg[t].file => n = arg[t].fd
    /\ ~Described(arg[t].file) /\ asked[arg[t].file] = Zero
    /\ \A u \in Callers : Pending(u) /\ arg[u].fd = arg[t].fd => u = t

\* A call that no other crossed has its numbers and its file to itself.
CrossInv ==
  \A t \in Callers \ mixed :
    /\ Reads(t) \cap raced = {}
    /\ \A u \in Callers \ {t} : /\ (Writes(t) \cup Reads(t)) \cap Writes(u) = {}
                                /\ Works(t) \cap Works(u) = {}

\* ... and the kernel still has what it found there.
HandInv ==
  \A t \in Callers \ mixed :
    /\ pc[t] = "clear" => kfd[arg[t].fd] = NULL \/ ~Described(kfd[arg[t].fd])
    /\ pc[t] = "copy" => /\ kfd[arg[t].from] # NULL /\ kfd[arg[t].fd] = kfd[arg[t].from]
                         /\ arg[t].from # arg[t].fd
    /\ pc[t] \in {"setfl", "settimeout"} => kfd[arg[t].fd] = arg[t].file

\* An entry that no call is about to write, or wrote last while crossed, is the
\* kernel's file or empty, and is there if the file was recorded at all.
TableInv ==
  \A n \in Fds \ raced : Quiet(n) =>
    /\ fds[n] \in {NULL, kfd[n]}
    /\ kfd[n] # NULL /\ Described(kfd[n]) => fds[n] = kfd[n]

\* d has the kind of the kernel's file f, and its type_.
FdTypeIs(d, f) == d.fdType = (IF kfile[f].kind = "file" THEN "tOther" ELSE "tSocket")
TypeIs(d, f) ==
  kfile[f].kind # "file" => d.type = (IF f \in flagged THEN "flagged" ELSE kfile[f].kind)

\* b is the O_NONBLOCK of f, or is known to be misread.
NonblockIs(b, f) == (b = kfile[f].nonblock) <=> f \notin misread

\* A file is recorded, or about to be, as the kernel has it.
RecordInv ==
  /\ \A f \in Files : Described(f) =>
       /\ FdTypeIs(desc[f], f)
       /\ f \notin blurred =>
            /\ TypeIs(desc[f], f)
            /\ \/ NonblockIs(desc[f].nonblock, f)
               \/ \E t \in Callers : pc[t] = "setfl" /\ arg[t].file = f
  /\ \A t \in Callers : pc[t] = "store" =>
       /\ FdTypeIs(arg[t].new, arg[t].file) /\ arg[t].new.timeout = Zero
       /\ TypeIs(arg[t].new, arg[t].file)
       /\ arg[t].file \notin blurred => NonblockIs(arg[t].new.nonblock, arg[t].file)

\* What an uncrossed call knows of the file whose settings it changes.
SettingInv ==
  \A t \in Callers \ mixed :
    /\ pc[t] = "setfl" /\ Described(arg[t].file) /\ arg[t].file \notin blurred =>
         desc[arg[t].file].nonblock = arg[t].nonblock
    /\ pc[t] = "settimeout" => asked[arg[t].file][arg[t].dir] = arg[t].time

\* What an accept4 knows of its listener and of the file it was given.
AcceptInv ==
  \A t \in Callers :
    /\ pc[t] \in {"accept", "accepted"} =>
         /\ Described(arg[t].listener)
         /\ t \notin mixed => kfile[arg[t].listener].kind = "stream"
    /\ pc[t] = "accepted" =>
         /\ kfile[arg[t].file].kind = "stream"
         /\ arg[t].file \in flagged <=> arg[t].listener \in flagged
         /\ arg[t].file \notin blurred => NonblockIs(arg[t].nonblock, arg[t].file)

\* The timeouts of a recorded file are the ones asked for.
TimeInv ==
  \A f \in Files \ blurred, d \in Dirs : Described(f) =>
    \/ desc[f].timeout[d] = ToInt(asked[f][d])
    \/ \E t \in Callers : pc[t] = "settimeout" /\ arg[t].file = f /\ arg[t].dir = d

Inv == /\ ArgOK /\ UsedInv /\ SeenInv /\ NewInv /\ CrossInv /\ HandInv /\ TableInv
       /\ RecordInv /\ SettingInv /\ AcceptInv /\ TimeInv

-----------------------------------------------------------------------------
(* Numbers *)

\* A set of numbers that is not empty has a smallest element.
LEMMA NatMin == ASSUME NEW T, T \subseteq Nat, T # {}
                PROVE  \E x \in T : \A y \in T : x =< y
<1> DEFINE Less == {ss \in Nat \X Nat : ss[1] < ss[2]}
<1>1. ASSUME NEW R, NEW S, T \subseteq S, IsWellFoundedOn(R, S)
      PROVE  \E x \in T : \A y \in T : ~(<<y, x>> \in R)
  BY ONLY <1>1, WFMin, T # {}
<1>2. IsWellFoundedOn(Less, Nat)
  BY NatLessThanWellFounded, Zenon DEF OpToRel
<1>3. \A x, y \in Nat : y < x => <<y, x>> \in Less
  OBVIOUS
<1> HIDE DEF Less
<1>4. PICK x \in T : \A y \in T : ~(<<y, x>> \in Less)
  BY ONLY <1>1, <1>2, T \subseteq Nat
<1>5. \A y \in T : ~(y < x)
  BY <1>3, <1>4
<1>6. \A y \in T : x =< y
  BY <1>5
<1> QED
  BY <1>6

\* The kernel hands out a free descriptor.
LEMMA LowestFree == ASSUME Free # {} PROVE Lowest \in Fds /\ kfd[Lowest] = NULL
<1>1. Free \subseteq Nat
  BY FdAssumption DEF Free, Fds
<1>2. \E x \in Free : \A y \in Free : x =< y
  BY <1>1, NatMin
<1>3. Lowest \in Free
  BY <1>2 DEF Lowest, Min
<1> QED
  BY <1>3 DEF Free

\* Whatever is assigned to an int wraps into its range.
LEMMA IntRange == \A x \in Int : ToInt(x) \in -(IntMax + 1) .. IntMax
<1>1. IntMax \in Nat
  BY IntAssumption
<1>2. ASSUME NEW x \in Int
      PROVE  (x + IntMax + 1) % (2 * (IntMax + 1)) \in 0 .. 2 * (IntMax + 1) - 1
  BY <1>1
<1> QED
  BY <1>1, <1>2 DEF ToInt

\* A number that fits an int is kept.
LEMMA IntExact == \A x \in 0 .. IntMax : ToInt(x) = x
<1>1. IntMax \in Nat
  BY IntAssumption
<1>2. ASSUME NEW x \in 0 .. IntMax
      PROVE  (x + IntMax + 1) % (2 * (IntMax + 1)) = x + IntMax + 1
  BY <1>1
<1> QED
  BY <1>1, <1>2 DEF ToInt

\* Quotient and remainder.
LEMMA Division ==
  ASSUME NEW y \in Int, NEW m \in Nat, m > 0
  PROVE  y \div m \in Int /\ y % m \in 0 .. m - 1 /\ y = (y % m) + (y \div m) * m
<1>1. y \div m \in Int
  OBVIOUS
<1>2. y % m \in 0 .. m - 1
  OBVIOUS
<1>3. y = (y % m) + (y \div m) * m
  BY SMTT(30)
<1> QED
  BY <1>1, <1>2, <1>3

\* Any other number loses a multiple of 2^32.
LEMMA IntWrap ==
  ASSUME NEW x \in Nat
  PROVE  \E k \in 0 .. x : x = ToInt(x) + k * (2 * (IntMax + 1))
<1>1. PICK half \in Nat : half = IntMax + 1 /\ half >= 1
  BY IntAssumption
<1>2. PICK y \in Nat : y = x + half
  BY <1>1
<1>3. PICK m \in Nat : m = 2 * half /\ m > 0
  BY <1>1
<1>4. PICK k \in Int, r \in 0 .. m - 1 : y = r + k * m /\ r = y % m
  <2>1. y \in Int /\ m \in Nat /\ m > 0
    BY <1>2, <1>3
  <2> QED
    BY ONLY <2>1, Division
<1>5. k * m \in Int /\ k * half \in Int /\ k * m = 2 * (k * half)
  <2>1. ASSUME NEW i \in Int, NEW j \in Int
        PROVE  i * j \in Int /\ i * (2 * j) = 2 * (i * j)
    OBVIOUS
  <2>2. m = 2 * half /\ half \in Int /\ 2 * half \in Int
    BY <1>1, <1>3
  <2> QED
    BY ONLY <1>4, <2>1, <2>2
<1>6. k >= 0
  <2>1. k <= -1 => k * m <= -m
    BY <1>3, <1>4
  <2> QED
    BY <1>2, <1>3, <1>4, <1>5, <2>1
<1>7. k <= x
  <2>1. CASE x = 0
    <3>1. k >= 1 => k * m >= m
      BY <1>3, <1>4
    <3> QED
      BY <1>1, <1>2, <1>3, <1>4, <1>5, <2>1, <3>1
  <2>2. CASE x >= 1
    <3>1. k >= x + 1 => k * half >= (x + 1) * half
      BY <1>1, <1>4
    <3>2. (x + 1) * half = x * half + half /\ x * half >= x /\ x * half \in Int
      <4>1. half \in Nat /\ half >= 1 /\ x \in Nat
        BY <1>1
      <4>2. ASSUME NEW i \in Nat, NEW j \in Nat, j >= 1
            PROVE  (i + 1) * j = i * j + j /\ i * j >= i /\ i * j \in Int
        <5>1. (i + 1) * j = i * j + j
          OBVIOUS
        <5>2. i * j >= i * 1
          BY <4>2
        <5> QED
          BY <5>1, <5>2
      <4> QED
        BY ONLY <4>1, <4>2
    <3>3. PICK p \in Int, q \in Int : p = k * half /\ q = x * half
      BY <1>5, <3>2
    <3>4. /\ k >= x + 1 => p >= q + half
          /\ q >= x /\ x + half = r + 2 * p /\ r >= 0 /\ half >= 1
      BY <1>1, <1>2, <1>4, <1>5, <3>1, <3>2, <3>3
    <3> QED
      BY <1>1, <1>4, <2>2, <3>3, <3>4
  <2> QED
    BY <2>1, <2>2
<1>8. ToInt(x) = r - half
  <2>1. IntMax \in Nat /\ x + IntMax + 1 = y /\ 2 * (IntMax + 1) = m
    BY <1>1, <1>2, <1>3, IntAssumption
  <2>2. ToInt(x) = (y % m) - (IntMax + 1)
    BY <2>1 DEF ToInt
  <2> QED
    BY <1>1, <1>4, <2>2
<1>9. x = ToInt(x) + k * (2 * (IntMax + 1))
  <2>1. 2 * (IntMax + 1) = m
    BY <1>1, <1>3
  <2>2. x = (r - half) + k * m
    <3>1. PICK p \in Int : p = k * m
      BY <1>5
    <3>2. x + half = r + p
      BY <1>2, <1>4, <3>1
    <3>3. x = (r - half) + p
      BY <1>1, <1>4, <3>2
    <3> QED
      BY <3>1, <3>3
  <2> QED
    BY <1>8, <2>1, <2>2
<1> QED
  BY <1>4, <1>6, <1>7, <1>9

\* A new entry has no timeouts, and none were asked for.
LEMMA ZeroTime == /\ Zero \in [Dirs -> -(IntMax + 1) .. IntMax] /\ Zero \in [Dirs -> Times \cup {0}]
                  /\ \A d \in Dirs : Zero[d] = 0 /\ ToInt(0) = 0
<1>1. ToInt(0) = 0
  BY IntExact, IntAssumption
<1> QED
  BY <1>1, IntAssumption DEF Zero

-----------------------------------------------------------------------------
(* Calls that overlap *)

\* Only the call of t goes on.
Only(t) ==
  /\ pc' \in [Callers -> PcType] /\ DOMAIN arg' = Callers
  /\ \A u \in Callers : u # t => pc'[u] = pc[u] /\ arg'[u] = arg[u]

\* A step of a call moves that call alone.
LEMMA GotoOnly ==
  ASSUME TypeOK, ArgOK, NEW t \in Callers, NEW l \in PcType, NEW a, Goto(t, l, a)
  PROVE  Only(t) /\ pc'[t] = l /\ arg'[t] = a
  BY DEF TypeOK, ArgOK, Goto, Only, PcType

\* What the others are at work on stays the same.
LEMMA OnlyOthers ==
  ASSUME NEW t, Only(t), NEW u \in Callers, u # t
  PROVE  /\ Writes(u)' = Writes(u) /\ Reads(u)' = Reads(u) /\ Works(u)' = Works(u)
         /\ Pending(u)' <=> Pending(u)
  BY DEF Only, Writes, Reads, Works, Pending

\* What a call that begins, and the ones under way, are told of each other.
LEMMA MixFacts ==
  ASSUME NEW t \in Callers, NEW w, NEW r, NEW fs, Mix(t, w, r, fs)
  PROVE  /\ mixed \subseteq mixed'
         /\ t \notin mixed' =>
              /\ r \cap raced = {}
              /\ \A u \in Callers : u # t => (w \cup r) \cap Writes(u) = {} /\ fs \cap Works(u) = {}
         /\ \A u \in Callers : u # t /\ u \notin mixed' =>
              w \cap (Writes(u) \cup Reads(u)) = {} /\ fs \cap Works(u) = {}
<1>1. mixed' = mixed \cup Crosses(t, w, fs) \cup (IF Crossed(t, w, r, fs) THEN {t} ELSE {})
  BY DEF Mix
<1>2. t \notin mixed' => ~Crossed(t, w, r, fs)
  BY <1>1
<1>3. \A u \in Callers : u # t /\ u \notin mixed' => u \notin Crosses(t, w, fs)
  BY <1>1
<1>4. mixed \subseteq mixed'
  BY <1>1
<1> QED
  BY <1>2, <1>3, <1>4 DEF Crossed, Crosses

\* A call that begins.
LEMMA BeginCross ==
  ASSUME CrossInv, NEW t \in Callers, NEW w, NEW r, NEW fs, Mix(t, w, r, fs), Only(t),
         raced' = raced, Writes(t)' = w, Reads(t)' \subseteq r, Works(t)' = fs
  PROVE  CrossInv'
<1> SUFFICES ASSUME NEW u \in Callers \ mixed'
             PROVE  CrossInv!(u)'
  BY DEF CrossInv
<1>1. CASE u = t
  <2>1. Reads(t)' \cap raced' = {}
    BY <1>1, MixFacts
  <2>2. ASSUME NEW v \in Callers \ {t}
        PROVE  (Writes(t)' \cup Reads(t)') \cap Writes(v)' = {} /\ Works(t)' \cap Works(v)' = {}
    BY <1>1, MixFacts, OnlyOthers
  <2> QED
    BY <1>1, <2>1, <2>2
<1>2. CASE u # t
  <2>1. u \notin mixed
    BY MixFacts
  <2>2. Reads(u)' \cap raced' = {}
    BY <1>2, <2>1, OnlyOthers DEF CrossInv
  <2>3. ASSUME NEW v \in Callers \ {u}
        PROVE  (Writes(u)' \cup Reads(u)') \cap Writes(v)' = {} /\ Works(u)' \cap Works(v)' = {}
    <3>1. CASE v = t
      BY <1>2, <3>1, MixFacts, OnlyOthers
    <3>2. CASE v # t
      BY <1>2, <2>1, <3>2, OnlyOthers DEF CrossInv
    <3> QED
      BY <3>1, <3>2
  <2> QED
    BY <2>2, <2>3
<1> QED
  BY <1>1, <1>2

\* A call that ends, and may leave the number n wrong if it was crossed.
LEMMA EndCross ==
  ASSUME CrossInv, NEW t \in Callers, Only(t), mixed' = mixed \ {t},
         Writes(t)' = {}, Reads(t)' = {}, Works(t)' = {},
         \A n \in raced' : n \in raced \/ n \in Writes(t)
  PROVE  CrossInv'
<1> SUFFICES ASSUME NEW u \in Callers \ mixed'
             PROVE  CrossInv!(u)'
  BY DEF CrossInv
<1>1. CASE u = t
  BY <1>1
<1>2. CASE u # t
  <2>1. u \notin mixed
    BY <1>2
  <2>2. Reads(u)' \cap raced' = {}
    BY <1>2, <2>1, OnlyOthers DEF CrossInv
  <2>3. ASSUME NEW v \in Callers \ {u}
        PROVE  (Writes(u)' \cup Reads(u)') \cap Writes(v)' = {} /\ Works(u)' \cap Works(v)' = {}
    <3>1. CASE v = t
      BY <3>1
    <3>2. CASE v # t
      BY <1>2, <2>1, <3>2, OnlyOthers DEF CrossInv
    <3> QED
      BY <3>1, <3>2
  <2> QED
    BY <2>2, <2>3
<1> QED
  BY <1>1, <1>2

\* Where a call that was not crossed reads or writes, the table is right.
LEMMA UncrossedEntry ==
  ASSUME CrossInv, TableInv, NEW t \in Callers \ mixed, NEW n \in Fds, n \in Reads(t),
         n \notin Writes(t)
  PROVE  /\ fds[n] \in {NULL, kfd[n]} /\ (kfd[n] # NULL /\ Described(kfd[n]) => fds[n] = kfd[n])
  BY DEF CrossInv, TableInv, Quiet

\* The same of a call that begins without being crossed.
LEMMA BeginEntry ==
  ASSUME TableInv, NEW t \in Callers, NEW n \in Fds, NEW w, NEW r, NEW fs, Mix(t, w, r, fs),
         Writes(t) = {}, n \in r, t \notin mixed'
  PROVE  /\ fds[n] \in {NULL, kfd[n]} /\ (kfd[n] # NULL /\ Described(kfd[n]) => fds[n] = kfd[n])
  BY MixFacts DEF TableInv, Quiet

-----------------------------------------------------------------------------
(* Calls that open a file *)

\* A system call has opened f under n, and t is yet to record it.
Opens(t, f, n) ==
  /\ f \in Files /\ n \in Fds /\ kfd[n] = NULL /\ kfile[f].kind = "none"
  /\ kfile'[f].kind # "none" /\ \A g \in Files : g # f => kfile'[g] = kfile[g]
  /\ kfd'[n] = f /\ \A m \in Fds : m # n => kfd'[m] = kfd[m]
  /\ kfile' \in [Files -> FileType] /\ kfd' \in [Fds -> Files \cup {NULL}]
  /\ \A g \in Files : g # f => (g \in flagged' <=> g \in flagged) /\ (g \in misread' <=> g \in misread)
  /\ UNCHANGED <<fds, desc, asked, unseen, raced, blurred>>
  /\ pc[t] \in {"idle", "accept"} /\ Only(t) /\ pc'[t] \in {"store", "accepted"}
  /\ arg'[t].fd = n /\ arg'[t].file = f /\ Mix(t, {n}, {}, {})

\* What t has in hand describes f as the kernel has it.
Fits(t, f) ==
  /\ pc'[t] = "store" =>
       /\ arg'[t] \in [fd : Fds, file : Files, new : DescType]
       /\ FdTypeIs(arg[t].new, arg[t].file)' /\ arg'[t].new.timeout = Zero
       /\ TypeIs(arg[t].new, arg[t].file)' /\ NonblockIs(arg[t].new.nonblock, arg[t].file)'
  /\ pc'[t] = "accepted" =>
       /\ arg'[t] \in [fd : Fds, file : Files, sockfd : Fds, listener : Files, nonblock : BOOLEAN]
       /\ Described(arg'[t].listener)
       /\ t \notin mixed' => kfile[arg'[t].listener].kind = "stream"
       /\ kfile'[f].kind = "stream"
       /\ (f \in flagged' <=> arg'[t].listener \in flagged)
       /\ NonblockIs(arg[t].nonblock, arg[t].file)'

\* Opening a file keeps the invariant.
LEMMA OpensStep ==
  ASSUME TypeOK, Inv, NEW t \in Callers, NEW f, NEW n, Opens(t, f, n), Fits(t, f)
  PROVE  TypeOK' /\ Inv'
<1>1. /\ f \in Files /\ n \in Fds /\ kfd[n] = NULL /\ kfile[f].kind = "none" /\ f # NULL
      /\ kfile'[f].kind # "none" /\ \A g \in Files : g # f => kfile'[g] = kfile[g]
      /\ kfd'[n] = f /\ \A m \in Fds : m # n => kfd'[m] = kfd[m]
      /\ \A g \in Files : g # f => (g \in flagged' <=> g \in flagged) /\ (g \in misread' <=> g \in misread)
      /\ UNCHANGED <<fds, desc, asked, unseen, raced, blurred>>
  BY FdAssumption DEF Opens
<1>2. /\ \A u \in Callers : u # t => pc'[u] = pc[u] /\ arg'[u] = arg[u]
      /\ pc[t] \in {"idle", "accept"} /\ pc'[t] \in {"store", "accepted"}
      /\ arg'[t].fd = n /\ arg'[t].file = f /\ Only(t) /\ Mix(t, {n}, {}, {})
  BY DEF Opens, Only
<1>3. /\ ArgOK /\ UsedInv /\ SeenInv /\ NewInv /\ CrossInv /\ HandInv /\ TableInv
      /\ RecordInv /\ SettingInv /\ AcceptInv /\ TimeInv
  BY DEF Inv
<1>4. /\ \A u \in Callers \ mixed' : u # t => u \notin mixed /\ n \notin Writes(u) /\ n \notin Reads(u)
      /\ \A u \in Callers : u \in mixed => u \in mixed'
  BY <1>2, MixFacts
<1>5. /\ Writes(t) = {} /\ Writes(t)' = {n} /\ Reads(t)' = {} /\ Works(t)' = {}
      /\ \A u \in Callers : u # t => Writes(u)' = Writes(u)
  BY <1>2, OnlyOthers DEF Writes, Reads, Works
<1>6. ASSUME NEW u \in Callers, Pending(u)', u # t
      PROVE  /\ Pending(u) /\ arg'[u].fd = arg[u].fd /\ arg'[u].file = arg[u].file
             /\ arg[u].fd # n /\ arg[u].file # f /\ arg[u].fd \in Fds /\ arg[u].file \in Files
  BY <1>1, <1>2, <1>3, <1>6, FdAssumption DEF Pending, NewInv, ArgOK, UsedInv
<1>7. /\ ~Described(f) /\ asked[f] = Zero /\ f \notin unseen /\ \A m \in Fds : kfd[m] # f
      /\ \A m \in Fds : kfd'[m] = f => m = n
  BY <1>1, <1>3 DEF UsedInv
<1>8. TypeOK'
  BY <1>1 DEF Opens, Only, TypeOK, FileType, PcType
<1>9. ArgOK'
  BY <1>1, <1>2, <1>3 DEF Fits, Only, ArgOK
<1>10. UsedInv'
  <2>1. \A m \in Fds : kfd'[m] # NULL => kfile'[kfd'[m]].kind # "none"
    BY <1>1, <1>3 DEF UsedInv, TypeOK
  <2>2. \A g \in Files : kfile'[g].kind = "none" => g # f /\ kfile[g].kind = "none"
    BY <1>1
  <2> QED
    BY <1>1, <1>3, <2>1, <2>2 DEF UsedInv, Described
<1>11. SeenInv'
  <2>1. SeenInv!1'
    BY <1>1, <1>3 DEF SeenInv, Described
  <2>2. SeenInv!2'
    <3> SUFFICES ASSUME NEW g \in Files, kfile'[g].kind # "none"
                 PROVE  SeenInv!2!(g)!2'
      OBVIOUS
    <3>1. CASE g = f
      BY <1>2, <3>1 DEF Pending
    <3>2. CASE g # f
      BY <1>1, <1>2, <1>3, <3>2 DEF SeenInv, Described, Pending
    <3> QED
      BY <3>1, <3>2
  <2>3. SeenInv!3'
    BY <1>1, <1>2, <1>3, <1>6, <1>7 DEF SeenInv, Described
  <2> QED
    BY <2>1, <2>2, <2>3 DEF SeenInv
<1>12. NewInv'
  <2> SUFFICES ASSUME NEW u \in Callers, Pending(u)'
               PROVE  NewInv!(u)!2'
    BY DEF NewInv
  <2>1. CASE u = t
    BY <1>1, <1>2, <1>6, <1>7, <2>1 DEF Described
  <2>2. CASE u # t
    <3>1. NewInv!(u)!2
      BY <1>3, <1>6, <2>2 DEF NewInv
    <3> QED
      BY <1>1, <1>2, <1>6, <2>2, <3>1 DEF Described
  <2> QED
    BY <2>1, <2>2
<1>13. CrossInv'
  BY <1>1, <1>2, <1>3, <1>5, BeginCross
<1>14. HandInv'
  <2> SUFFICES ASSUME NEW u \in Callers \ mixed'
               PROVE  HandInv!(u)'
    BY DEF HandInv
  <2>1. CASE u = t
    BY <1>2, <2>1
  <2>2. CASE u # t
    <3>1. /\ u \notin mixed /\ HandInv!(u) /\ pc'[u] = pc[u] /\ arg'[u] = arg[u]
      BY <1>2, <1>3, <1>4, <2>2 DEF HandInv
    <3>2. /\ pc[u] \in {"clear", "copy", "setfl", "settimeout"} => arg[u].fd \in Fds /\ arg[u].fd # n
          /\ pc[u] = "copy" => arg[u].from \in Fds /\ arg[u].from # n
      BY <1>3, <1>4, <2>2 DEF ArgOK, Writes, Reads
    <3> QED
      BY <1>1, <3>1, <3>2 DEF Described
  <2> QED
    BY <2>1, <2>2
<1>15. TableInv'
  <2> SUFFICES ASSUME NEW m \in Fds, m \notin raced, Quiet(m)'
               PROVE  TableInv!(m)!2'
    BY <1>1 DEF TableInv
  <2>1. m # n /\ Quiet(m)
    BY <1>5 DEF Quiet
  <2> QED
    BY <1>1, <1>3, <2>1 DEF TableInv, Described
<1>16. RecordInv'
  <2>1. RecordInv!1'
    <3> SUFFICES ASSUME NEW g \in Files, Described(g)'
                 PROVE  RecordInv!1!(g)!2'
      OBVIOUS
    <3>1. Described(g) /\ g # f /\ RecordInv!1!(g)!2
      BY <1>1, <1>3, <1>7 DEF Described, RecordInv
    <3>2. /\ kfile'[g] = kfile[g] /\ (g \in flagged' <=> g \in flagged)
          /\ (g \in misread' <=> g \in misread) /\ desc' = desc /\ blurred' = blurred
      BY <1>1, <3>1
    <3>3. (\E u \in Callers : pc[u] = "setfl" /\ arg[u].file = g)
           => \E u \in Callers : pc'[u] = "setfl" /\ arg'[u].file = g
      BY <1>2
    <3> QED
      BY <1>1, <3>1, <3>2, <3>3 DEF FdTypeIs, TypeIs, NonblockIs
  <2>2. RecordInv!2'
    <3> SUFFICES ASSUME NEW u \in Callers, pc'[u] = "store"
                 PROVE  RecordInv!2!(u)!2'
      OBVIOUS
    <3>1. CASE u = t
      BY <1>2, <3>1 DEF Fits, FdTypeIs, TypeIs, NonblockIs
    <3>2. CASE u # t
      BY <1>1, <1>2, <1>3, <1>6, <3>2 DEF Pending, RecordInv, FdTypeIs, TypeIs, NonblockIs
    <3> QED
      BY <3>1, <3>2
  <2> QED
    BY <2>1, <2>2 DEF RecordInv
<1>17. SettingInv'
  BY <1>1, <1>2, <1>3, <1>4 DEF SettingInv, Described
<1>18. AcceptInv'
  <2> SUFFICES ASSUME NEW u \in Callers
               PROVE  AcceptInv!(u)'
    BY DEF AcceptInv
  <2>1. CASE u = t
    <3>1. pc'[t] = "accepted" => arg'[t].listener \in Files /\ arg'[t].listener # f
      BY <1>7 DEF Fits
    <3> QED
      BY <1>1, <1>2, <2>1, <3>1 DEF Fits, Described, NonblockIs
  <2>2. CASE u # t
    <3>1. AcceptInv!(u) /\ pc'[u] = pc[u] /\ arg'[u] = arg[u]
      BY <1>2, <1>3, <2>2 DEF AcceptInv
    <3>2. pc[u] \in {"accept", "accepted"} => arg[u].listener \in Files /\ arg[u].listener # f
      BY <1>3, <1>7, <3>1 DEF ArgOK
    <3>3. pc[u] = "accepted" => arg[u].file \in Files /\ arg[u].file # f
      BY <1>2, <1>6, <2>2 DEF Pending
    <3> QED
      BY <1>1, <1>4, <3>1, <3>2, <3>3 DEF Described, NonblockIs
  <2> QED
    BY <2>1, <2>2
<1>19. TimeInv'
  BY <1>1, <1>2, <1>3 DEF TimeInv, Described
<1> QED
  BY <1>8, <1>9, <1>10, <1>11, <1>12, <1>13, <1>14, <1>15, <1>16, <1>17, <1>18, <1>19 DEF Inv

\* open, up to the return of the system call.
LEMMA OpenStep ==
  ASSUME TypeOK, Inv, NEW t \in Callers, NEW b \in BOOLEAN, OpenCall(t, b)
  PROVE  TypeOK' /\ Inv'
<1>1. PICK f \in Files :
           /\ Make(f, "file", b)
           /\ Goto(t, "store", [fd |-> Lowest, file |-> f, new |-> FdDesc("tOther", "none", b)])
  BY DEF OpenCall
<1>2. PICK n : n = Lowest
  OBVIOUS
<1>3. /\ n \in Fds /\ kfd[n] = NULL /\ kfile[f].kind = "none" /\ f \notin misread
  BY <1>1, <1>2, LowestFree DEF Make, Unused, NoFile, Inv, UsedInv
<1>4. /\ kfile' = [kfile EXCEPT ![f] = [kind |-> "file", nonblock |-> b]]
      /\ kfd' = [kfd EXCEPT ![n] = f] /\ Mix(t, {n}, {}, {})
      /\ UNCHANGED <<fds, desc, asked, unseen, flagged, misread, raced, blurred>>
  BY <1>1, <1>2 DEF Make, OpenCall, table, faults
<1>5. /\ Only(t) /\ pc'[t] = "store" /\ pc[t] = "idle"
      /\ arg'[t] = [fd |-> n, file |-> f, new |-> FdDesc("tOther", "none", b)]
  BY <1>1, <1>2, GotoOnly DEF OpenCall, Call, Inv, PcType
<1>6. kfile'[f].kind = "file" /\ kfile'[f].nonblock = b
  BY <1>4 DEF TypeOK
<1>7. Opens(t, f, n)
  BY <1>3, <1>4, <1>5 DEF Opens, TypeOK, FileType
<1>8. /\ arg'[t].fd = n /\ arg'[t].file = f /\ arg'[t].new.fdType = "tOther"
      /\ arg'[t].new.nonblock = b /\ arg'[t].new.timeout = Zero /\ arg'[t].new \in DescType
  BY <1>5, ZeroTime DEF FdDesc, DescType
<1>9. arg'[t] \in [fd : Fds, file : Files, new : DescType]
  BY <1>3, <1>5, <1>8
<1>10. NonblockIs(arg[t].new.nonblock, arg[t].file)'
  BY <1>3, <1>4, <1>6, <1>8, Zenon DEF NonblockIs
<1>11. Fits(t, f)
  BY <1>5, <1>6, <1>8, <1>9, <1>10 DEF Fits, FdTypeIs, TypeIs
<1> QED
  BY <1>7, <1>11, OpensStep

\* socket, up to the return of the system call.
LEMMA SocketStep ==
  ASSUME TypeOK, Inv, NEW t \in Callers, NEW k \in {"stream", "dgram"}, NEW b \in BOOLEAN,
         NEW c \in BOOLEAN, SocketCall(t, k, b, c)
  PROVE  TypeOK' /\ Inv'
<1>1. PICK f, d :
           /\ f \in Files
           /\ Make(f, k, b) /\ Goto(t, "store", [fd |-> Lowest, file |-> f, new |-> d])
           /\ d = FdDesc("tSocket", IF b \/ c THEN "flagged" ELSE k, FALSE)
           /\ flagged' = (IF b \/ c THEN flagged \cup {f} ELSE flagged)
           /\ misread' = (IF b THEN misread \cup {f} ELSE misread)
  BY DEF SocketCall
<1>2. PICK n : n = Lowest
  OBVIOUS
<1>3. /\ n \in Fds /\ f \in Files /\ kfd[n] = NULL /\ kfile[f].kind = "none" /\ f \notin misread /\ f \notin flagged
  BY <1>1, <1>2, LowestFree DEF Make, Unused, NoFile, Inv, UsedInv
<1>4. /\ kfile' = [kfile EXCEPT ![f] = [kind |-> k, nonblock |-> b]]
      /\ kfd' = [kfd EXCEPT ![n] = f] /\ Mix(t, {n}, {}, {})
      /\ UNCHANGED <<fds, desc, asked, unseen, raced, blurred>>
  BY <1>1, <1>2 DEF Make, SocketCall, table
<1>5. /\ Only(t) /\ pc'[t] = "store" /\ pc[t] = "idle"
      /\ arg'[t] = [fd |-> n, file |-> f, new |-> d]
  BY <1>1, <1>2, GotoOnly DEF SocketCall, Call, Inv, PcType
<1>6. kfile'[f].kind = k /\ kfile'[f].nonblock = b
  BY <1>1, <1>4 DEF TypeOK
<1>7. \A g \in Files : g # f => (g \in flagged' <=> g \in flagged) /\ (g \in misread' <=> g \in misread)
  BY <1>1
<1>8. Opens(t, f, n)
  BY <1>1, <1>3, <1>4, <1>5, <1>7 DEF Opens, TypeOK, FileType
<1>9. /\ d.fdType = "tSocket" /\ d.type = (IF b \/ c THEN "flagged" ELSE k)
      /\ d.nonblock = FALSE /\ d.timeout = Zero /\ d \in DescType
  BY <1>1, ZeroTime DEF FdDesc, DescType
<1>10. arg'[t].fd = n /\ arg'[t].file = f /\ arg'[t].new = d
  BY <1>5
<1>11. arg'[t] \in [fd : Fds, file : Files, new : DescType]
  BY <1>3, <1>5, <1>9
<1>12. (f \in flagged' <=> b \/ c) /\ (f \in misread' <=> b)
  BY <1>1, <1>3
<1>13. NonblockIs(arg[t].new.nonblock, arg[t].file)'
  <2>1. NonblockIs(arg[t].new.nonblock, arg[t].file)' <=> ((FALSE = b) <=> f \notin misread')
    BY <1>6, <1>9, <1>10, Zenon DEF NonblockIs
  <2> QED
    BY <1>12, <2>1
<1>14. TypeIs(arg[t].new, arg[t].file)'
  BY <1>6, <1>9, <1>10, <1>12 DEF TypeIs
<1>15. FdTypeIs(arg[t].new, arg[t].file)'
  BY <1>6, <1>9, <1>10 DEF FdTypeIs
<1>16. Fits(t, f)
  BY <1>5, <1>9, <1>10, <1>11, <1>13, <1>14, <1>15 DEF Fits
<1> QED
  BY <1>8, <1>16, OpensStep

\* accept4 is given a descriptor.
LEMMA AcceptDoneStep ==
  ASSUME TypeOK, Inv, NEW t \in Callers, AcceptDone(t)
  PROVE  TypeOK' /\ Inv'
<1>1. PICK f, a :
           /\ f \in Files
           /\ Make(f, "stream", arg[t].nonblock) /\ Goto(t, "accepted", a)
           /\ a = [fd |-> Lowest, file |-> f, sockfd |-> arg[t].sockfd,
                   listener |-> arg[t].listener, nonblock |-> arg[t].nonblock]
           /\ flagged' = (IF arg[t].listener \in flagged THEN flagged \cup {f} ELSE flagged)
  BY DEF AcceptDone
<1>2. PICK n : n = Lowest
  OBVIOUS
<1>3. /\ n \in Fds /\ f \in Files /\ kfd[n] = NULL /\ kfile[f].kind = "none" /\ f \notin misread /\ f \notin flagged
      /\ pc[t] = "accept"
  BY <1>1, <1>2, LowestFree DEF Make, Unused, NoFile, Inv, UsedInv, AcceptDone
<1>4. /\ kfile' = [kfile EXCEPT ![f] = [kind |-> "stream", nonblock |-> arg[t].nonblock]]
      /\ kfd' = [kfd EXCEPT ![n] = f] /\ Mix(t, {n}, {}, {})
      /\ UNCHANGED <<fds, desc, asked, unseen, misread, raced, blurred>>
  BY <1>1, <1>2 DEF Make, AcceptDone, table
<1>5. Only(t) /\ pc'[t] = "accepted" /\ arg'[t] = a
  BY <1>1, GotoOnly DEF Inv, PcType
<1>6. arg[t] \in [sockfd : Fds, listener : Files, nonblock : BOOLEAN]
  BY <1>3 DEF Inv, ArgOK
<1>7. kfile'[f].kind = "stream" /\ kfile'[f].nonblock = arg[t].nonblock
  BY <1>1, <1>4 DEF TypeOK
<1>8. \A g \in Files : g # f => (g \in flagged' <=> g \in flagged)
  BY <1>1
<1>9. /\ arg'[t].fd = n /\ arg'[t].file = f /\ arg'[t].listener = arg[t].listener
      /\ arg'[t].nonblock = arg[t].nonblock
  BY <1>1, <1>2, <1>5
<1>10. Opens(t, f, n)
  <2>1. kfile' \in [Files -> FileType] /\ kfd' \in [Fds -> Files \cup {NULL}]
    BY <1>1, <1>4, <1>6 DEF TypeOK, FileType
  <2>2. /\ \A g \in Files : g # f => kfile'[g] = kfile[g]
        /\ \A m \in Fds : m # n => kfd'[m] = kfd[m]
        /\ kfd'[n] = f
    BY <1>3, <1>4 DEF TypeOK
  <2> QED
    BY <1>3, <1>4, <1>5, <1>7, <1>8, <1>9, <2>1, <2>2 DEF Opens
<1>11. arg'[t] \in [fd : Fds, file : Files, sockfd : Fds, listener : Files, nonblock : BOOLEAN]
  BY <1>1, <1>2, <1>3, <1>5, <1>6
<1>12. NonblockIs(arg[t].nonblock, arg[t].file)'
  BY <1>3, <1>4, <1>7, <1>9, Zenon DEF NonblockIs
<1>13. f \in flagged' <=> arg[t].listener \in flagged
  BY <1>1, <1>3
<1>14. /\ Described(arg[t].listener)
       /\ t \notin mixed => kfile[arg[t].listener].kind = "stream"
  BY <1>3 DEF Inv, AcceptInv
<1>15. t \notin mixed' => t \notin mixed
  BY <1>4, MixFacts
<1>16. Fits(t, f)
  BY <1>5, <1>7, <1>9, <1>11, <1>12, <1>13, <1>14, <1>15 DEF Fits
<1> QED
  BY <1>10, <1>16, OpensStep

\* A descriptor that a call may be made on is open and no new one.
LEMMA HeldOpen ==
  ASSUME TypeOK, NEW n \in Held
  PROVE  /\ n \in Fds /\ kfd[n] \in Files /\ kfd[n] # NULL
         /\ \A u \in Callers : Pending(u) => arg[u].fd # n
  BY DEF Held, Pending, TypeOK

\* accept4 outside a coroutine: the file is never recorded.
LEMMA AcceptPlainStep ==
  ASSUME TypeOK, ArgOK, UsedInv, SeenInv, NewInv, CrossInv, HandInv, TableInv, RecordInv,
         SettingInv, AcceptInv, TimeInv, NEW t \in Callers, NEW b \in BOOLEAN, AcceptPlain(t, b)
  PROVE  TypeOK' /\ Inv'
<1>1. PICK f \in Files : Make(f, "stream", b) /\ unseen' = unseen \cup {f}
  BY DEF AcceptPlain
<1>2. PICK n : n = Lowest
  OBVIOUS
<1>3. /\ n \in Fds /\ kfd[n] = NULL /\ kfile[f].kind = "none" /\ f # NULL
  BY <1>1, <1>2, LowestFree, FdAssumption DEF Make, Unused, NoFile
<1>4. /\ kfile'[f] = [kind |-> "stream", nonblock |-> b] /\ kfile'[f].kind = "stream"
      /\ \A g \in Files : g # f => kfile'[g] = kfile[g]
      /\ kfd'[n] = f /\ \A m \in Fds : m # n => kfd'[m] = kfd[m]
      /\ kfile' \in [Files -> FileType] /\ kfd' \in [Fds -> Files \cup {NULL}]
  BY <1>1, <1>2, <1>3 DEF Make, TypeOK, FileType
<1>5. UNCHANGED <<fds, desc, asked, pc, arg, flagged, misread, mixed, raced, blurred>>
  BY <1>1 DEF AcceptPlain, Make, table, races
<1>6. /\ ~Described(f) /\ asked[f] = Zero /\ \A m \in Fds : kfd[m] # f
      /\ \A u \in Callers : Pending(u) => /\ arg[u].fd # n /\ arg[u].file # f
                                         /\ arg[u].fd \in Fds /\ arg[u].file \in Files
  BY <1>3, FdAssumption DEF UsedInv, NewInv, Pending, ArgOK
<1>7. TypeOK'
  BY <1>4, <1>5 DEF TypeOK, FileType
<1>8. ArgOK'
  BY <1>5 DEF ArgOK
<1>9. UsedInv'
  <2>1. ASSUME NEW m \in Fds, kfd'[m] # NULL PROVE kfile'[kfd'[m]].kind # "none"
    <3>1. CASE m = n
      BY <1>4, <3>1
    <3>2. CASE m # n
      <4>1. PICK g \in Files : g = kfd[m] /\ g # f /\ kfd'[m] = g
        BY <1>4, <1>6, <2>1, <3>2 DEF TypeOK
      <4>2. kfile[g].kind # "none"
        BY <2>1, <4>1 DEF UsedInv
      <4> QED
        BY <1>4, <4>1, <4>2
    <3> QED
      BY <3>1, <3>2
  <2>2. \A g \in Files : kfile'[g].kind = "none" => g # f /\ kfile[g].kind = "none"
    BY <1>4
  <2> QED
    BY <1>1, <1>5, <2>1, <2>2 DEF UsedInv, Described
<1>10. SeenInv'
  <2>1. \A g \in Files : kfile'[g].kind # "none" => g = f \/ kfile[g].kind # "none"
    BY <1>4
  <2> QED
    BY <1>1, <1>5, <1>6, <2>1 DEF SeenInv, Described, Pending
<1>11. NewInv'
  BY <1>4, <1>5, <1>6 DEF NewInv, Pending, Described
<1>12. CrossInv'
  BY <1>5 DEF CrossInv, Writes, Reads, Works
<1>13. HandInv'
  <2> SUFFICES ASSUME NEW u \in Callers \ mixed
               PROVE  HandInv!(u)'
    BY <1>5 DEF HandInv
  <2>1. HandInv!(u)
    BY DEF HandInv
  <2>2. /\ pc[u] \in {"clear", "copy", "setfl", "settimeout"} => arg[u].fd \in Fds
        /\ pc[u] = "copy" => arg[u].from \in Fds
        /\ pc[u] \in {"setfl", "settimeout"} => arg[u].file # NULL
    BY FdAssumption DEF ArgOK
  <2> QED
    BY <1>3, <1>4, <1>5, <1>6, <2>1, <2>2 DEF Described
<1>14. TableInv'
  <2> SUFFICES ASSUME NEW m \in Fds, m \notin raced, Quiet(m)'
               PROVE  TableInv!(m)!2'
    BY <1>5 DEF TableInv
  <2>1. TableInv!(m)!2
    BY <1>5 DEF TableInv, Quiet, Writes
  <2> QED
    BY <1>3, <1>4, <1>5, <1>6, <2>1 DEF Described
<1>15. RecordInv'
  <2>1. \A g \in Files : Described(g) => g # f /\ kfile'[g] = kfile[g]
    BY <1>4, <1>6
  <2>2. \A u \in Callers : pc[u] = "store" => arg[u].file \in Files /\ kfile'[arg[u].file] = kfile[arg[u].file]
    BY <1>4, <1>6 DEF Pending
  <2> QED
    BY <1>5, <2>1, <2>2 DEF RecordInv, Described, FdTypeIs, TypeIs, NonblockIs
<1>16. SettingInv'
  BY <1>5 DEF SettingInv, Described
<1>17. AcceptInv'
  <2>1. \A g \in Files : Described(g) => g # f /\ kfile'[g] = kfile[g]
    BY <1>4, <1>6
  <2>2. \A u \in Callers : pc[u] = "accepted" => arg[u].file \in Files /\ kfile'[arg[u].file] = kfile[arg[u].file]
    BY <1>4, <1>6 DEF Pending
  <2>3. \A u \in Callers : pc[u] \in {"accept", "accepted"} => arg[u].listener \in Files
    BY DEF ArgOK
  <2> QED
    BY <1>5, <2>1, <2>2, <2>3 DEF AcceptInv, Described, NonblockIs
<1>18. TimeInv'
  BY <1>5 DEF TimeInv, Described
<1> QED
  BY <1>7, <1>8, <1>9, <1>10, <1>11, <1>12, <1>13, <1>14, <1>15, <1>16, <1>17, <1>18 DEF Inv

\* accept4 in a coroutine suspends.
LEMMA AcceptCallStep ==
  ASSUME TypeOK, ArgOK, UsedInv, SeenInv, NewInv, CrossInv, HandInv, TableInv, RecordInv,
         SettingInv, AcceptInv, TimeInv,
         NEW t \in Callers, NEW n \in Fds, NEW b \in BOOLEAN, AcceptCall(t, n, b)
  PROVE  TypeOK' /\ Inv'
<1>1. UNCHANGED <<kfd, kfile, fds, desc, unseen, flagged, misread, asked, raced, blurred>>
  BY DEF AcceptCall, kernel, table, faults
<1>2. /\ Only(t) /\ pc'[t] = "accept" /\ pc[t] = "idle" /\ Mix(t, {}, {n}, {})
      /\ arg'[t] = [sockfd |-> n, listener |-> fds[n], nonblock |-> b]
  BY GotoOnly DEF AcceptCall, Call, PcType
<1>3. /\ \A u \in Callers : u # t => pc'[u] = pc[u] /\ arg'[u] = arg[u]
      /\ \A u \in Callers : u \notin mixed' => u \notin mixed
  BY <1>2, MixFacts DEF Only
<1>4. /\ fds[n] \in Files /\ fds[n] # NULL /\ Described(fds[n]) /\ kfd[n] # NULL
      /\ kfile[kfd[n]].kind = "stream"
  BY HeldOpen, FdAssumption DEF AcceptCall, TypeOK, Described
<1>5. t \notin mixed' => fds[n] = kfd[n]
  BY <1>2, <1>4, BeginEntry DEF Writes
<1>6. arg'[t] \in [sockfd : Fds, listener : Files, nonblock : BOOLEAN]
  BY <1>2, <1>4
<1>7. \A u \in Callers : Pending(u)' => u # t /\ Pending(u) /\ arg'[u] = arg[u]
  BY <1>2, <1>3 DEF Pending
<1>8. \A u \in Callers : Pending(u) => Pending(u)' /\ arg'[u] = arg[u]
  BY <1>2, <1>3 DEF Pending
<1>9. Writes(t) = {} /\ Writes(t)' = {} /\ Reads(t)' = {} /\ Works(t)' = {}
  BY <1>2 DEF Writes, Reads, Works
<1>10. TypeOK'
  BY <1>1, <1>2 DEF TypeOK, Only, PcType
<1>11. ArgOK'
  BY <1>1, <1>2, <1>3, <1>6 DEF ArgOK, Only
<1>12. UsedInv'
  BY <1>1 DEF UsedInv, Described
<1>13. SeenInv'
  BY <1>1, <1>7, <1>8 DEF SeenInv, Described
<1>14. NewInv'
  BY <1>1, <1>7, <1>8 DEF NewInv, Described
<1>15. CrossInv'
  BY <1>1, <1>2, <1>9, BeginCross
<1>16. HandInv'
  BY <1>1, <1>2, <1>3 DEF HandInv, Described
<1>17. TableInv'
  <2>1. \A m \in Fds : Quiet(m)' => Quiet(m)
    BY <1>2, <1>9, OnlyOthers DEF Quiet
  <2> QED
    BY <1>1, <2>1 DEF TableInv, Described
<1>18. RecordInv'
  BY <1>1, <1>2, <1>3 DEF RecordInv, Described, FdTypeIs, TypeIs, NonblockIs
<1>19. SettingInv'
  BY <1>1, <1>2, <1>3 DEF SettingInv, Described
<1>20. AcceptInv'
  <2> SUFFICES ASSUME NEW u \in Callers
               PROVE  AcceptInv!(u)'
    BY DEF AcceptInv
  <2>1. CASE u = t
    BY <1>1, <1>2, <1>4, <1>5, <2>1 DEF Described
  <2>2. CASE u # t
    BY <1>1, <1>3, <2>2 DEF AcceptInv, Described, NonblockIs
  <2> QED
    BY <2>1, <2>2
<1>21. TimeInv'
  BY <1>1, <1>2, <1>3 DEF TimeInv, Described
<1> QED
  BY <1>10, <1>11, <1>12, <1>13, <1>14, <1>15, <1>16, <1>17, <1>18, <1>19, <1>20, <1>21 DEF Inv

\* fds[fd]=make_shared<FdDesc>(...): the entry is written.
LEMMA StoreStep ==
  ASSUME TypeOK, ArgOK, UsedInv, SeenInv, NewInv, CrossInv, HandInv, TableInv, RecordInv,
         SettingInv, AcceptInv, TimeInv,
         NEW t \in Callers, NEW d, NEW n, NEW f, Pending(t), n = arg[t].fd, f = arg[t].file,
         d \in DescType, d.timeout = Zero, FdTypeIs(d, f), \A g \in blurred : g \in blurred',
         f \notin blurred' => TypeIs(d, f) /\ NonblockIs(d.nonblock, f),
         Store(t, f, d)
  PROVE  TypeOK' /\ Inv'
<1>1. /\ n \in Fds /\ f \in Files /\ f # NULL /\ pc[t] \in {"store", "accepted"}
      /\ kfd[n] = f /\ \A m \in Fds : kfd[m] = f => m = n
      /\ ~Described(f) /\ asked[f] = Zero /\ f \notin unseen /\ kfile[f].kind # "none"
      /\ \A u \in Callers : u # t /\ Pending(u) => arg[u].fd # n /\ arg[u].fd \in Fds
                                                  /\ arg[u].file # f /\ arg[u].file \in Files
      /\ \A m \in Fds : fds[m] # f
  BY FdAssumption DEF Pending, ArgOK, NewInv, SeenInv, UsedInv
<1>2. /\ desc' = [desc EXCEPT ![f] = d] /\ fds' = [fds EXCEPT ![n] = f] /\ Unmix(t, n)
      /\ UNCHANGED <<kfd, kfile, unseen, flagged, misread, asked>>
  BY DEF Store, kernel, faults
<1>3. /\ desc'[f] = d /\ \A g \in Files : g # f => desc'[g] = desc[g]
      /\ fds'[n] = f /\ \A m \in Fds : m # n => fds'[m] = fds[m]
      /\ desc' \in [Files -> DescType] /\ fds' \in [Fds -> Files \cup {NULL}]
  BY <1>1, <1>2 DEF TypeOK, DescType
<1>4. d.fdType # "none"
  BY DEF FdTypeIs
<1>5. Only(t) /\ pc'[t] = "idle"
  BY GotoOnly DEF Store, PcType
<1>6. \A u \in Callers : u # t => pc'[u] = pc[u] /\ arg'[u] = arg[u]
  BY <1>5 DEF Only
<1>7. /\ mixed' = mixed \ {t}
      /\ \A m \in Fds : m # n => (m \in raced' <=> m \in raced)
      /\ \A m \in raced' : m \in raced \/ m = n
  BY <1>2 DEF Unmix
<1>8. /\ Writes(t) = {n} /\ Writes(t)' = {} /\ Reads(t)' = {} /\ Works(t)' = {}
  BY <1>1, <1>5 DEF Writes, Reads, Works
<1>9. \A u \in Callers \ mixed' : u # t => u \notin mixed /\ n \notin Writes(u) /\ n \notin Reads(u)
  BY <1>7, <1>8 DEF CrossInv
<1>10. \A u \in Callers : Pending(u)' => u # t /\ Pending(u) /\ arg'[u] = arg[u]
  BY <1>5, <1>6 DEF Pending
<1>11. \A u \in Callers : u # t /\ Pending(u) => Pending(u)' /\ arg'[u] = arg[u]
  BY <1>6 DEF Pending
<1>12. /\ Described(f)'
       /\ \A g \in Files : g # f => (Described(g)' <=> Described(g))
  BY <1>3, <1>4 DEF Described
<1>13. TypeOK'
  BY <1>2, <1>3, <1>5 DEF TypeOK, DescType, PcType, Only
<1>14. ArgOK'
  BY <1>2, <1>5, <1>6 DEF ArgOK, Only
<1>15. UsedInv'
  <2>1. \A g \in Files : kfile[g].kind = "none" => ~Described(g)'
    BY <1>1, <1>12 DEF UsedInv
  <2>2. kfd' = kfd /\ kfile' = kfile /\ asked' = asked
    BY <1>2
  <2>3. unseen' = unseen /\ flagged' = flagged /\ misread' = misread
    BY <1>2
  <2>4. UsedInv!1'
    BY <2>2 DEF UsedInv
  <2>5. UsedInv!2'
    BY <2>1, <2>2, <2>3 DEF UsedInv
  <2> QED
    BY <2>4, <2>5 DEF UsedInv
<1>16. SeenInv'
  <2>1. ASSUME NEW m \in Fds, fds'[m] # NULL PROVE desc'[fds'[m]].fdType # "none"
    <3>1. CASE m = n
      BY <1>3, <1>4, <3>1
    <3>2. CASE m # n
      <4>1. PICK g \in Files : g = fds[m] /\ g # f /\ fds'[m] = g
        BY <1>1, <1>3, <2>1, <3>2 DEF TypeOK
      <4>2. Described(g)
        BY <2>1, <4>1 DEF SeenInv
      <4> QED
        BY <1>3, <4>1, <4>2 DEF Described
    <3> QED
      BY <3>1, <3>2
  <2>2. SeenInv!2'
    BY <1>1, <1>2, <1>11, <1>12 DEF SeenInv
  <2>3. SeenInv!3'
    <3>1. \A g \in Files : g \in unseen => g # f /\ ~Described(g)
      BY <1>1 DEF SeenInv
    <3>2. \A g \in Files : g \in unseen => desc'[g] = desc[g]
      BY <1>3, <3>1
    <3> QED
      BY <1>2, <1>10, <3>1, <3>2 DEF SeenInv, Described
  <2> QED
    BY <2>1, <2>2, <2>3 DEF SeenInv, Described
<1>17. NewInv'
  <2> SUFFICES ASSUME NEW u \in Callers, Pending(u)'
               PROVE  NewInv!(u)!2'
    BY DEF NewInv
  <2>1. u # t /\ Pending(u) /\ arg'[u] = arg[u] /\ arg[u].file # f /\ arg[u].file \in Files
    BY <1>1, <1>10
  <2>2. NewInv!(u)!2
    BY <2>1 DEF NewInv
  <2>3. ~Described(arg[u].file)'
    BY <1>3, <2>1, <2>2 DEF Described
  <2> QED
    BY <1>2, <1>10, <2>1, <2>2, <2>3
<1>18. CrossInv'
  BY <1>5, <1>7, <1>8, EndCross
<1>19. HandInv'
  <2> SUFFICES ASSUME NEW u \in Callers \ mixed'
               PROVE  HandInv!(u)'
    BY DEF HandInv
  <2>1. CASE u = t
    BY <1>5, <2>1
  <2>2. CASE u # t
    <3>1. HandInv!(u) /\ pc'[u] = pc[u] /\ arg'[u] = arg[u]
      BY <1>6, <1>9, <2>2 DEF HandInv
    <3>2. pc[u] = "clear" => arg[u].fd \in Fds /\ arg[u].fd # n
      BY <1>9, <2>2 DEF ArgOK, Writes
    <3>3. ASSUME pc[u] = "clear", kfd[arg[u].fd] # NULL
          PROVE  ~Described(kfd[arg[u].fd])'
      <4>1. PICK g \in Files : g = kfd[arg[u].fd] /\ g # f /\ kfd'[arg'[u].fd] = g
        BY <1>1, <1>2, <3>1, <3>2, <3>3 DEF TypeOK
      <4> QED
        BY <1>2, <1>3, <3>1, <3>3, <4>1 DEF Described
    <3> QED
      BY <1>2, <3>1, <3>3
  <2> QED
    BY <2>1, <2>2
<1>20. TableInv'
  <2> SUFFICES ASSUME NEW m \in Fds, m \notin raced', Quiet(m)'
               PROVE  TableInv!(m)!2'
    BY DEF TableInv
  <2>1. CASE m = n
    BY <1>1, <1>2, <1>3, <2>1
  <2>2. CASE m # n
    <3>1. m \notin raced /\ Quiet(m)
      BY <1>5, <1>7, <1>8, <2>2, OnlyOthers DEF Quiet
    <3>2. TableInv!(m)!2
      BY <3>1 DEF TableInv
    <3>3. kfd[m] # NULL => kfd[m] \in Files /\ kfd[m] # f
      BY <1>1, <2>2 DEF TypeOK
    <3> QED
      BY <1>2, <1>3, <2>2, <3>2, <3>3 DEF Described
  <2> QED
    BY <2>1, <2>2
<1>21. RecordInv'
  <2>1. RecordInv!1'
    <3> SUFFICES ASSUME NEW g \in Files, Described(g)'
                 PROVE  RecordInv!1!(g)!2'
      OBVIOUS
    <3>1. CASE g = f
      BY <1>2, <1>3, <3>1 DEF FdTypeIs, TypeIs, NonblockIs
    <3>2. CASE g # f
      <4>1. RecordInv!1!(g)!2 /\ desc'[g] = desc[g] /\ (g \notin blurred' => g \notin blurred)
        BY <1>3, <1>12, <3>2 DEF RecordInv
      <4>2. (\E u \in Callers : pc[u] = "setfl" /\ arg[u].file = g)
             => \E u \in Callers : pc'[u] = "setfl" /\ arg'[u].file = g
        BY <1>1, <1>6
      <4> QED
        BY <1>2, <4>1, <4>2 DEF FdTypeIs, TypeIs, NonblockIs
    <3> QED
      BY <3>1, <3>2
  <2>2. RecordInv!2'
    BY <1>2, <1>5, <1>6 DEF RecordInv, FdTypeIs, TypeIs, NonblockIs
  <2> QED
    BY <2>1, <2>2 DEF RecordInv
<1>22. SettingInv'
  <2> SUFFICES ASSUME NEW u \in Callers \ mixed'
               PROVE  SettingInv!(u)'
    BY DEF SettingInv
  <2>1. CASE u = t
    BY <1>5, <2>1
  <2>2. CASE u # t
    <3>1. SettingInv!(u) /\ pc'[u] = pc[u] /\ arg'[u] = arg[u] /\ u \notin mixed
      BY <1>6, <1>9, <2>2 DEF SettingInv
    <3>2. pc[u] = "setfl" => arg[u].file \in Files /\ arg[u].file # f
      <4>1. pc[u] = "setfl" => /\ arg[u].fd \in Fds /\ arg[u].file \in Files
                               /\ arg[u].fd # n /\ kfd[arg[u].fd] = arg[u].file
        BY <1>9, <2>2, <3>1 DEF ArgOK, Reads, HandInv
      <4> QED
        BY <1>1, <4>1
    <3> QED
      BY <1>2, <1>3, <3>1, <3>2 DEF Described
  <2> QED
    BY <2>1, <2>2
<1>23. AcceptInv'
  <2> SUFFICES ASSUME NEW u \in Callers
               PROVE  AcceptInv!(u)'
    BY DEF AcceptInv
  <2>1. CASE u = t
    BY <1>5, <2>1
  <2>2. CASE u # t
    <3>1. AcceptInv!(u) /\ pc'[u] = pc[u] /\ arg'[u] = arg[u] /\ (u \notin mixed' => u \notin mixed)
      BY <1>6, <1>7, <2>2 DEF AcceptInv
    <3>2. pc[u] \in {"accept", "accepted"} => arg[u].listener \in Files /\ arg[u].listener # f
      BY <1>1, <3>1 DEF ArgOK
    <3> QED
      BY <1>2, <1>3, <3>1, <3>2 DEF Described, NonblockIs
  <2> QED
    BY <2>1, <2>2
<1>24. TimeInv'
  <2> SUFFICES ASSUME NEW g \in Files \ blurred', NEW e \in Dirs, Described(g)'
               PROVE  TimeInv!(g, e)!2'
    BY DEF TimeInv
  <2>1. CASE g = f
    BY <1>1, <1>2, <1>3, <2>1, ZeroTime DEF ToInt
  <2>2. CASE g # f
    <3>1. TimeInv!(g, e)!2 /\ desc'[g] = desc[g]
      BY <1>3, <1>12, <2>2 DEF TimeInv
    <3>2. ToInt(asked[g][e])' = ToInt(asked[g][e])
      BY <1>2 DEF ToInt
    <3> QED
      BY <1>1, <1>6, <3>1, <3>2
  <2> QED
    BY <2>1, <2>2
<1> QED
  BY <1>13, <1>14, <1>15, <1>16, <1>17, <1>18, <1>19, <1>20, <1>21, <1>22, <1>23, <1>24 DEF Inv

\* The end of open and socket.
LEMMA OpenStoreStep ==
  ASSUME TypeOK, Inv, NEW t \in Callers, OpenStore(t)
  PROVE  TypeOK' /\ Inv'
<1>1. pc[t] = "store" /\ Store(t, arg[t].file, arg[t].new) /\ blurred' = blurred
  BY DEF OpenStore
<1>2. PICK d, n, f : d = arg[t].new /\ n = arg[t].fd /\ f = arg[t].file
  OBVIOUS
<1>3. /\ d \in DescType /\ d.timeout = Zero /\ FdTypeIs(d, f)
      /\ f \notin blurred => TypeIs(d, f) /\ NonblockIs(d.nonblock, f)
  BY <1>1, <1>2 DEF Inv, RecordInv, ArgOK
<1>4. Pending(t) /\ Store(t, f, d)
  BY <1>1, <1>2 DEF Pending
<1> QED
  BY <1>1, <1>2, <1>3, <1>4, StoreStep DEF Inv

\* The end of accept4: the listener's type_ is the one of the file accepted.
LEMMA AcceptStoreStep ==
  ASSUME TypeOK, Inv, NEW t \in Callers, AcceptStore(t)
  PROVE  TypeOK' /\ Inv'
<1>1. PICK d, n, f, g : /\ n = arg[t].fd /\ f = arg[t].file /\ g = arg[t].listener
                        /\ d = FdDesc("tSocket", desc[g].type, arg[t].nonblock)
  OBVIOUS
<1>2. /\ pc[t] = "accepted" /\ Store(t, f, d)
      /\ blurred' = IF t \in mixed \/ g \in blurred THEN blurred \cup {f} ELSE blurred
  BY <1>1 DEF AcceptStore, Listener
<1>3. /\ d.fdType = "tSocket" /\ d.type = desc[g].type /\ d.nonblock = arg[t].nonblock
      /\ d.timeout = Zero
  BY <1>1 DEF FdDesc
<1>4. arg[t].nonblock \in BOOLEAN /\ f \in Files /\ g \in Files
  BY <1>1, <1>2 DEF Inv, ArgOK
<1>5. d \in DescType
  BY <1>1, <1>4, ZeroTime DEF TypeOK, DescType, FdDesc
<1>6. /\ Described(g) /\ (t \notin mixed => kfile[g].kind = "stream")
      /\ kfile[f].kind = "stream" /\ (f \in flagged <=> g \in flagged)
      /\ f \notin blurred => NonblockIs(arg[t].nonblock, f)
  BY <1>1, <1>2 DEF Inv, AcceptInv
<1>7. FdTypeIs(d, f)
  BY <1>3, <1>6 DEF FdTypeIs
<1>8. ASSUME f \notin blurred'
      PROVE  TypeIs(d, f) /\ NonblockIs(d.nonblock, f)
  <2>1. t \notin mixed /\ g \notin blurred /\ f \notin blurred
    BY <1>2, <1>8
  <2>2. TypeIs(desc[g], g)
    BY <1>4, <1>6, <2>1 DEF Inv, RecordInv
  <2>3. TypeIs(d, f)
    BY <1>3, <1>6, <2>1, <2>2 DEF TypeIs
  <2>4. NonblockIs(d.nonblock, f)
    BY <1>3, <1>6, <2>1, Zenon
  <2> QED
    BY <2>3, <2>4
<1>9. Pending(t) /\ \A h \in blurred : h \in blurred'
  BY <1>2 DEF Pending
<1> QED
  BY <1>1, <1>2, <1>3, <1>5, <1>7, <1>8, <1>9, StoreStep DEF Inv

-----------------------------------------------------------------------------
(* close and dup *)

\* close, up to the return of the system call.
LEMMA CloseCallStep ==
  ASSUME TypeOK, ArgOK, UsedInv, SeenInv, NewInv, CrossInv, HandInv, TableInv, RecordInv,
         SettingInv, AcceptInv, TimeInv, NEW t \in Callers, NEW n \in Fds, CloseCall(t, n)
  PROVE  TypeOK' /\ Inv'
<1>1. UNCHANGED <<kfile, fds, desc, unseen, flagged, misread, asked, raced, blurred>>
  BY DEF CloseCall, table, faults
<1>2. /\ Only(t) /\ pc'[t] = "clear" /\ arg'[t] = [fd |-> n] /\ pc[t] = "idle"
      /\ Mix(t, {n}, {}, {}) /\ kfd' = [kfd EXCEPT ![n] = NULL]
  BY GotoOnly DEF CloseCall, Call, PcType
<1>3. /\ kfd'[n] = NULL /\ (\A m \in Fds : m # n => kfd'[m] = kfd[m])
      /\ kfd' \in [Fds -> Files \cup {NULL}]
  BY <1>2 DEF TypeOK
<1>4. \A u \in Callers : u # t => pc'[u] = pc[u] /\ arg'[u] = arg[u]
  BY <1>2 DEF Only
<1>5. \A u \in Callers : Pending(u)' => Pending(u) /\ arg'[u] = arg[u] /\ arg[u].fd # n
                                       /\ arg[u].fd \in Fds /\ arg[u].file # NULL
  BY <1>2, <1>4, HeldOpen, FdAssumption DEF CloseCall, Pending, ArgOK
<1>6. \A u \in Callers : Pending(u) => Pending(u)' /\ arg'[u] = arg[u]
  BY <1>2, <1>4 DEF Pending
<1>7. \A u \in Callers \ mixed' : u # t => u \notin mixed /\ n \notin Writes(u) /\ n \notin Reads(u)
  BY <1>2, MixFacts
<1>8. /\ Writes(t) = {} /\ Writes(t)' = {n} /\ Reads(t)' = {} /\ Works(t)' = {}
  BY <1>2 DEF Writes, Reads, Works
<1>9. \A u \in Callers : u \in mixed => u \in mixed'
  BY <1>2, MixFacts
<1>10. TypeOK'
  BY <1>1, <1>2, <1>3 DEF TypeOK, PcType, Only
<1>11. ArgOK'
  BY <1>1, <1>2, <1>4 DEF ArgOK, Only
<1>12. UsedInv'
  BY <1>1, <1>3 DEF UsedInv, Described
<1>13. SeenInv'
  BY <1>1, <1>5, <1>6 DEF SeenInv, Described
<1>14. NewInv'
  BY <1>1, <1>3, <1>5 DEF NewInv, Described
<1>15. CrossInv'
  BY <1>1, <1>2, <1>8, BeginCross
<1>16. HandInv'
  <2> SUFFICES ASSUME NEW u \in Callers \ mixed'
               PROVE  HandInv!(u)'
    BY DEF HandInv
  <2>1. CASE u = t
    BY <1>2, <1>3, <2>1
  <2>2. CASE u # t
    <3>1. HandInv!(u) /\ pc'[u] = pc[u] /\ arg'[u] = arg[u]
      BY <1>4, <1>7, <2>2 DEF HandInv
    <3>2. /\ pc[u] \in {"clear", "copy", "setfl", "settimeout"} => arg[u].fd \in Fds /\ arg[u].fd # n
          /\ pc[u] = "copy" => arg[u].from \in Fds /\ arg[u].from # n
      BY <1>7, <2>2 DEF ArgOK, Writes, Reads
    <3> QED
      BY <1>1, <1>3, <3>1, <3>2 DEF Described
  <2> QED
    BY <2>1, <2>2
<1>17. TableInv'
  <2> SUFFICES ASSUME NEW m \in Fds, m \notin raced, Quiet(m)'
               PROVE  TableInv!(m)!2'
    BY <1>1 DEF TableInv
  <2>1. m # n /\ Quiet(m)
    BY <1>2, <1>8, OnlyOthers DEF Quiet
  <2> QED
    BY <1>1, <1>3, <2>1 DEF TableInv, Described
<1>18. RecordInv'
  BY <1>1, <1>2, <1>4 DEF RecordInv, Described, FdTypeIs, TypeIs, NonblockIs
<1>19. SettingInv'
  BY <1>1, <1>2, <1>4, <1>7 DEF SettingInv, Described
<1>20. AcceptInv'
  BY <1>1, <1>2, <1>4, <1>9 DEF AcceptInv, Described, NonblockIs
<1>21. TimeInv'
  BY <1>1, <1>2, <1>4 DEF TimeInv, Described
<1> QED
  BY <1>10, <1>11, <1>12, <1>13, <1>14, <1>15, <1>16, <1>17, <1>18, <1>19, <1>20, <1>21 DEF Inv

\* dup, dup2 and F_DUPFD, up to the return of the system call.
LEMMA DupCallStep ==
  ASSUME TypeOK, ArgOK, UsedInv, SeenInv, NewInv, CrossInv, HandInv, TableInv, RecordInv,
         SettingInv, AcceptInv, TimeInv,
         NEW t \in Callers, NEW m \in Fds, NEW n \in Fds, DupCall(t, m, n)
  PROVE  TypeOK' /\ Inv'
<1>1. UNCHANGED <<kfile, fds, desc, unseen, flagged, misread, asked, raced, blurred>>
  BY DEF DupCall, table, faults
<1>2. /\ Only(t) /\ pc'[t] = "copy" /\ arg'[t] = [fd |-> n, from |-> m] /\ pc[t] = "idle"
      /\ Mix(t, {n}, {m}, {}) /\ kfd' = [kfd EXCEPT ![n] = kfd[m]] /\ m # n
  BY GotoOnly DEF DupCall, Call, PcType
<1>3. /\ kfd[m] \in Files /\ kfd[m] # NULL /\ \A u \in Callers : Pending(u) => arg[u].fd # m
  BY HeldOpen DEF DupCall
<1>4. /\ kfd'[n] = kfd[m] /\ kfd'[m] = kfd[m] /\ (\A l \in Fds : l # n => kfd'[l] = kfd[l])
      /\ kfd' \in [Fds -> Files \cup {NULL}]
  BY <1>2, <1>3 DEF TypeOK
<1>5. \A u \in Callers : u # t => pc'[u] = pc[u] /\ arg'[u] = arg[u]
  BY <1>2 DEF Only
<1>6. \A u \in Callers : Pending(u) => arg[u].fd # n
  <2>1. CASE n \in Held
    BY <2>1, HeldOpen
  <2>2. CASE n \in Free
    BY <2>2, FdAssumption DEF Free, NewInv, Pending, ArgOK
  <2> QED
    BY <2>1, <2>2 DEF DupCall
<1>7. \A u \in Callers : Pending(u)' => Pending(u) /\ arg'[u] = arg[u] /\ arg[u].fd # n
                                       /\ arg[u].fd \in Fds /\ arg[u].file # kfd[m]
  BY <1>2, <1>3, <1>5, <1>6 DEF Pending, ArgOK, NewInv
<1>8. \A u \in Callers : Pending(u) => Pending(u)' /\ arg'[u] = arg[u]
  BY <1>2, <1>5 DEF Pending
<1>9. /\ \A u \in Callers \ mixed' : u # t => u \notin mixed /\ n \notin Writes(u) /\ n \notin Reads(u)
      /\ \A u \in Callers : u \in mixed => u \in mixed'
  BY <1>2, MixFacts
<1>10. /\ Writes(t) = {} /\ Writes(t)' = {n} /\ Reads(t)' = {m} /\ Works(t)' = {}
  BY <1>2 DEF Writes, Reads, Works
<1>11. TypeOK'
  BY <1>1, <1>2, <1>4 DEF TypeOK, PcType, Only
<1>12. ArgOK'
  BY <1>1, <1>2, <1>5 DEF ArgOK, Only
<1>13. UsedInv'
  <2>1. \A l \in Fds : kfd'[l] # NULL => kfile[kfd'[l]].kind # "none"
    BY <1>3, <1>4 DEF UsedInv
  <2> QED
    BY <1>1, <2>1 DEF UsedInv, Described
<1>14. SeenInv'
  BY <1>1, <1>7, <1>8 DEF SeenInv, Described
<1>15. NewInv'
  BY <1>1, <1>4, <1>7 DEF NewInv, Described
<1>16. CrossInv'
  BY <1>1, <1>2, <1>10, BeginCross
<1>17. HandInv'
  <2> SUFFICES ASSUME NEW u \in Callers \ mixed'
               PROVE  HandInv!(u)'
    BY DEF HandInv
  <2>1. CASE u = t
    BY <1>2, <1>3, <1>4, <2>1
  <2>2. CASE u # t
    <3>1. HandInv!(u) /\ pc'[u] = pc[u] /\ arg'[u] = arg[u]
      BY <1>5, <1>9, <2>2 DEF HandInv
    <3>2. /\ pc[u] \in {"clear", "copy", "setfl", "settimeout"} => arg[u].fd \in Fds /\ arg[u].fd # n
          /\ pc[u] = "copy" => arg[u].from \in Fds /\ arg[u].from # n
      BY <1>9, <2>2 DEF ArgOK, Writes, Reads
    <3> QED
      BY <1>1, <1>4, <3>1, <3>2 DEF Described
  <2> QED
    BY <2>1, <2>2
<1>18. TableInv'
  <2> SUFFICES ASSUME NEW l \in Fds, l \notin raced, Quiet(l)'
               PROVE  TableInv!(l)!2'
    BY <1>1 DEF TableInv
  <2>1. l # n /\ Quiet(l)
    BY <1>2, <1>10, OnlyOthers DEF Quiet
  <2> QED
    BY <1>1, <1>4, <2>1 DEF TableInv, Described
<1>19. RecordInv'
  BY <1>1, <1>2, <1>5 DEF RecordInv, Described, FdTypeIs, TypeIs, NonblockIs
<1>20. SettingInv'
  BY <1>1, <1>2, <1>5, <1>9 DEF SettingInv, Described
<1>21. AcceptInv'
  BY <1>1, <1>2, <1>5, <1>9 DEF AcceptInv, Described, NonblockIs
<1>22. TimeInv'
  BY <1>1, <1>2, <1>5 DEF TimeInv, Described
<1> QED
  BY <1>11, <1>12, <1>13, <1>14, <1>15, <1>16, <1>17, <1>18, <1>19, <1>20, <1>21, <1>22 DEF Inv

\* The table half of close and dup: the entry of n becomes g, which is right
\* unless the call was crossed.
Enters(t, n, g) ==
  /\ pc[t] \in {"clear", "copy"} /\ arg[t].fd = n /\ g \in Files \cup {NULL}
  /\ g # NULL => Described(g)
  /\ t \notin mixed => g \in {NULL, kfd[n]} /\ (kfd[n] # NULL /\ Described(kfd[n]) => g = kfd[n])
  /\ fds' = [fds EXCEPT ![n] = g] /\ Goto(t, "idle", NULL) /\ Unmix(t, n)
  /\ UNCHANGED <<kfd, kfile, desc, unseen, flagged, misread, asked, blurred>>

LEMMA EntryStep ==
  ASSUME TypeOK, ArgOK, UsedInv, SeenInv, NewInv, CrossInv, HandInv, TableInv, RecordInv,
         SettingInv, AcceptInv, TimeInv, NEW t \in Callers, NEW n \in Fds, NEW g,
         Enters(t, n, g)
  PROVE  TypeOK' /\ Inv'
<1>0. /\ pc[t] \in {"clear", "copy"} /\ arg[t].fd = n /\ g \in Files \cup {NULL}
      /\ g # NULL => Described(g)
      /\ t \notin mixed => g \in {NULL, kfd[n]} /\ (kfd[n] # NULL /\ Described(kfd[n]) => g = kfd[n])
      /\ fds' = [fds EXCEPT ![n] = g] /\ Goto(t, "idle", NULL) /\ Unmix(t, n)
      /\ UNCHANGED <<kfd, kfile, desc, unseen, flagged, misread, asked, blurred>>
  BY DEF Enters
<1> USE <1>0
<1>1. fds'[n] = g /\ (\A m \in Fds : m # n => fds'[m] = fds[m]) /\ fds' \in [Fds -> Files \cup {NULL}]
  BY DEF TypeOK
<1>2. Only(t) /\ pc'[t] = "idle"
  BY GotoOnly DEF PcType
<1>3. \A u \in Callers : u # t => pc'[u] = pc[u] /\ arg'[u] = arg[u]
  BY <1>2 DEF Only
<1>4. /\ mixed' = mixed \ {t} /\ (n \notin raced' => t \notin mixed)
      /\ \A m \in Fds : m # n => (m \in raced' <=> m \in raced)
      /\ \A m \in raced' : m \in raced \/ m = n
  BY DEF Unmix
<1>5. Writes(t) = {n} /\ Writes(t)' = {} /\ Reads(t)' = {} /\ Works(t)' = {}
  BY <1>2 DEF Writes, Reads, Works
<1>6. \A u \in Callers : /\ Pending(u)' <=> Pending(u)
                         /\ Pending(u) => arg'[u] = arg[u]
  BY <1>2, <1>3 DEF Pending
<1>7. \A u \in Callers \ mixed' : u # t => u \notin mixed
  BY <1>4
<1>8. TypeOK'
  BY <1>1, <1>2 DEF TypeOK, PcType, Only
<1>9. ArgOK'
  BY <1>2, <1>3 DEF ArgOK, Only
<1>10. UsedInv'
  BY DEF UsedInv, Described
<1>11. SeenInv'
  <2>1. \A m \in Fds : fds'[m] # NULL => Described(fds'[m])
    BY <1>1 DEF SeenInv
  <2> QED
    BY <1>6, <2>1 DEF SeenInv, Described
<1>12. NewInv'
  BY <1>6 DEF NewInv, Described
<1>13. CrossInv'
  BY <1>2, <1>4, <1>5, EndCross
<1>14. HandInv'
  BY <1>2, <1>3, <1>7 DEF HandInv, Described
<1>15. TableInv'
  <2> SUFFICES ASSUME NEW m \in Fds, m \notin raced', Quiet(m)'
               PROVE  TableInv!(m)!2'
    BY DEF TableInv
  <2>1. CASE m = n
    BY <1>1, <1>4, <2>1 DEF Described
  <2>2. CASE m # n
    <3>1. m \notin raced /\ Quiet(m)
      BY <1>2, <1>4, <1>5, <2>2, OnlyOthers DEF Quiet
    <3> QED
      BY <1>1, <2>2, <3>1 DEF TableInv, Described
  <2> QED
    BY <2>1, <2>2
<1>16. RecordInv'
  BY <1>2, <1>3 DEF RecordInv, Described, FdTypeIs, TypeIs, NonblockIs
<1>17. SettingInv'
  BY <1>2, <1>3, <1>7 DEF SettingInv, Described
<1>18. AcceptInv'
  BY <1>2, <1>3, <1>7 DEF AcceptInv, Described, NonblockIs
<1>19. TimeInv'
  BY <1>2, <1>3 DEF TimeInv, Described
<1> QED
  BY <1>8, <1>9, <1>10, <1>11, <1>12, <1>13, <1>14, <1>15, <1>16, <1>17, <1>18, <1>19 DEF Inv

\* fds[fd]=nullptr: another call may have been given the number meanwhile.
LEMMA CloseClearStep ==
  ASSUME TypeOK, Inv, NEW t \in Callers, CloseClear(t)
  PROVE  TypeOK' /\ Inv'
<1>1. PICK n : n = arg[t].fd
  OBVIOUS
<1>2. pc[t] = "clear" /\ n \in Fds
  BY <1>1 DEF CloseClear, Inv, ArgOK
<1>3. t \notin mixed => kfd[n] = NULL \/ ~Described(kfd[n])
  BY <1>1, <1>2 DEF Inv, HandInv
<1>4. /\ fds' = [fds EXCEPT ![n] = NULL] /\ Goto(t, "idle", NULL) /\ Unmix(t, n)
      /\ UNCHANGED <<kfd, kfile, desc, unseen, flagged, misread, asked, blurred>>
  BY <1>1 DEF CloseClear, kernel, faults
<1>5. PICK g : g = NULL
  OBVIOUS
<1>6. /\ g \in Files \cup {NULL} /\ (g # NULL => Described(g))
      /\ t \notin mixed => g \in {NULL, kfd[n]} /\ (kfd[n] # NULL /\ Described(kfd[n]) => g = kfd[n])
  BY <1>3, <1>5
<1>7. Enters(t, n, g)
  BY <1>1, <1>2, <1>4, <1>5, <1>6 DEF Enters
<1>8. /\ ArgOK /\ UsedInv /\ SeenInv /\ NewInv /\ CrossInv /\ HandInv /\ TableInv
      /\ RecordInv /\ SettingInv /\ AcceptInv /\ TimeInv
  BY DEF Inv
<1> QED
  BY <1>2, <1>7, <1>8, EntryStep

\* fds[newfd]=fds[oldfd].
LEMMA DupCopyStep ==
  ASSUME TypeOK, Inv, NEW t \in Callers, DupCopy(t)
  PROVE  TypeOK' /\ Inv'
<1>1. PICK n, m, g : n = arg[t].fd /\ m = arg[t].from /\ g = fds[m]
  OBVIOUS
<1>2. pc[t] = "copy" /\ n \in Fds /\ m \in Fds
  BY <1>1 DEF DupCopy, Inv, ArgOK
<1>3. g \in Files \cup {NULL} /\ (g # NULL => Described(g))
  BY <1>1, <1>2 DEF Inv, SeenInv, TypeOK
<1>4. ASSUME t \notin mixed
      PROVE  g \in {NULL, kfd[n]} /\ (kfd[n] # NULL /\ Described(kfd[n]) => g = kfd[n])
  <2>1. kfd[n] = kfd[m] /\ m # n
    BY <1>1, <1>2, <1>4 DEF Inv, HandInv
  <2>2. m \in Reads(t) /\ m \notin Writes(t)
    BY <1>1, <1>2, <2>1 DEF Reads, Writes
  <2> QED
    BY <1>1, <1>2, <1>4, <2>1, <2>2, UncrossedEntry DEF Inv
<1>5. /\ fds' = [fds EXCEPT ![n] = g] /\ Goto(t, "idle", NULL) /\ Unmix(t, n)
      /\ UNCHANGED <<kfd, kfile, desc, unseen, flagged, misread, asked, blurred>>
  BY <1>1 DEF DupCopy, Copied, kernel, faults
<1>6. Enters(t, n, g)
  BY <1>1, <1>2, <1>3, <1>4, <1>5 DEF Enters
<1>7. /\ ArgOK /\ UsedInv /\ SeenInv /\ NewInv /\ CrossInv /\ HandInv /\ TableInv
      /\ RecordInv /\ SettingInv /\ AcceptInv /\ TimeInv
  BY DEF Inv
<1> QED
  BY <1>2, <1>6, <1>7, EntryStep

-----------------------------------------------------------------------------
(* F_SETFL and the timeouts *)

\* F_SETFL changes the table first.
LEMMA SetFlCallStep ==
  ASSUME TypeOK, ArgOK, UsedInv, SeenInv, NewInv, CrossInv, HandInv, TableInv, RecordInv,
         SettingInv, AcceptInv, TimeInv,
         NEW t \in Callers, NEW n \in Fds, NEW b \in BOOLEAN, SetFlCall(t, n, b)
  PROVE  TypeOK' /\ Inv'
<1>1. PICK f, g : f = kfd[n] /\ g = fds[n]
  OBVIOUS
<1>2. UNCHANGED <<kfd, kfile, fds, unseen, flagged, misread, asked, raced>>
  BY DEF SetFlCall, kernel, faults
<1>3. /\ f \in Files /\ f # NULL /\ g \in Files \cup {NULL} /\ (g # NULL => Described(g))
      /\ \A u \in Callers : Pending(u) => arg[u].fd # n
  BY <1>1, HeldOpen DEF SetFlCall, SeenInv, TypeOK
<1>4. /\ Only(t) /\ pc'[t] = "setfl" /\ arg'[t] = [fd |-> n, file |-> f, nonblock |-> b]
      /\ pc[t] = "idle" /\ Mix(t, {}, {n}, {f})
      /\ blurred' = IF t \in mixed' THEN blurred \cup ({g} \ {NULL}) ELSE blurred
  BY <1>1, GotoOnly DEF SetFlCall, Call, Blur, PcType
<1>5. arg'[t].fd = n /\ arg'[t].file = f /\ arg'[t].nonblock = b
  BY <1>4
<1>6. desc' = IF g = NULL THEN desc ELSE [desc EXCEPT ![g].nonblock = b]
  BY <1>1 DEF SetFlCall, SetNonBlocking
<1>7. /\ desc' \in [Files -> DescType]
      /\ \A h \in Files : /\ desc'[h].fdType = desc[h].fdType /\ desc'[h].type = desc[h].type
                          /\ desc'[h].timeout = desc[h].timeout
                          /\ h # g => desc'[h].nonblock = desc[h].nonblock
      /\ g # NULL => desc'[g].nonblock = b
  <2>1. desc \in [Files -> DescType]
    BY DEF TypeOK, DescType
  <2> QED
    BY <1>3, <1>6, <2>1, FdAssumption DEF DescType
<1>8. \A u \in Callers : u # t => pc'[u] = pc[u] /\ arg'[u] = arg[u]
  BY <1>4 DEF Only
<1>9. /\ \A u \in Callers : Pending(u)' => Pending(u) /\ arg'[u] = arg[u]
      /\ \A u \in Callers : Pending(u) => Pending(u)' /\ arg'[u] = arg[u]
  BY <1>4, <1>8 DEF Pending
<1>10. /\ \A u \in Callers \ mixed' : u # t => u \notin mixed /\ f \notin Works(u)
       /\ \A u \in Callers : u \in mixed => u \in mixed'
  BY <1>4, MixFacts
<1>11. Writes(t) = {} /\ Writes(t)' = {} /\ Reads(t)' = {n} /\ Works(t)' = {f}
  BY <1>4, <1>5 DEF Writes, Reads, Works
<1>12. t \notin mixed' => g \in {NULL, f} /\ (Described(f) => g = f)
  BY <1>1, <1>3, <1>4, <1>11, BeginEntry
<1>13. \A h \in Files : h \notin blurred' => h \notin blurred /\ (h = g => t \notin mixed')
  BY <1>4, FdAssumption
<1>14. \A h \in Files : Described(h)' <=> Described(h)
  BY <1>7 DEF Described
<1>15. TypeOK'
  BY <1>2, <1>4, <1>7 DEF TypeOK, DescType, PcType, Only
<1>16. ArgOK'
  BY <1>2, <1>3, <1>4, <1>8 DEF ArgOK, Only
<1>17. UsedInv'
  <2>1. UsedInv!1'
    BY <1>2 DEF UsedInv
  <2>2. UsedInv!2'
    BY <1>2, <1>14 DEF UsedInv
  <2> QED
    BY <2>1, <2>2 DEF UsedInv
<1>18. SeenInv'
  <2>1. ASSUME NEW m \in Fds, fds'[m] # NULL PROVE desc'[fds'[m]].fdType # "none"
    <3>1. PICK h \in Files : h = fds[m] /\ fds'[m] = h
      BY <1>2, <2>1 DEF TypeOK
    <3>2. Described(h)
      BY <1>2, <2>1, <3>1 DEF SeenInv
    <3> QED
      BY <1>7, <3>1, <3>2 DEF Described
  <2>2. ASSUME NEW h \in Files, kfile'[h].kind # "none", ~(h \in unseen'), ~Described(h)'
        PROVE  \E u \in Callers : Pending(u)' /\ arg'[u].file = h
    <3>1. kfile[h].kind # "none" /\ h \notin unseen /\ ~Described(h)
      BY <1>2, <1>14, <2>2
    <3>2. PICK u \in Callers : Pending(u) /\ arg[u].file = h
      BY <3>1 DEF SeenInv
    <3> QED
      BY <1>9, <3>2
  <2>3. SeenInv!3'
    <3>1. \A h \in Files : h \in unseen => ~Described(h)'
      BY <1>14 DEF SeenInv
    <3> QED
      BY <1>2, <1>9, <3>1 DEF SeenInv, Described
  <2> QED
    BY <2>1, <2>2, <2>3 DEF SeenInv, Described
<1>19. NewInv'
  <2> SUFFICES ASSUME NEW u \in Callers, Pending(u)'
               PROVE  NewInv!(u)!2'
    BY DEF NewInv
  <2>1. Pending(u) /\ arg'[u] = arg[u] /\ NewInv!(u)!2 /\ arg[u].file \in Files
    BY <1>9 DEF NewInv, Pending, ArgOK
  <2>2. ~Described(arg[u].file)'
    BY <1>7, <2>1 DEF Described
  <2>3. /\ kfd' = kfd /\ asked' = asked
        /\ \A v \in Callers : Pending(v)' /\ arg'[v].fd = arg'[u].fd => v = u
    BY <1>2, <1>9, <2>1
  <2> QED
    BY <2>1, <2>2, <2>3
<1>20. CrossInv'
  BY <1>2, <1>4, <1>11, BeginCross
<1>21. HandInv'
  <2> SUFFICES ASSUME NEW u \in Callers \ mixed'
               PROVE  HandInv!(u)'
    BY DEF HandInv
  <2>1. CASE u = t
    BY <1>1, <1>2, <1>4, <1>5, <2>1
  <2>2. CASE u # t
    <3>1. HandInv!(u) /\ pc'[u] = pc[u] /\ arg'[u] = arg[u]
      BY <1>8, <1>10, <2>2 DEF HandInv
    <3>2. pc[u] = "clear" => kfd[arg[u].fd] \in Files \cup {NULL}
      BY DEF ArgOK, TypeOK
    <3>3. pc[u] = "clear" /\ kfd[arg[u].fd] # NULL => ~Described(kfd[arg[u].fd])'
      BY <1>2, <1>7, <3>1, <3>2 DEF Described
    <3> QED
      BY <1>2, <3>1, <3>3
  <2> QED
    BY <2>1, <2>2
<1>22. TableInv'
  <2> SUFFICES ASSUME NEW m \in Fds, m \notin raced, Quiet(m)'
               PROVE  TableInv!(m)!2'
    BY <1>2 DEF TableInv
  <2>1. Quiet(m)
    BY <1>4, <1>11, OnlyOthers DEF Quiet
  <2>2. TableInv!(m)!2 /\ kfd[m] \in Files \cup {NULL}
    BY <2>1 DEF TableInv, TypeOK
  <2> QED
    BY <1>2, <1>7, <2>2 DEF Described
<1>23. RecordInv'
  <2>1. RecordInv!1'
    <3> SUFFICES ASSUME NEW h \in Files, Described(h)'
                 PROVE  RecordInv!1!(h)!2'
      OBVIOUS
    <3>1. RecordInv!1!(h)!2 /\ Described(h)
      BY <1>14 DEF RecordInv
    <3>2. FdTypeIs(desc[h], h)'
      BY <1>2, <1>7, <3>1 DEF FdTypeIs
    <3>3. h \notin blurred' => TypeIs(desc[h], h)'
      BY <1>2, <1>7, <1>13, <3>1 DEF TypeIs
    <3>4. CASE h # g
      <4>1. (\E u \in Callers : pc[u] = "setfl" /\ arg[u].file = h)
             => \E u \in Callers : pc'[u] = "setfl" /\ arg'[u].file = h
        BY <1>4, <1>8
      <4> QED
        BY <1>2, <1>7, <1>13, <3>1, <3>2, <3>3, <3>4, <4>1 DEF NonblockIs
    <3>5. CASE h = g
      <4>1. h \notin blurred' => h = f
        BY <1>3, <1>12, <1>13, <3>5, FdAssumption
      <4> QED
        BY <1>4, <1>5, <3>2, <3>3, <4>1
    <3> QED
      BY <3>4, <3>5
  <2>2. RecordInv!2'
    BY <1>2, <1>4, <1>8, <1>13 DEF RecordInv, FdTypeIs, TypeIs, NonblockIs, ArgOK
  <2> QED
    BY <2>1, <2>2 DEF RecordInv
<1>24. SettingInv'
  <2> SUFFICES ASSUME NEW u \in Callers \ mixed'
               PROVE  SettingInv!(u)'
    BY DEF SettingInv
  <2>1. CASE u = t
    <3>1. Described(f)' => g = f
      BY <1>3, <1>12, <1>14, <2>1
    <3> QED
      BY <1>3, <1>4, <1>5, <1>7, <2>1, <3>1
  <2>2. CASE u # t
    <3>1. SettingInv!(u) /\ pc'[u] = pc[u] /\ arg'[u] = arg[u] /\ f \notin Works(u)
      BY <1>8, <1>10, <2>2 DEF SettingInv
    <3>2. pc[u] = "setfl" => arg[u].file \in Files /\ arg[u].file # f
      BY <3>1 DEF ArgOK, Works
    <3>3. ASSUME pc[u] = "setfl", Described(arg[u].file)', arg[u].file \notin blurred'
          PROVE  desc'[arg[u].file].nonblock = arg[u].nonblock
      <4>1. arg[u].file # g
        BY <1>3, <1>12, <1>13, <3>2, <3>3, FdAssumption
      <4>2. Described(arg[u].file) /\ arg[u].file \notin blurred
        BY <1>2, <1>7, <1>13, <3>1, <3>2, <3>3 DEF Described
      <4> QED
        BY <1>7, <3>1, <3>2, <3>3, <4>1, <4>2
    <3> QED
      BY <1>2, <3>1, <3>3
  <2> QED
    BY <2>1, <2>2
<1>25. AcceptInv'
  <2> SUFFICES ASSUME NEW u \in Callers
               PROVE  AcceptInv!(u)'
    BY DEF AcceptInv
  <2>1. CASE u = t
    BY <1>4, <2>1
  <2>2. CASE u # t
    <3>1. AcceptInv!(u) /\ pc'[u] = pc[u] /\ arg'[u] = arg[u] /\ (u \notin mixed' => u \notin mixed)
      BY <1>8, <1>10, <2>2 DEF AcceptInv
    <3>2. /\ pc[u] \in {"accept", "accepted"} => arg[u].listener \in Files
          /\ pc[u] = "accepted" => arg[u].file \in Files
      BY DEF ArgOK
    <3> QED
      BY <1>2, <1>7, <1>13, <3>1, <3>2 DEF Described, NonblockIs
  <2> QED
    BY <2>1, <2>2
<1>26. TimeInv'
  <2> SUFFICES ASSUME NEW h \in Files \ blurred', NEW e \in Dirs, Described(h)'
               PROVE  TimeInv!(h, e)!2'
    BY DEF TimeInv
  <2>1. TimeInv!(h, e)!2
    BY <1>13, <1>14 DEF TimeInv
  <2>2. ToInt(asked[h][e])' = ToInt(asked[h][e]) /\ desc'[h].timeout[e] = desc[h].timeout[e]
    BY <1>2, <1>7 DEF ToInt
  <2>3. (\E u \in Callers : pc[u] = "settimeout" /\ arg[u].file = h /\ arg[u].dir = e)
         => \E u \in Callers : pc'[u] = "settimeout" /\ arg'[u].file = h /\ arg'[u].dir = e
    BY <1>4, <1>8
  <2> QED
    BY <2>1, <2>2, <2>3
<1> QED
  BY <1>15, <1>16, <1>17, <1>18, <1>19, <1>20, <1>21, <1>22, <1>23, <1>24, <1>25, <1>26 DEF Inv

\* The system call of F_SETFL, which may refuse.
LEMMA SetFlKernelStep ==
  ASSUME TypeOK, ArgOK, UsedInv, SeenInv, NewInv, CrossInv, HandInv, TableInv, RecordInv,
         SettingInv, AcceptInv, TimeInv, NEW t \in Callers, SetFlKernel(t)
  PROVE  TypeOK' /\ Inv'
<1>1. PICK n, f, b, h : n = arg[t].fd /\ f = kfd[n] /\ b = arg[t].nonblock /\ h = arg[t].file
  OBVIOUS
<1>2. /\ UNCHANGED <<kfd, fds, desc, unseen, flagged, asked, raced>> /\ pc[t] = "setfl"
      /\ mixed' = mixed \ {t}
      /\ blurred' = IF t \in mixed THEN blurred \cup ({f, h} \ {NULL}) ELSE blurred
  BY <1>1 DEF SetFlKernel, table
<1>3. Only(t) /\ pc'[t] = "idle"
  BY GotoOnly DEF SetFlKernel, PcType
<1>4. n \in Fds /\ h \in Files /\ h # NULL /\ b \in BOOLEAN /\ f \in Files \cup {NULL}
  BY <1>1, <1>2, FdAssumption DEF ArgOK, TypeOK
<1>5. /\ kfile' \in [Files -> FileType]
      /\ \A g \in Files : /\ kfile'[g].kind = kfile[g].kind
                          /\ g # f => kfile'[g] = kfile[g] /\ (g \in misread' <=> g \in misread)
      /\ f \in Files => (kfile'[f].nonblock = b <=> f \notin misread')
  <2>1. kfile \in [Files -> FileType]
    BY DEF TypeOK, FileType
  <2>2. CASE /\ f # NULL /\ kfile' = [kfile EXCEPT ![f].nonblock = b]
             /\ misread' = misread \ {f}
    <3>1. /\ kfile' \in [Files -> FileType] /\ f \in Files /\ kfile'[f].nonblock = b
          /\ \A g \in Files : kfile'[g].kind = kfile[g].kind /\ (g # f => kfile'[g] = kfile[g])
      BY <1>4, <2>1, <2>2 DEF FileType
    <3> QED
      BY <2>2, <3>1
  <2>3. CASE /\ misread' = IF f # NULL /\ kfile[f].nonblock # b THEN misread \cup {f}
                           ELSE misread \ {f}
             /\ UNCHANGED kfile
    BY <2>1, <2>3, FdAssumption
  <2> QED
    BY <1>1, <2>2, <2>3 DEF SetFlKernel
<1>6. \A u \in Callers : u # t => pc'[u] = pc[u] /\ arg'[u] = arg[u]
  BY <1>3 DEF Only
<1>7. /\ \A u \in Callers : Pending(u)' => u # t /\ Pending(u) /\ arg'[u] = arg[u]
      /\ \A u \in Callers : Pending(u) => Pending(u)' /\ arg'[u] = arg[u]
  BY <1>2, <1>3, <1>6 DEF Pending
<1>8. Writes(t) = {} /\ Reads(t) = {n} /\ Writes(t)' = {} /\ Reads(t)' = {} /\ Works(t)' = {}
  BY <1>1, <1>2, <1>3 DEF Writes, Reads, Works
<1>9. \A u \in Callers \ mixed' : u # t => u \notin mixed
  BY <1>2
<1>10. t \notin mixed => f = h /\ \A u \in Callers : u # t => n \notin Writes(u)
  BY <1>1, <1>2, <1>8 DEF HandInv, CrossInv
<1>11. \A g \in Files : g \notin blurred' => g \notin blurred /\ (t \in mixed => g # f /\ g # h)
  BY <1>2, FdAssumption
<1>12. f # NULL => kfile[f].kind # "none"
  BY <1>1, <1>4 DEF UsedInv
<1>13. ASSUME NEW u \in Callers, Pending(u), arg[u].file \notin blurred'
       PROVE  arg[u].file \in Files /\ arg[u].file # f
  <2>1. arg[u].file \in Files /\ u # t
    BY <1>2, <1>13 DEF Pending, ArgOK
  <2>2. t \notin mixed /\ f = arg[u].file => n = arg[u].fd /\ n \in Writes(u)
    BY <1>1, <1>4, <1>13 DEF NewInv, Pending, Writes
  <2> QED
    BY <1>10, <1>11, <1>13, <2>1, <2>2
<1>14. TypeOK'
  BY <1>2, <1>3, <1>5 DEF TypeOK, FileType, PcType, Only
<1>15. ArgOK'
  BY <1>2, <1>3, <1>6 DEF ArgOK, Only
<1>16. UsedInv'
  <2>1. UsedInv!1'
    BY <1>2, <1>5 DEF UsedInv, TypeOK
  <2>2. \A g \in Files : kfile'[g].kind = "none" =>
          g # f /\ kfile[g].kind = "none" /\ (g \in misread' <=> g \in misread)
    BY <1>4, <1>5, <1>12, FdAssumption
  <2>3. UsedInv!2'
    BY <1>2, <2>2 DEF UsedInv, Described
  <2> QED
    BY <2>1, <2>3 DEF UsedInv
<1>17. SeenInv'
  BY <1>2, <1>5, <1>7 DEF SeenInv, Described
<1>18. NewInv'
  BY <1>2, <1>7 DEF NewInv, Described
<1>19. CrossInv'
  BY <1>2, <1>3, <1>8, EndCross
<1>20. HandInv'
  BY <1>2, <1>3, <1>6, <1>9 DEF HandInv, Described
<1>21. TableInv'
  <2>1. \A m \in Fds : Quiet(m)' => Quiet(m)
    BY <1>3, <1>8, OnlyOthers DEF Quiet
  <2> QED
    BY <1>2, <2>1 DEF TableInv, Described
<1>22. RecordInv'
  <2>1. RecordInv!1'
    <3> SUFFICES ASSUME NEW g \in Files, Described(g)'
                 PROVE  RecordInv!1!(g)!2'
      OBVIOUS
    <3>1. RecordInv!1!(g)!2 /\ Described(g) /\ desc'[g] = desc[g]
      BY <1>2 DEF RecordInv, Described
    <3>2. FdTypeIs(desc[g], g)' /\ (g \notin blurred' => TypeIs(desc[g], g)')
      BY <1>2, <1>5, <1>11, <3>1 DEF FdTypeIs, TypeIs
    <3>3. CASE g = f /\ t \notin mixed
      <4>1. g \notin blurred' => desc[g].nonblock = b
        BY <1>1, <1>2, <1>10, <1>11, <3>1, <3>3 DEF SettingInv
      <4>2. g \notin blurred' => NonblockIs(desc[g].nonblock, g)'
        BY <1>5, <3>1, <3>3, <4>1, Zenon DEF NonblockIs
      <4> QED
        BY <3>2, <4>2
    <3>4. CASE g # f
      <4>1. g \notin blurred' /\ g = h => FALSE
        BY <1>10, <1>11, <3>4
      <4>2. NonblockIs(desc[g].nonblock, g) => NonblockIs(desc[g].nonblock, g)'
        BY <1>5, <3>1, <3>4 DEF NonblockIs
      <4>3. g # h /\ (\E u \in Callers : pc[u] = "setfl" /\ arg[u].file = g)
             => \E u \in Callers : pc'[u] = "setfl" /\ arg'[u].file = g
        BY <1>1, <1>6
      <4> QED
        BY <1>11, <3>1, <3>2, <4>1, <4>2, <4>3
    <3>5. CASE g = f /\ t \in mixed
      BY <1>11, <3>2, <3>5
    <3> QED
      BY <3>3, <3>4, <3>5
  <2>2. RecordInv!2'
    <3> SUFFICES ASSUME NEW u \in Callers, pc'[u] = "store"
                 PROVE  RecordInv!2!(u)!2'
      OBVIOUS
    <3>1. u # t /\ pc[u] = "store" /\ arg'[u] = arg[u] /\ Pending(u) /\ arg[u].file \in Files
      BY <1>3, <1>6 DEF Pending, ArgOK
    <3>2. RecordInv!2!(u)!2
      BY <3>1 DEF RecordInv
    <3>3. arg[u].file \notin blurred' => arg[u].file # f /\ arg[u].file \notin blurred
      BY <1>11, <1>13, <3>1
    <3> QED
      BY <1>2, <1>5, <3>1, <3>2, <3>3 DEF FdTypeIs, TypeIs, NonblockIs
  <2> QED
    BY <2>1, <2>2 DEF RecordInv
<1>23. SettingInv'
  <2> SUFFICES ASSUME NEW u \in Callers \ mixed'
               PROVE  SettingInv!(u)'
    BY DEF SettingInv
  <2>1. CASE u = t
    BY <1>3, <2>1
  <2>2. CASE u # t
    <3>1. SettingInv!(u) /\ pc'[u] = pc[u] /\ arg'[u] = arg[u]
      BY <1>6, <1>9, <2>2 DEF SettingInv
    <3> QED
      BY <1>2, <1>11, <3>1 DEF Described, ArgOK
  <2> QED
    BY <2>1, <2>2
<1>24. AcceptInv'
  <2> SUFFICES ASSUME NEW u \in Callers
               PROVE  AcceptInv!(u)'
    BY DEF AcceptInv
  <2>1. CASE u = t
    BY <1>3, <2>1
  <2>2. CASE u # t
    <3>1. AcceptInv!(u) /\ pc'[u] = pc[u] /\ arg'[u] = arg[u] /\ (u \notin mixed' => u \notin mixed)
      BY <1>6, <1>9, <2>2 DEF AcceptInv
    <3>2. /\ pc[u] \in {"accept", "accepted"} => arg[u].listener \in Files
          /\ pc[u] = "accepted" => arg[u].file \in Files /\ Pending(u)
      BY DEF ArgOK, Pending
    <3>3. pc[u] = "accepted" /\ arg[u].file \notin blurred' =>
            arg[u].file # f /\ arg[u].file \notin blurred
      BY <1>11, <1>13, <3>2
    <3> QED
      BY <1>2, <1>5, <3>1, <3>2, <3>3 DEF Described, NonblockIs
  <2> QED
    BY <2>1, <2>2
<1>25. TimeInv'
  <2> SUFFICES ASSUME NEW g \in Files \ blurred', NEW e \in Dirs, Described(g)'
               PROVE  TimeInv!(g, e)!2'
    BY DEF TimeInv
  <2>1. TimeInv!(g, e)!2
    BY <1>2, <1>11 DEF TimeInv, Described
  <2>2. ToInt(asked[g][e])' = ToInt(asked[g][e])
    BY <1>2 DEF ToInt
  <2> QED
    BY <1>2, <1>6, <2>1, <2>2
<1> QED
  BY <1>14, <1>15, <1>16, <1>17, <1>18, <1>19, <1>20, <1>21, <1>22, <1>23, <1>24, <1>25 DEF Inv

\* setsockopt SO_RCVTIMEO or SO_SNDTIMEO: the system call.
LEMMA SetTimeoutCallStep ==
  ASSUME TypeOK, ArgOK, UsedInv, SeenInv, NewInv, CrossInv, HandInv, TableInv, RecordInv,
         SettingInv, AcceptInv, TimeInv, NEW t \in Callers, NEW n \in Fds, NEW e \in Dirs,
         NEW x \in Times, SetTimeoutCall(t, n, e, x)
  PROVE  TypeOK' /\ Inv'
<1>1. PICK f : f = kfd[n]
  OBVIOUS
<1>2. UNCHANGED <<kfd, kfile, fds, desc, unseen, flagged, misread, raced, blurred>>
  BY DEF SetTimeoutCall, kernel, table, faults
<1>3. f \in Files /\ f # NULL /\ \A u \in Callers : Pending(u) => arg[u].fd # n
  BY <1>1, HeldOpen DEF SetTimeoutCall
<1>4. /\ Only(t) /\ pc'[t] = "settimeout" /\ pc[t] = "idle" /\ Mix(t, {}, {n}, {f})
      /\ arg'[t] = [fd |-> n, file |-> f, dir |-> e, time |-> x]
  BY <1>1, GotoOnly DEF SetTimeoutCall, Call, PcType
<1>5. /\ asked' \in [Files -> [Dirs -> Times \cup {0}]] /\ asked'[f][e] = x
      /\ \A g \in Files : g # f => asked'[g] = asked[g]
      /\ \A d \in Dirs : d # e => asked'[f][d] = asked[f][d]
  BY <1>1, <1>3 DEF SetTimeoutCall, ArgOK
<1>6. arg'[t].fd = n /\ arg'[t].file = f /\ arg'[t].dir = e /\ arg'[t].time = x
  BY <1>4
<1>7. \A u \in Callers : u # t => pc'[u] = pc[u] /\ arg'[u] = arg[u]
  BY <1>4 DEF Only
<1>8. /\ \A u \in Callers : Pending(u)' => Pending(u) /\ arg'[u] = arg[u]
      /\ \A u \in Callers : Pending(u) => Pending(u)' /\ arg'[u] = arg[u]
  BY <1>4, <1>7 DEF Pending
<1>9. /\ \A u \in Callers \ mixed' : u # t => u \notin mixed /\ f \notin Works(u)
      /\ \A u \in Callers : u \in mixed => u \in mixed'
  BY <1>4, MixFacts
<1>10. Writes(t) = {} /\ Writes(t)' = {} /\ Reads(t)' = {n} /\ Works(t)' = {f}
  BY <1>4, <1>6 DEF Writes, Reads, Works
<1>11. \A u \in Callers : Pending(u) => arg[u].file \in Files /\ arg[u].file # f
  BY <1>1, <1>3 DEF NewInv, Pending, ArgOK
<1>12. kfile[f].kind # "none"
  BY <1>1, <1>3 DEF UsedInv
<1>13. TypeOK'
  BY <1>2, <1>4 DEF TypeOK, PcType, Only
<1>14. ArgOK'
  BY <1>3, <1>4, <1>5, <1>7 DEF ArgOK, Only
<1>15. UsedInv'
  BY <1>2, <1>5, <1>12 DEF UsedInv, Described
<1>16. SeenInv'
  BY <1>2, <1>8 DEF SeenInv, Described
<1>17. NewInv'
  BY <1>2, <1>5, <1>8, <1>11 DEF NewInv, Described
<1>18. CrossInv'
  BY <1>2, <1>4, <1>10, BeginCross
<1>19. HandInv'
  BY <1>1, <1>2, <1>4, <1>6, <1>7, <1>9 DEF HandInv, Described
<1>20. TableInv'
  <2>1. \A m \in Fds : Quiet(m)' => Quiet(m)
    BY <1>4, <1>10, OnlyOthers DEF Quiet
  <2> QED
    BY <1>2, <2>1 DEF TableInv, Described
<1>21. RecordInv'
  BY <1>2, <1>4, <1>7 DEF RecordInv, Described, FdTypeIs, TypeIs, NonblockIs
<1>22. SettingInv'
  <2> SUFFICES ASSUME NEW u \in Callers \ mixed'
               PROVE  SettingInv!(u)'
    BY DEF SettingInv
  <2>1. CASE u = t
    BY <1>4, <1>5, <1>6, <2>1
  <2>2. CASE u # t
    <3>1. SettingInv!(u) /\ pc'[u] = pc[u] /\ arg'[u] = arg[u] /\ f \notin Works(u)
      BY <1>7, <1>9, <2>2 DEF SettingInv
    <3>2. pc[u] = "settimeout" => arg[u].file \in Files /\ arg[u].file # f
      BY <3>1 DEF ArgOK, Works
    <3> QED
      BY <1>2, <1>5, <3>1, <3>2 DEF Described
  <2> QED
    BY <2>1, <2>2
<1>23. AcceptInv'
  BY <1>2, <1>4, <1>7, <1>9 DEF AcceptInv, Described, NonblockIs
<1>24. TimeInv'
  <2> SUFFICES ASSUME NEW g \in Files \ blurred', NEW d \in Dirs, Described(g)'
               PROVE  TimeInv!(g, d)!2'
    BY DEF TimeInv
  <2>1. CASE g = f /\ d = e
    BY <1>4, <1>6, <2>1
  <2>2. CASE ~(g = f /\ d = e)
    <3>1. TimeInv!(g, d)!2
      BY <1>2 DEF TimeInv, Described
    <3>2. asked'[g][d] = asked[g][d]
      BY <1>5, <2>2
    <3>3. ToInt(asked[g][d])' = ToInt(asked[g][d])
      BY <3>2 DEF ToInt
    <3>4. (\E u \in Callers : pc[u] = "settimeout" /\ arg[u].file = g /\ arg[u].dir = d)
           => \E u \in Callers : pc'[u] = "settimeout" /\ arg'[u].file = g /\ arg'[u].dir = d
      BY <1>4, <1>7
    <3> QED
      BY <1>2, <3>1, <3>3, <3>4
  <2> QED
    BY <2>1, <2>2
<1> QED
  BY <1>13, <1>14, <1>15, <1>16, <1>17, <1>18, <1>19, <1>20, <1>21, <1>22, <1>23, <1>24 DEF Inv

\* The same: what the entry keeps of it.
LEMMA SetTimeoutTableStep ==
  ASSUME TypeOK, ArgOK, UsedInv, SeenInv, NewInv, CrossInv, HandInv, TableInv, RecordInv,
         SettingInv, AcceptInv, TimeInv, NEW t \in Callers, SetTimeoutTable(t)
  PROVE  TypeOK' /\ Inv'
<1>1. PICK n, f, g, e, x : /\ n = arg[t].fd /\ f = arg[t].file /\ g = fds[n]
                           /\ e = arg[t].dir /\ x = arg[t].time
  OBVIOUS
<1>2. /\ UNCHANGED <<kfd, kfile, fds, unseen, flagged, misread, asked, raced>>
      /\ pc[t] = "settimeout" /\ mixed' = mixed \ {t}
      /\ desc' = IF g = NULL THEN desc ELSE [desc EXCEPT ![g].timeout[e] = ToInt(x)]
      /\ blurred' = IF t \in mixed THEN blurred \cup ({g, f} \ {NULL}) ELSE blurred
  BY <1>1 DEF SetTimeoutTable, SetSocketTimeout, kernel, faults
<1>3. Only(t) /\ pc'[t] = "idle"
  BY GotoOnly DEF SetTimeoutTable, PcType
<1>4. /\ n \in Fds /\ f \in Files /\ f # NULL /\ e \in Dirs /\ x \in Times /\ x \in Int
      /\ g \in Files \cup {NULL} /\ (g # NULL => Described(g))
  <2>1. n \in Fds /\ f \in Files /\ e \in Dirs /\ x \in Times
    BY <1>1, <1>2 DEF ArgOK
  <2> QED
    BY <1>1, <2>1, FdAssumption, IntAssumption DEF SeenInv, TypeOK
<1>5. ToInt(x) \in -(IntMax + 1) .. IntMax
  BY <1>4, IntRange
<1>6. /\ desc' \in [Files -> DescType]
      /\ \A h \in Files : /\ desc'[h].fdType = desc[h].fdType /\ desc'[h].type = desc[h].type
                          /\ desc'[h].nonblock = desc[h].nonblock
                          /\ h # g => desc'[h].timeout = desc[h].timeout
      /\ g # NULL => /\ desc'[g].timeout[e] = ToInt(x)
                     /\ \A d \in Dirs : d # e => desc'[g].timeout[d] = desc[g].timeout[d]
  <2>1. desc \in [Files -> DescType]
    BY DEF TypeOK, DescType
  <2>2. CASE g = NULL
    BY <1>2, <2>1, <2>2, FdAssumption
  <2>3. CASE g # NULL
    <3>1. PICK v : v = ToInt(x) /\ v \in -(IntMax + 1) .. IntMax
      BY <1>5
    <3>2. desc' = [desc EXCEPT ![g].timeout[e] = v]
      BY <1>2, <2>3, <3>1
    <3> QED
      BY <1>4, <2>1, <2>3, <3>1, <3>2 DEF DescType
  <2> QED
    BY <2>2, <2>3
<1>7. \A u \in Callers : u # t => pc'[u] = pc[u] /\ arg'[u] = arg[u]
  BY <1>3 DEF Only
<1>8. /\ \A u \in Callers : Pending(u)' => u # t /\ Pending(u) /\ arg'[u] = arg[u]
      /\ \A u \in Callers : Pending(u) => Pending(u)' /\ arg'[u] = arg[u]
  BY <1>2, <1>3, <1>7 DEF Pending
<1>9. /\ Writes(t) = {} /\ Reads(t) = {n} /\ Works(t) = {f}
      /\ Writes(t)' = {} /\ Reads(t)' = {} /\ Works(t)' = {}
  BY <1>1, <1>2, <1>3 DEF Writes, Reads, Works
<1>10. \A u \in Callers \ mixed' : u # t => u \notin mixed
  BY <1>2
<1>11. t \notin mixed => /\ g \in {NULL, f} /\ (Described(f) => g = f) /\ asked[f][e] = x
                         /\ \A u \in Callers : u # t => f \notin Works(u)
  <2>1. t \notin mixed => kfd[n] = f /\ asked[f][e] = x
    BY <1>1, <1>2 DEF HandInv, SettingInv
  <2>2. t \notin mixed => \A u \in Callers : u # t => f \notin Works(u)
    BY <1>9 DEF CrossInv
  <2> QED
    BY <1>1, <1>4, <1>9, <2>1, <2>2, UncrossedEntry
<1>12. \A h \in Files : h \notin blurred' => h \notin blurred /\ (t \in mixed => h # f /\ h # g)
  BY <1>2, FdAssumption
<1>13. \A h \in Files : Described(h)' <=> Described(h)
  BY <1>6 DEF Described
<1>14. TypeOK'
  BY <1>2, <1>3, <1>6 DEF TypeOK, DescType, PcType, Only
<1>15. ArgOK'
  BY <1>2, <1>3, <1>7 DEF ArgOK, Only
<1>16. UsedInv'
  <2>1. UsedInv!1'
    BY <1>2 DEF UsedInv
  <2>2. UsedInv!2'
    BY <1>2, <1>13 DEF UsedInv
  <2> QED
    BY <2>1, <2>2 DEF UsedInv
<1>17. SeenInv'
  <2>1. ASSUME NEW m \in Fds, fds'[m] # NULL PROVE desc'[fds'[m]].fdType # "none"
    <3>1. PICK h \in Files : h = fds[m] /\ fds'[m] = h
      BY <1>2, <2>1 DEF TypeOK
    <3>2. Described(h)
      BY <1>2, <2>1, <3>1 DEF SeenInv
    <3> QED
      BY <1>6, <3>1, <3>2 DEF Described
  <2>2. ASSUME NEW h \in Files, kfile'[h].kind # "none", ~(h \in unseen'), ~Described(h)'
        PROVE  \E u \in Callers : Pending(u)' /\ arg'[u].file = h
    <3>1. kfile[h].kind # "none" /\ h \notin unseen /\ ~Described(h)
      BY <1>2, <1>13, <2>2
    <3>2. PICK u \in Callers : Pending(u) /\ arg[u].file = h
      BY <3>1 DEF SeenInv
    <3> QED
      BY <1>8, <3>2
  <2>3. SeenInv!3'
    <3>1. \A h \in Files : h \in unseen => ~Described(h)'
      BY <1>13 DEF SeenInv
    <3> QED
      BY <1>2, <1>8, <3>1 DEF SeenInv, Described
  <2> QED
    BY <2>1, <2>2, <2>3 DEF SeenInv, Described
<1>18. NewInv'
  <2> SUFFICES ASSUME NEW u \in Callers, Pending(u)'
               PROVE  NewInv!(u)!2'
    BY DEF NewInv
  <2>1. Pending(u) /\ arg'[u] = arg[u] /\ NewInv!(u)!2 /\ arg[u].file \in Files
    BY <1>8 DEF NewInv, Pending, ArgOK
  <2>2. ~Described(arg[u].file)'
    BY <1>6, <2>1 DEF Described
  <2>3. /\ kfd' = kfd /\ asked' = asked
        /\ \A v \in Callers : Pending(v)' /\ arg'[v].fd = arg'[u].fd => v = u
    BY <1>2, <1>8, <2>1
  <2> QED
    BY <2>1, <2>2, <2>3
<1>19. CrossInv'
  BY <1>2, <1>3, <1>9, EndCross
<1>20. HandInv'
  <2> SUFFICES ASSUME NEW u \in Callers \ mixed'
               PROVE  HandInv!(u)'
    BY DEF HandInv
  <2>1. CASE u = t
    BY <1>3, <2>1
  <2>2. CASE u # t
    <3>1. HandInv!(u) /\ pc'[u] = pc[u] /\ arg'[u] = arg[u]
      BY <1>7, <1>10, <2>2 DEF HandInv
    <3>2. pc[u] = "clear" => kfd[arg[u].fd] \in Files \cup {NULL}
      BY DEF ArgOK, TypeOK
    <3>3. pc[u] = "clear" /\ kfd[arg[u].fd] # NULL => ~Described(kfd[arg[u].fd])'
      BY <1>2, <1>6, <3>1, <3>2 DEF Described
    <3> QED
      BY <1>2, <3>1, <3>3
  <2> QED
    BY <2>1, <2>2
<1>21. TableInv'
  <2> SUFFICES ASSUME NEW m \in Fds, m \notin raced, Quiet(m)'
               PROVE  TableInv!(m)!2'
    BY <1>2 DEF TableInv
  <2>1. Quiet(m)
    BY <1>3, <1>9, OnlyOthers DEF Quiet
  <2>2. TableInv!(m)!2 /\ kfd[m] \in Files \cup {NULL}
    BY <2>1 DEF TableInv, TypeOK
  <2> QED
    BY <1>2, <1>6, <2>2 DEF Described
<1>22. RecordInv'
  <2>1. RecordInv!1'
    <3> SUFFICES ASSUME NEW h \in Files, Described(h)'
                 PROVE  RecordInv!1!(h)!2'
      OBVIOUS
    <3>1. RecordInv!1!(h)!2 /\ (h \notin blurred' => h \notin blurred)
      BY <1>12, <1>13 DEF RecordInv
    <3>2. (\E u \in Callers : pc[u] = "setfl" /\ arg[u].file = h)
           => \E u \in Callers : pc'[u] = "setfl" /\ arg'[u].file = h
      BY <1>2, <1>7
    <3> QED
      BY <1>2, <1>6, <3>1, <3>2 DEF FdTypeIs, TypeIs, NonblockIs
  <2>2. RecordInv!2'
    BY <1>2, <1>3, <1>7, <1>12 DEF RecordInv, FdTypeIs, TypeIs, NonblockIs, ArgOK
  <2> QED
    BY <2>1, <2>2 DEF RecordInv
<1>23. SettingInv'
  <2> SUFFICES ASSUME NEW u \in Callers \ mixed'
               PROVE  SettingInv!(u)'
    BY DEF SettingInv
  <2>1. CASE u = t
    BY <1>3, <2>1
  <2>2. CASE u # t
    <3>1. SettingInv!(u) /\ pc'[u] = pc[u] /\ arg'[u] = arg[u]
      BY <1>7, <1>10, <2>2 DEF SettingInv
    <3>2. pc[u] = "setfl" => arg[u].file \in Files
      BY DEF ArgOK
    <3> QED
      BY <1>2, <1>6, <1>12, <3>1, <3>2 DEF Described
  <2> QED
    BY <2>1, <2>2
<1>24. AcceptInv'
  <2> SUFFICES ASSUME NEW u \in Callers
               PROVE  AcceptInv!(u)'
    BY DEF AcceptInv
  <2>1. CASE u = t
    BY <1>3, <2>1
  <2>2. CASE u # t
    <3>1. AcceptInv!(u) /\ pc'[u] = pc[u] /\ arg'[u] = arg[u] /\ (u \notin mixed' => u \notin mixed)
      BY <1>7, <1>10, <2>2 DEF AcceptInv
    <3>2. /\ pc[u] \in {"accept", "accepted"} => arg[u].listener \in Files
          /\ pc[u] = "accepted" => arg[u].file \in Files
      BY DEF ArgOK
    <3> QED
      BY <1>2, <1>6, <1>12, <3>1, <3>2 DEF Described, NonblockIs
  <2> QED
    BY <2>1, <2>2
<1>25. TimeInv'
  <2> SUFFICES ASSUME NEW h \in Files \ blurred', NEW d \in Dirs, Described(h)'
               PROVE  \/ desc'[h].timeout[d] = ToInt(asked[h][d])
                      \/ \E u \in Callers : pc'[u] = "settimeout" /\ arg'[u].file = h /\ arg'[u].dir = d
    <3>1. \A h \in Files, d \in Dirs : ToInt(asked[h][d])' = ToInt(asked[h][d])
      BY <1>2 DEF ToInt
    <3> QED
      BY <3>1 DEF TimeInv
  <2>1. TimeInv!(h, d)!2
    BY <1>12, <1>13 DEF TimeInv
  <2>2. CASE h = f /\ d = e
    <3>1. t \notin mixed /\ g = f
      BY <1>11, <1>12, <1>13, <2>2
    <3> QED
      BY <1>4, <1>6, <1>11, <2>2, <3>1
  <2>3. CASE ~(h = f /\ d = e)
    <3>1. desc'[h].timeout[d] = desc[h].timeout[d]
      <4>1. CASE h = g
        BY <1>4, <1>6, <1>11, <1>12, <2>3, <4>1, FdAssumption
      <4>2. CASE h # g
        BY <1>6, <4>2
      <4> QED
        BY <4>1, <4>2
    <3>2. (\E u \in Callers : pc[u] = "settimeout" /\ arg[u].file = h /\ arg[u].dir = d)
           => \E u \in Callers : pc'[u] = "settimeout" /\ arg'[u].file = h /\ arg'[u].dir = d
      BY <1>1, <1>7, <2>3
    <3> QED
      BY <2>1, <3>1, <3>2
  <2> QED
    BY <2>2, <2>3
<1> QED
  BY <1>14, <1>15, <1>16, <1>17, <1>18, <1>19, <1>20, <1>21, <1>22, <1>23, <1>24, <1>25 DEF Inv

-----------------------------------------------------------------------------
(* The theorems *)

\* Before the first call the invariant holds.
LEMMA InitInv == Init => TypeOK /\ Inv
<1> SUFFICES ASSUME Init PROVE TypeOK /\ Inv
  OBVIOUS
<1>1. TypeOK
  BY ZeroTime DEF Init, TypeOK, NoFile, NoDesc, FdDesc
<1>2. /\ \A t \in Callers : pc[t] = "idle"
      /\ \A n \in Fds : kfd[n] = NULL /\ fds[n] = NULL
      /\ \A f \in Files : desc[f].fdType = "none" /\ kfile[f].kind = "none" /\ asked[f] = Zero
      /\ unseen = {} /\ flagged = {} /\ misread = {} /\ mixed = {} /\ raced = {} /\ blurred = {}
  BY DEF Init, NoDesc, FdDesc, NoFile
<1>3. ArgOK
  BY ZeroTime DEF Init, ArgOK
<1>4. UsedInv /\ SeenInv /\ NewInv
  BY <1>2 DEF UsedInv, SeenInv, NewInv, Described, Pending
<1>5. CrossInv /\ HandInv
  BY <1>2 DEF CrossInv, HandInv, Reads, Writes, Works
<1>6. TableInv
  BY <1>2 DEF TableInv
<1>7. RecordInv /\ SettingInv /\ AcceptInv /\ TimeInv
  BY <1>2 DEF RecordInv, SettingInv, AcceptInv, TimeInv, Described
<1> QED
  BY <1>1, <1>3, <1>4, <1>5, <1>6, <1>7 DEF Inv

\* Every step of a call keeps the invariant.
LEMMA NextInv == ASSUME TypeOK, Inv, [Next]_vars PROVE TypeOK' /\ Inv'
<1>1. CASE UNCHANGED vars
  <2> USE <1>1 DEF vars, kernel, table, faults, races
  <2>1. TypeOK' /\ ArgOK'
    BY DEF TypeOK, Inv, ArgOK
  <2>2. UsedInv' /\ SeenInv' /\ NewInv'
    BY DEF Inv, UsedInv, SeenInv, NewInv, Described, Pending
  <2>3. CrossInv' /\ HandInv' /\ TableInv'
    BY DEF Inv, CrossInv, HandInv, TableInv, Quiet, Described, Writes, Reads, Works
  <2>4. RecordInv' /\ SettingInv' /\ AcceptInv'
    BY DEF Inv, RecordInv, SettingInv, AcceptInv, Described, FdTypeIs, TypeIs, NonblockIs
  <2>5. TimeInv'
    BY DEF Inv, TimeInv, Described, ToInt
  <2> QED
    BY <2>1, <2>2, <2>3, <2>4, <2>5 DEF Inv
<1>2. CASE Next
  <2>1. PICK t \in Callers : Next!(t)
    BY <1>2 DEF Next
  <2>2. CASE \E b \in BOOLEAN : OpenCall(t, b) \/ AcceptPlain(t, b)
    BY <2>2, OpenStep, AcceptPlainStep DEF Inv
  <2>3. CASE \E k \in {"stream", "dgram"}, b, c \in BOOLEAN : SocketCall(t, k, b, c)
    BY <2>3, SocketStep
  <2>4. CASE \E n \in Fds, b \in BOOLEAN : AcceptCall(t, n, b) \/ SetFlCall(t, n, b)
    BY <2>4, AcceptCallStep, SetFlCallStep DEF Inv
  <2>5. CASE AcceptDone(t) \/ AcceptStore(t)
    BY <2>5, AcceptDoneStep, AcceptStoreStep
  <2>6. CASE OpenStore(t) \/ CloseClear(t) \/ DupCopy(t) \/ SetFlKernel(t) \/ SetTimeoutTable(t)
    BY <2>6, OpenStoreStep, CloseClearStep, DupCopyStep, SetFlKernelStep, SetTimeoutTableStep DEF Inv
  <2>7. CASE \E n \in Fds : CloseCall(t, n)
    BY <2>7, CloseCallStep DEF Inv
  <2>8. CASE \E n, m \in Fds : DupCall(t, n, m)
    BY <2>8, DupCallStep DEF Inv
  <2>9. CASE \E n \in Fds, d \in Dirs, x \in Times : SetTimeoutCall(t, n, d, x)
    BY <2>9, SetTimeoutCallStep DEF Inv
  <2> QED
    BY <2>1, <2>2, <2>3, <2>4, <2>5, <2>6, <2>7, <2>8, <2>9
<1> QED
  BY <1>1, <1>2

\* TypeOK and the invariant hold throughout.
LEMMA Invariance == Spec => [](TypeOK /\ Inv)
<1>1. TypeOK /\ Inv /\ [Next]_vars => TypeOK' /\ Inv'
  BY NextInv
<1> QED
  BY <1>1, InitInv, PTL DEF Spec

\* A settled number is quiet, and its entry is the kernel's.
LEMMA SettledEntry ==
  ASSUME TypeOK, Inv, NEW n \in Settled
  PROVE  /\ n \in Fds /\ Quiet(n) /\ fds[n] \in {NULL, kfd[n]}
         /\ kfd[n] # NULL /\ Described(kfd[n]) => fds[n] = kfd[n]
  BY DEF Inv, TableInv, Settled, Quiet

\* Every variable of the descriptor table and of the kernel's keeps its type; the
\* timeouts of an FdDesc stay within an int whatever setsockopt was given.
THEOREM Typing == Spec => []TypeOK
  BY Invariance, PTL

\* With any number of threads, coroutines, descriptors and files, and no lock, an
\* entry of fds outlives its descriptor only where two calls overlapped on that
\* number, and then no longer than until the next call that writes it alone.
THEOREM NoStale == Spec => []NoStaleEntry
<1>1. TypeOK /\ Inv => NoStaleEntry
  BY SettledEntry DEF NoStaleEntry
<1> QED
  BY <1>1, Invariance, PTL

\* ... and every hooked call suspends exactly when the kernel would block, or, of
\* the files the code does not learn the truth of, exactly as it misjudges them.
THEOREM Decision == Spec => []HookDecision
<1>1. ASSUME TypeOK, Inv PROVE HookDecision
  <2> SUFFICES ASSUME NEW n \in Settled, kfd[n] \in Sharp \cup {NULL}, NEW op \in Ops,
                      NEW w \in BOOLEAN
               PROVE  Hooked(op, n, w) <=>
                        /\ kfd[n] # NULL /\ kfd[n] \notin unseen
                        /\ op \notin {"read", "write"} => kfile[kfd[n]].kind # "file"
                        /\ op = "connect" => kfile[kfd[n]].kind = "stream" /\ kfd[n] \notin flagged
                        /\ op = "accept" \/ (kfile[kfd[n]].nonblock <=> kfd[n] \in misread)
                        /\ op \in Msg => ~w
    BY DEF HookDecision
  <2>1. /\ n \in Fds /\ Quiet(n) /\ fds[n] \in {NULL, kfd[n]}
        /\ kfd[n] # NULL /\ Described(kfd[n]) => fds[n] = kfd[n]
    BY <1>1, SettledEntry
  <2>2. CASE kfd[n] = NULL
    BY <2>1, <2>2 DEF Hooked
  <2>3. CASE kfd[n] # NULL
    <3>1. PICK f \in Files : f = kfd[n] /\ f # NULL
      BY <1>1, <2>1, <2>3 DEF TypeOK
    <3>2. /\ f \notin blurred /\ \A t \in Callers : f \notin Works(t)
          /\ ~\E t \in Callers : pc[t] = "setfl" /\ arg[t].file = f
      BY <2>3, <3>1 DEF Sharp, Works
    <3>3. kfile[f] \in FileType /\ desc[f] \in DescType /\ kfile[f].kind # "none"
      BY <1>1, <2>1, <2>3, <3>1 DEF Inv, UsedInv, TypeOK, FileType, DescType
    <3>4. kfile[f].kind \in {"file", "stream", "dgram"} /\ kfile[f].nonblock \in BOOLEAN
      BY <3>3 DEF FileType
    <3>5. CASE f \in unseen
      <4>1. ~Described(f)
        BY <1>1, <3>5 DEF Inv, SeenInv
      <4>2. fds[n] = NULL
        BY <1>1, <2>1, <3>1, <4>1 DEF Inv, SeenInv
      <4> QED
        BY <3>1, <3>5, <4>2 DEF Hooked
    <3>6. CASE f \notin unseen
      <4>1. ~\E t \in Callers : Pending(t) /\ arg[t].file = f
        <5>1. ASSUME NEW t \in Callers, Pending(t), arg[t].file = f PROVE FALSE
          <6>1. arg[t].fd = n
            BY <1>1, <2>1, <3>1, <5>1 DEF Inv, NewInv
          <6> QED
            BY <2>1, <5>1, <6>1 DEF Quiet, Writes, Pending
        <5> QED
          BY <5>1
      <4>2. Described(f)
        BY <1>1, <3>3, <3>6, <4>1 DEF Inv, SeenInv
      <4>3. fds[n] = f
        BY <2>1, <2>3, <3>1, <4>2
      <4>4. FdTypeIs(desc[f], f) /\ TypeIs(desc[f], f) /\ NonblockIs(desc[f].nonblock, f)
        BY <1>1, <3>2, <4>2 DEF Inv, RecordInv
      <4>5. desc[f].nonblock \in BOOLEAN
        BY <3>3 DEF DescType
      <4>6. ~desc[f].nonblock <=> (kfile[f].nonblock <=> f \in misread)
        BY <3>4, <4>4, <4>5 DEF NonblockIs
      <4>7. /\ desc[f].fdType = "tSocket" <=> kfile[f].kind # "file"
            /\ kfile[f].kind # "file" =>
                 (desc[f].type = "stream" <=> (kfile[f].kind = "stream" /\ f \notin flagged))
        BY <3>4, <4>4 DEF FdTypeIs, TypeIs
      <4>8. CASE op = "connect"
        BY <3>1, <3>6, <4>3, <4>6, <4>7, <4>8 DEF Hooked, HookedConnect, IsTcpSocket, Msg
      <4>9. CASE op = "accept"
        BY <3>1, <3>6, <4>3, <4>7, <4>9 DEF Hooked, HookedAccept, Msg
      <4>10. CASE op \in {"read", "write"}
        BY <3>1, <3>6, <4>3, <4>6, <4>10 DEF Hooked, HookedData, Msg
      <4>11. CASE op \in Msg
        BY <3>1, <3>6, <4>3, <4>6, <4>7, <4>11 DEF Hooked, HookedMsg, Msg
      <4> QED
        BY <4>8, <4>9, <4>10, <4>11 DEF Ops
    <3> QED
      BY <3>5, <3>6
  <2> QED
    BY <2>2, <2>3
<1> QED
  BY <1>1, Invariance, PTL

\* The seconds and nanoseconds of a timespec are the microseconds it was made of.
LEMMA TimespecExact ==
  ASSUME NEW v \in Int
  PROVE  /\ Quot(v) \in Int /\ Quot(v) * Unit \in Int
         /\ ((v - Quot(v) * Unit) * 1000) \div 1000 = v - Quot(v) * Unit
         /\ v >= 0 => Quot(v) >= 0 /\ (v - Quot(v) * Unit) * 1000 >= 0
<1>1. Unit \in Nat /\ Unit > 0
  BY IntAssumption
<1>2. Quot(v) \in Int
  BY <1>1 DEF Quot
<1>3. Quot(v) * Unit \in Int
  BY <1>1, <1>2
<1>4. \A i \in Int : (i * 1000) \div 1000 = i
  OBVIOUS
<1>5. v >= 0 => Quot(v) >= 0 /\ v - Quot(v) * Unit >= 0
  <2> SUFFICES ASSUME v >= 0 PROVE Quot(v) >= 0 /\ v - Quot(v) * Unit >= 0
    OBVIOUS
  <2>1. Quot(v) = v \div Unit
    BY DEF Quot
  <2>2. v \div Unit >= 0
    BY <1>1
  <2>3. v % Unit \in 0 .. Unit - 1 /\ v = (v % Unit) + (v \div Unit) * Unit
    BY <1>1, Division
  <2>4. PICK p \in Int : p = Quot(v) * Unit
    BY <1>3
  <2>5. v = (v % Unit) + p
    BY <2>1, <2>3, <2>4
  <2>6. v - p >= 0
    BY <2>3, <2>5
  <2> QED
    BY <2>1, <2>2, <2>4, <2>6
<1>6. PICK d \in Int : d = v - Quot(v) * Unit
  BY <1>3
<1>7. (d * 1000) \div 1000 = d /\ (d >= 0 => d * 1000 >= 0)
  BY <1>4
<1> QED
  BY <1>2, <1>3, <1>5, <1>6, <1>7

\* ... and every hooked call on a socket is timed, to the microsecond, by what was
\* last asked for its direction, or by what the int makes of it if it is too long.
THEOREM Timeouts == Spec => []TimeoutExact
<1>1. ASSUME TypeOK, Inv PROVE TimeoutExact
  <2> SUFFICES ASSUME NEW n \in Settled, NEW d \in Dirs, fds[n] # NULL, kfd[n] \in Sharp
               PROVE  TimeoutExact!(n, d)!2
    BY DEF TimeoutExact
  <2>1. PICK f \in Files : f = kfd[n] /\ f = fds[n] /\ Described(f)
    BY <1>1, SettledEntry DEF Inv, SeenInv, Sharp
  <2>2. PICK due \in Nat : due = asked[f][d]
    <3>1. asked[f][d] \in Times \cup {0}
      BY <1>1 DEF Inv, ArgOK
    <3> QED
      BY <3>1, IntAssumption
  <2>3. PICK v \in Int : v = desc[f].timeout[d] /\ v = ToInt(due)
    <3>1. f \notin blurred /\ ~\E t \in Callers : pc[t] = "settimeout" /\ arg[t].file = f
      BY <2>1 DEF Sharp, Works
    <3>2. desc[f].timeout[d] = ToInt(due)
      BY <1>1, <2>1, <2>2, <3>1 DEF Inv, TimeInv
    <3> QED
      BY <2>2, <3>2, IntRange, IntAssumption
  <2>4. v \in -(IntMax + 1) .. IntMax /\ (due <= IntMax => v = due)
    BY <2>2, <2>3, IntRange, IntExact, IntAssumption
  <2>5. \E k \in 0 .. due : due = v + k * (2 * (IntMax + 1))
    BY <2>2, <2>3, IntWrap
  <2>6. PICK s \in Int, p \in Int : s = Quot(v) /\ p = Quot(v) * Unit
    BY <2>3, TimespecExact
  <2>7. Timespec(f, d) = [sec |-> s, nsec |-> (v - p) * 1000]
    BY <2>3, <2>6 DEF Timespec, GetSocketTimeout
  <2>8. ((v - p) * 1000) \div 1000 = v - p /\ (v >= 0 => s >= 0 /\ (v - p) * 1000 >= 0)
    BY <2>3, <2>6, TimespecExact
  <2>9. s * Unit + (v - p) = v
    BY <2>3, <2>6
  <2>10. due <= IntMax => v = due /\ s >= 0 /\ (v - p) * 1000 >= 0
    BY <2>2, <2>4, <2>8
  <2> QED
    BY <2>1, <2>2, <2>4, <2>5, <2>7, <2>8, <2>9, <2>10
<1> QED
  BY <1>1, Invariance, PTL

=============================================================================
