-------------------------- MODULE SchedulerProofs --------------------------
(***************************************************************************)
(* Proofs about Scheduler, for every number of Processers and clients and  *)
(* every bound: no task is lost or doubled, and a round of LoadBalance     *)
(* that nobody disturbs evens the queues out.                              *)
(*                                                                         *)
(* The inductive invariant IInv adds five parts to the types and to        *)
(* NoTaskLost: a Processer that was not launched has no thread (or its     *)
(* launch might take a task from one), tasks are in hand only during a     *)
(* theft (or the end of a round would drop them), a round begins to add up *)
(* at nothing, and, in a quiet round, what was added up so far and the     *)
(* average lie between the bounds, and what the tests of a pair found      *)
(* still holds, so that the theft at hand leaves both of its queues        *)
(* between the bounds.                                                     *)
(*                                                                         *)
(* What is said of all Processers' sum is proved from the smallest index   *)
(* at which it would be wrong.                                             *)
(***************************************************************************)
EXTENDS Scheduler, FiniteSetTheorems, SequenceTheorems, WellFoundedInduction, TLAPS

\* A Processer that was not launched has no thread.
LaunchInv == \A p \in Procs : p > processers => ppc[p] = "none"

\* LoadBalance has tasks in hand only between a Steal and the AddTask after it,
\* and then a source and a destination.
HandInv ==
  /\ mpc # "steal" => lb.hand = 0
  /\ mpc \in {"dest", "num", "steal"} => lb.rest # <<>> /\ lb.under # <<>>

\* A round begins with the first Processer and nothing added up.
BeginInv ==
  mpc \in {"before", "launch", "hand", "sleep"} \/ (mpc = "sum" /\ lb.at = 1) =>
    lb.at = 1 /\ lb.total = 0

\* What an undisturbed round knows once it has read a size: the sizes are those
\* of the queues, and what it has added up lies between the bounds.
Later  == {"sort", "pair", "dest", "num", "steal"}
Quiet  == round.quiet /\ (mpc \in Later \/ (mpc = "sum" /\ lb.at > 1))
Added(k) == k * round.low <= lb.total /\ lb.total <= k * round.peak
AverageInv ==
  Quiet =>
    /\ size = queue
    /\ mpc # "sum" => Added(N)
    /\ mpc = "sum" => Added(lb.at - 1)

\* The queues lie between the bounds, and still will when the theft at hand is
\* over; what was read of a source and a destination is still so.
Within(p) == round.low <= queue[p] /\ queue[p] <= round.peak
EvenInv ==
  Quiet =>
    /\ mpc # "steal" => \A p \in Procs : Within(p)
    /\ mpc \in {"dest", "num"} => Overloaded(queue[Source], lb.total)
    /\ mpc = "num" => Underloaded(queue[Dest], lb.total)
    /\ mpc = "steal" =>
         /\ Source # Dest /\ \A p \in Procs \ {Source, Dest} : Within(p)
         /\ round.low + lb.num <= queue[Source] /\ queue[Source] <= round.peak
         /\ round.low <= queue[Dest] /\ queue[Dest] + lb.hand + lb.num <= round.peak

-----------------------------------------------------------------------------
(* Sums over processers_ *)

\* A set of numbers that is not empty has a smallest element.
LEMMA NatMin == ASSUME NEW T, T \subseteq Nat, T # {}
                PROVE  \E x \in T : \A y \in T : x =< y
<1> DEFINE Lower == {ss \in Nat \X Nat : ss[1] < ss[2]}
<1>1. ASSUME NEW R, NEW S, T \subseteq S, IsWellFoundedOn(R, S)
      PROVE  \E x \in T : \A y \in T : ~(<<y, x>> \in R)
  BY ONLY <1>1, WFMin, T # {}
<1>2. IsWellFoundedOn(Lower, Nat)
  BY NatLessThanWellFounded, Zenon DEF OpToRel
<1>3. \A x, y \in Nat : y < x => <<y, x>> \in Lower
  OBVIOUS
<1> HIDE DEF Lower
<1>4. PICK x \in T : \A y \in T : ~(<<y, x>> \in Lower)
  BY ONLY <1>1, <1>2, T \subseteq Nat
<1>5. \A y \in T : ~(y < x)
  BY <1>3, <1>4
<1> QED
  BY <1>5

\* Induction over the Processers a loop has visited: a set of numbers up to N with
\* 0 and, with each number, the next one is all of them.
LEMMA Induction ==
  ASSUME NEW G, 0 \in G, \A i \in 1 .. N : i - 1 \in G => i \in G
  PROVE  \A i \in 0 .. N : i \in G
<1> DEFINE T == {i \in 0 .. N : i \notin G}
<1>1. SUFFICES T = {}
  OBVIOUS
<1>2. SUFFICES ASSUME T # {} PROVE FALSE
  OBVIOUS
<1>3. T \subseteq Nat
  BY NAssumption
<1>4. PICK x \in T : \A y \in T : x =< y
  BY <1>2, <1>3, NatMin
<1>5. x \in 0 .. N /\ x \notin G /\ x # 0
  BY <1>4
<1>6. x \in 1 .. N /\ x - 1 \in 0 .. N /\ ~(x =< x - 1)
  BY <1>5, NAssumption
<1>7. x - 1 \notin T
  BY <1>4, <1>6
<1> QED
  BY <1>5, <1>6, <1>7

\* A loop that starts with e and makes a step for each Processer, and the values
\* it has after them.
IsLoop(V, e, step) == e \in V /\ step \in [1 .. N -> [V -> V]]
Values(V, e, step, g) ==
  g \in [0 .. N -> V] /\ g[0] = e /\ \A i \in 1 .. N : g[i] = step[i][g[i - 1]]

\* Such values exist.
LEMMA LoopExists ==
  ASSUME NEW V, NEW e, NEW step, IsLoop(V, e, step)
  PROVE  \E g : Values(V, e, step, g)
<1>l. e \in V /\ step \in [1 .. N -> [V -> V]]
  BY DEF IsLoop
<1> DEFINE Upto(n, g) == g[0] = e /\ \A i \in 1 .. N : i <= n => g[i] = step[i][g[i - 1]]
           G == {n \in 0 .. N : \E g \in [0 .. N -> V] : Upto(n, g)}
<1>n. N \in Nat \ {0}
  BY NAssumption
<1>1. 0 \in G
  <2> DEFINE g == [i \in 0 .. N |-> e]
  <2>1. g \in [0 .. N -> V] /\ Upto(0, g) /\ 0 \in 0 .. N
    BY <1>l, <1>n
  <2> QED
    BY <2>1
<1>2. ASSUME NEW n \in 1 .. N, n - 1 \in G PROVE n \in G
  <2>1. PICK g \in [0 .. N -> V] : Upto(n - 1, g)
    BY <1>2
  <2>2. n \in 0 .. N /\ n - 1 \in 0 .. N
    BY <1>n
  <2> DEFINE h == [g EXCEPT ![n] = step[n][g[n - 1]]]
  <2>3. step[n][g[n - 1]] \in V
    BY <1>l, <2>2
  <2>4. h \in [0 .. N -> V] /\ h[n] = step[n][g[n - 1]] /\ \A i \in 0 .. N : i # n => h[i] = g[i]
    BY <2>2, <2>3
  <2> HIDE DEF h
  <2>5. ASSUME NEW i \in 1 .. N, i <= n PROVE h[i] = step[i][h[i - 1]]
    <3>1. i - 1 \in 0 .. N /\ i \in 0 .. N /\ i - 1 # n
      BY <1>n, <2>5
    <3>2. h[i - 1] = g[i - 1]
      BY <2>4, <3>1
    <3>3. CASE i = n
      BY <2>4, <3>2, <3>3
    <3>4. CASE i # n
      <4>1. i <= n - 1
        BY <1>n, <2>5, <3>4
      <4> QED
        BY <2>1, <2>4, <3>1, <3>2, <3>4, <4>1
    <3> QED
      BY <3>3, <3>4
  <2>6. h[0] = e
    <3>1. 0 \in 0 .. N /\ 0 # n
      BY <1>n
    <3> QED
      BY <2>1, <2>4, <3>1
  <2>7. Upto(n, h)
    BY <2>5, <2>6
  <2> QED
    BY <2>2, <2>4, <2>7
<1> HIDE DEF G
<1>3. N \in G
  <2>1. N \in 0 .. N
    BY <1>n
  <2> QED
    BY <1>1, <1>2, <2>1, Induction
<1>4. PICK g \in [0 .. N -> V] : Upto(N, g)
  BY <1>3 DEF G
<1>5. \A i \in 1 .. N : i <= N
  BY <1>n
<1> QED
  BY <1>4, <1>5 DEF Values

\* What the loop that adds up has after each Processer.
LEMMA SumsFacts ==
  ASSUME NEW f \in [Procs -> Int]
  PROVE  /\ Sums(f) \in [0 .. N -> Int] /\ Sums(f)[0] = 0
         /\ \A i \in 1 .. N : Sums(f)[i] = Sums(f)[i - 1] + f[i]
<1> DEFINE Body(g) == [i \in 0 .. N |-> IF i = 0 THEN 0 ELSE g[i - 1] + f[i]]
<1>n. N \in Nat \ {0}
  BY NAssumption
<1>1. PICK step \in [1 .. N -> [Int -> Int]] : \A i \in 1 .. N, v \in Int : step[i][v] = v + f[i]
  <2> DEFINE st == [i \in 1 .. N |-> [v \in Int |-> v + f[i]]]
  <2>1. st \in [1 .. N -> [Int -> Int]] /\ \A i \in 1 .. N, v \in Int : st[i][v] = v + f[i]
    BY DEF Procs
  <2> QED
    BY <2>1
<1>2. PICK g \in [0 .. N -> Int] : g[0] = 0 /\ \A i \in 1 .. N : g[i] = step[i][g[i - 1]]
  <2>1. IsLoop(Int, 0, step)
    BY DEF IsLoop
  <2>2. PICK g : Values(Int, 0, step, g)
    BY <2>1, LoopExists
  <2> QED
    BY <2>2 DEF Values
<1>3. \A i \in 1 .. N : i - 1 \in 0 .. N /\ g[i - 1] \in Int /\ g[i] = g[i - 1] + f[i]
  <2>1. \A i \in 1 .. N : i - 1 \in 0 .. N
    BY <1>n
  <2> QED
    BY <1>1, <1>2, <2>1
<1>4. g = Body(g)
  <2>1. ASSUME NEW i \in 0 .. N PROVE g[i] = Body(g)[i]
    <3>1. CASE i = 0
      BY <1>2, <3>1
    <3>2. CASE i # 0
      <4>1. i \in 1 .. N
        BY <1>n, <3>2
      <4> QED
        BY <1>3, <3>2, <4>1
    <3> QED
      BY <3>1, <3>2
  <2> QED
    BY <2>1
<1>5. Sums(f) = CHOOSE h : h = Body(h)
  BY DEF Sums
<1>6. Sums(f) = Body(Sums(f))
  BY <1>4, <1>5
<1>7. Sums(f)[0] = 0 /\ \A i \in 1 .. N : Sums(f)[i] = Sums(f)[i - 1] + f[i]
  <2>1. PICK s : s = Sums(f)
    OBVIOUS
  <2>2. \A i \in 0 .. N : s[i] = IF i = 0 THEN 0 ELSE s[i - 1] + f[i]
    BY <1>6, <2>1
  <2>3. 0 \in 0 .. N /\ \A i \in 1 .. N : i \in 0 .. N /\ i # 0
    BY <1>n
  <2> QED
    BY <2>1, <2>2, <2>3
<1>8. Sums(f) \in [0 .. N -> Int]
  <2> DEFINE G == {i \in 0 .. N : Sums(f)[i] \in Int}
  <2>1. 0 \in G
    <3>1. 0 \in 0 .. N
      BY <1>n
    <3> QED
      BY <1>7, <3>1
  <2>2. ASSUME NEW i \in 1 .. N, i - 1 \in G PROVE i \in G
    <3>1. i \in 0 .. N /\ f[i] \in Int /\ Sums(f)[i - 1] \in Int
      BY <1>n, <2>2 DEF Procs
    <3> QED
      BY <1>7, <3>1
  <2> HIDE DEF G
  <2>3. \A i \in 0 .. N : i \in G
    BY <2>1, <2>2, Induction
  <2> QED
    BY <1>6, <2>3 DEF G
<1> QED
  BY <1>7, <1>8

\* The sum is an integer.
LEMMA SumType ==
  ASSUME NEW f \in [Procs -> Int]
  PROVE  Sum(f) \in Int
<1>1. N \in 0 .. N
  BY NAssumption
<1> QED
  BY <1>1, SumsFacts DEF Sum

\* A queue that grows or shrinks by k changes the sum of the queues by k.
LEMMA SumChange ==
  ASSUME NEW f \in [Procs -> Int], NEW g \in [Procs -> Int], NEW p \in Procs, NEW k \in Int,
         g[p] = f[p] + k, \A q \in Procs : q # p => g[q] = f[q]
  PROVE  Sum(g) = Sum(f) + k
<1> DEFINE G == {i \in 0 .. N : Sums(g)[i] = Sums(f)[i] + (IF i < p THEN 0 ELSE k)}
<1>n. N \in Nat \ {0} /\ p \in 1 .. N
  BY NAssumption DEF Procs
<1>1. /\ Sums(f) \in [0 .. N -> Int] /\ Sums(f)[0] = 0
      /\ \A i \in 1 .. N : Sums(f)[i] = Sums(f)[i - 1] + f[i]
  BY SumsFacts
<1>2. /\ Sums(g) \in [0 .. N -> Int] /\ Sums(g)[0] = 0
      /\ \A i \in 1 .. N : Sums(g)[i] = Sums(g)[i - 1] + g[i]
  BY SumsFacts
<1>3. 0 \in G
  BY <1>1, <1>2, <1>n
<1>4. ASSUME NEW i \in 1 .. N, i - 1 \in G PROVE i \in G
  <2>1. i \in 0 .. N /\ i - 1 \in 0 .. N /\ i \in Procs /\ i \in Int /\ p \in Int
    BY <1>n DEF Procs
  <2>2. Sums(f)[i - 1] \in Int /\ f[i] \in Int /\ g[i] \in Int /\ f[p] \in Int
    BY <1>1, <2>1
  <2>3. /\ Sums(g)[i - 1] = Sums(f)[i - 1] + (IF i - 1 < p THEN 0 ELSE k)
        /\ Sums(f)[i] = Sums(f)[i - 1] + f[i] /\ Sums(g)[i] = Sums(g)[i - 1] + g[i]
    BY <1>1, <1>2, <1>4
  <2>4. CASE i < p
    <3>1. g[i] = f[i] /\ i - 1 < p
      BY <2>1, <2>4
    <3> QED
      BY <2>1, <2>2, <2>3, <2>4, <3>1
  <2>5. CASE i = p
    <3>1. g[i] = f[i] + k /\ i - 1 < p /\ ~(i < p)
      BY <2>1, <2>5
    <3> QED
      BY <2>1, <2>2, <2>3, <3>1
  <2>6. CASE i > p
    <3>1. g[i] = f[i] /\ ~(i - 1 < p) /\ ~(i < p)
      BY <2>1, <2>6
    <3> QED
      BY <2>1, <2>2, <2>3, <3>1
  <2> QED
    BY <2>1, <2>4, <2>5, <2>6
<1> HIDE DEF G
<1>5. N \in G
  <2>1. N \in 0 .. N
    BY <1>n
  <2> QED
    BY <1>3, <1>4, <2>1, Induction
<1>6. ~(N < p)
  BY <1>n
<1> QED
  BY <1>5, <1>6 DEF G, Sum

\* A sum lies between N times a lower and N times an upper bound of what is added.
LEMMA SumBounds ==
  ASSUME NEW f \in [Procs -> Int], NEW l \in Int, NEW h \in Int,
         \A p \in Procs : l <= f[p] /\ f[p] <= h
  PROVE  N * l <= Sum(f) /\ Sum(f) <= N * h
<1> DEFINE G == {i \in 0 .. N : i * l <= Sums(f)[i] /\ Sums(f)[i] <= i * h}
<1>n. N \in Nat \ {0}
  BY NAssumption
<1>1. /\ Sums(f) \in [0 .. N -> Int] /\ Sums(f)[0] = 0
      /\ \A i \in 1 .. N : Sums(f)[i] = Sums(f)[i - 1] + f[i]
  BY SumsFacts
<1>2. 0 \in G
  BY <1>1, <1>n
<1>3. ASSUME NEW i \in 1 .. N, i - 1 \in G PROVE i \in G
  <2>1. i \in 0 .. N /\ i - 1 \in 0 .. N /\ i \in Procs /\ i \in Int
    BY <1>n DEF Procs
  <2>2. Sums(f)[i - 1] \in Int /\ f[i] \in Int /\ l <= f[i] /\ f[i] <= h
    BY <1>1, <2>1
  <2>3. /\ (i - 1) * l <= Sums(f)[i - 1] /\ Sums(f)[i - 1] <= (i - 1) * h
        /\ Sums(f)[i] = Sums(f)[i - 1] + f[i]
    BY <1>1, <1>3
  <2>4. (i - 1) * l = i * l - l /\ (i - 1) * h = i * h - h /\ i * l \in Int /\ i * h \in Int
    BY <2>1
  <2>5. i * l <= Sums(f)[i] /\ Sums(f)[i] <= i * h
    BY <2>2, <2>3, <2>4
  <2> QED
    BY <2>1, <2>5
<1> HIDE DEF G
<1>4. N \in G
  <2>1. N \in 0 .. N
    BY <1>n
  <2> QED
    BY <1>2, <1>3, <2>1, Induction
<1> QED
  BY <1>4 DEF G, Sum

\* The Processer after p, and the first one after the last.
LEMMA NextFacts ==
  ASSUME NEW p \in Procs
  PROVE  /\ (p % N) + 1 \in Procs
         /\ p = N => (p % N) + 1 = 1
         /\ p # N => (p % N) + 1 = p + 1
<1>n. N \in Nat \ {0} /\ p \in 1 .. N
  BY NAssumption DEF Procs
<1>1. p = N => p % N = 0
  BY <1>n
<1>2. p # N => p % N = p
  BY <1>n
<1> QED
  BY <1>n, <1>1, <1>2 DEF Procs

\* The longest and the shortest queue.
LEMMA Extremes ==
  ASSUME NEW f \in [Procs -> Nat]
  PROVE  /\ Max(Range(f)) \in Nat /\ Min(Range(f)) \in Nat
         /\ \A p \in Procs : Min(Range(f)) <= f[p] /\ f[p] <= Max(Range(f))
<1> DEFINE R == {f[p] : p \in Procs}
           G == {i \in 0 .. N : i = 0 \/ \E p \in 1 .. i : \A q \in 1 .. i : f[p] >= f[q]}
<1>n. N \in Nat \ {0} /\ Procs = 1 .. N
  BY NAssumption DEF Procs
<1>1. Range(f) = R /\ R \subseteq Nat /\ \A p \in Procs : f[p] \in R
  BY DEF Range
<1>2. 0 \in G
  BY <1>n
<1>3. ASSUME NEW i \in 1 .. N, i - 1 \in G PROVE i \in G
  <2>1. i \in 0 .. N /\ \A q \in 1 .. i : q \in Procs /\ (q = i \/ q \in 1 .. i - 1)
    BY <1>n
  <2>2. i \in 1 .. i
    BY <1>n
  <2>3. CASE i = 1
    <3>1. \A q \in 1 .. i : f[i] >= f[q]
      BY <1>n, <2>3
    <3> QED
      BY <2>1, <2>2, <3>1
  <2>4. CASE i # 1
    <3>1. PICK p \in 1 .. i - 1 : \A q \in 1 .. i - 1 : f[p] >= f[q]
      BY <1>3, <1>n, <2>4
    <3>2. p \in 1 .. i /\ f[p] \in Nat /\ f[i] \in Nat /\ \A q \in 1 .. i : f[q] \in Nat
      BY <1>n, <2>1
    <3>3. CASE f[p] >= f[i]
      <4>1. \A q \in 1 .. i : f[p] >= f[q]
        BY <2>1, <3>1, <3>3
      <4> QED
        BY <2>1, <3>2, <4>1
    <3>4. CASE f[i] > f[p]
      <4>1. \A q \in 1 .. i : f[i] >= f[q]
        BY <2>1, <3>1, <3>2, <3>4
      <4> QED
        BY <2>1, <2>2, <4>1
    <3> QED
      BY <3>2, <3>3, <3>4
  <2> QED
    BY <2>3, <2>4
<1>4. \E p \in Procs : \A q \in Procs : f[p] >= f[q]
  <2> HIDE DEF G
  <2>1. N \in 0 .. N
    BY <1>n
  <2>2. N \in G
    BY <1>2, <1>3, <2>1, Induction
  <2> QED
    BY <1>n, <2>2 DEF G
<1>5. \E x \in R : \A y \in R : x >= y
  BY <1>4
<1>6. \E x \in R : \A y \in R : x =< y
  <2>1. 1 \in Procs
    BY <1>n
  <2>2. R # {}
    BY <1>1, <2>1
  <2> HIDE DEF R
  <2> QED
    BY <1>1, <2>2, NatMin
<1> HIDE DEF R
<1>7. Max(R) \in R /\ \A y \in R : Max(R) >= y
  BY <1>5 DEF Max
<1>8. Min(R) \in R /\ \A y \in R : Min(R) =< y
  BY <1>6 DEF Min
<1> QED
  BY <1>1, <1>7, <1>8

-----------------------------------------------------------------------------
(* Types *)

\* The parts of TypeOK.
Kinds == {"add", "spawn", "hog", "stop"}
Labels == {"before", "launch", "hand", "sleep", "sum", "sort", "pair", "dest", "num", "steal",
           "end"}
LBs == [at : Procs, total : Int, over : Seq(Procs), under : Seq(Procs), rest : Seq(Procs),
        num : Nat, hand : Nat]
SchedTypes == blocks \in BOOLEAN /\ processers \in 0 .. N /\ temp \in Nat /\ idx \in Nat /\ stop \in BOOLEAN
QueueTypes == queue \in [Procs -> Nat] /\ size \in [Procs -> Int]
ProcTypes  == /\ pstop \in [Procs -> BOOLEAN]
              /\ ppc \in [Procs -> {"none", "loop", "count", "run", "hog", "end"}]
ClientTypes == cpc \in [Clients -> {"idle", "temp", "count"}] /\ target \in [Clients -> 0 .. N]
LbTypes    == mpc \in Labels /\ lb \in LBs
CountTypes == calls \in [Kinds -> Nat] /\ ran \in Nat
RoundTypes == round \in [quiet : BOOLEAN, peak : Nat, low : Nat]
Types == /\ SchedTypes /\ QueueTypes /\ ProcTypes /\ ClientTypes /\ LbTypes /\ CountTypes
         /\ RoundTypes

\* The parts together are TypeOK.
LEMMA TypesOK == Types <=> TypeOK
  BY DEF Types, SchedTypes, QueueTypes, ProcTypes, ClientTypes, LbTypes, CountTypes, RoundTypes,
         TypeOK, Kinds, Labels, LBs

\* What a step leaves alone.
SchedSame  == blocks' = blocks /\ processers' = processers /\ temp' = temp /\ idx' = idx /\ stop' = stop
QueueSame  == queue' = queue /\ size' = size
ProcSame   == pstop' = pstop /\ ppc' = ppc
ClientSame == cpc' = cpc /\ target' = target
LbSame     == mpc' = mpc /\ lb' = lb
CountSame  == calls' = calls /\ ran' = ran

\* What a step leaves alone keeps its type.
LEMMA SameTypes ==
  ASSUME Types
  PROVE  /\ SchedSame => SchedTypes'
         /\ QueueSame => QueueTypes'
         /\ ProcSame => ProcTypes'
         /\ ClientSame => ClientTypes'
         /\ LbSame => LbTypes'
         /\ CountSame => CountTypes'
         /\ round' = round => RoundTypes'
         /\ round' = Unset => RoundTypes'
<1>1. SchedSame => SchedTypes'
  BY DEF Types, SchedTypes, SchedSame
<1>2. QueueSame => QueueTypes'
  BY DEF Types, QueueTypes, QueueSame
<1>3. ProcSame => ProcTypes'
  BY DEF Types, ProcTypes, ProcSame
<1>4. ClientSame => ClientTypes'
  BY DEF Types, ClientTypes, ClientSame
<1>5. LbSame => LbTypes'
  BY DEF Types, LbTypes, LbSame
<1>6. CountSame => CountTypes'
  BY DEF Types, CountTypes, CountSame
<1>7. round' = round => RoundTypes'
  BY DEF Types, RoundTypes
<1>8. round' = Unset => RoundTypes'
  BY DEF RoundTypes, Unset
<1> QED
  BY <1>1, <1>2, <1>3, <1>4, <1>5, <1>6, <1>7, <1>8

\* A push or a pop of k tasks with its count.
LEMMA EnqueueFacts ==
  ASSUME Types, NEW p \in Procs, NEW k \in Int, queue[p] + k >= 0, Enqueue(p, k)
  PROVE  /\ QueueTypes' /\ Sum(queue') = Sum(queue) + k
         /\ queue'[p] = queue[p] + k /\ \A q \in Procs : q # p => queue'[q] = queue[q]
         /\ size = queue => size' = queue'
<1>1. queue \in [Procs -> Nat] /\ size \in [Procs -> Int]
  BY DEF Types, QueueTypes
<1>2. queue' = [queue EXCEPT ![p] = @ + k] /\ size' = [size EXCEPT ![p] = @ + k]
  BY DEF Enqueue
<1>3. queue[p] + k \in Nat /\ size[p] + k \in Int
  BY <1>1
<1>4. QueueTypes'
  BY <1>1, <1>2, <1>3 DEF QueueTypes
<1>5. queue'[p] = queue[p] + k /\ \A q \in Procs : q # p => queue'[q] = queue[q]
  BY <1>1, <1>2
<1>6. queue \in [Procs -> Int] /\ queue' \in [Procs -> Int]
  BY <1>1, <1>4 DEF QueueTypes
<1>7. Sum(queue') = Sum(queue) + k
  BY <1>5, <1>6, SumChange
<1>8. size = queue => size' = queue'
  BY <1>2
<1> QED
  BY <1>4, <1>5, <1>7, <1>8

\* A bounded call is counted.
LEMMA CallFacts ==
  ASSUME Types, NEW k \in Kinds, Call(k), ran' = ran
  PROVE  /\ CountTypes' /\ calls'[k] = calls[k] + 1 /\ \A j \in Kinds : j # k => calls'[j] = calls[j]
         /\ calls[k] \in Nat
  BY DEF Types, CountTypes, Call

\* The source and the destination of a theft are Processers, its number is natural.
LEMMA TheftFacts ==
  ASSUME Types, HandInv
  PROVE  /\ mpc = "steal" => Source \in Procs /\ Dest \in Procs
         /\ lb.rest # <<>> => Source \in Procs /\ Tail(lb.rest) \in Seq(Procs)
         /\ lb.under # <<>> => Dest \in Procs /\ Tail(lb.under) \in Seq(Procs)
         /\ lb.over \in Seq(Procs) /\ lb.hand \in Nat /\ lb.num \in Nat /\ lb.total \in Int
<1>1. lb.rest \in Seq(Procs) /\ lb.under \in Seq(Procs) /\ lb.over \in Seq(Procs) /\ lb.hand \in Nat
      /\ lb.num \in Nat /\ lb.total \in Int
  BY DEF Types, LbTypes, LBs
<1> QED
  BY <1>1, HeadTailProperties DEF HandInv, Source, Dest

\* The number to steal is natural.
LEMMA StealNumType ==
  ASSUME NEW tasks \in Int, NEW total \in Int
  PROVE  StealNum(tasks, total) \in Nat
<1>1. N \in Nat \ {0}
  BY NAssumption
<1>2. N * tasks - total \in Int /\ 4 * N \in Nat \ {0}
  BY <1>1
<1>3. (N * tasks - total) \div (4 * N) \in Int
  BY <1>2
<1> QED
  BY <1>3 DEF StealNum

\* A step keeps the types, the launches and what LoadBalance has in hand.
LEMMA TypeStep ==
  ASSUME Types, LaunchInv, HandInv, BeginInv, [Next]_vars
  PROVE  Types' /\ LaunchInv' /\ HandInv' /\ BeginInv'
<1> USE DEF sched, procs, client
<1>n. N \in Nat \ {0} /\ Procs = 1 .. N
  BY NAssumption DEF Procs
<1>g. (SchedTypes' /\ QueueTypes' /\ ProcTypes' /\ ClientTypes' /\ LbTypes' /\ CountTypes'
       /\ RoundTypes') => Types'
  BY DEF Types
<1>l. processers' = processers /\ ppc' = ppc => LaunchInv'
  BY DEF LaunchInv
<1>h. LbSame => HandInv' /\ BeginInv'
  BY DEF HandInv, BeginInv, LbSame
<1>b. lb \in LBs /\ mpc \in Labels
  BY DEF Types, LbTypes
<1>1. CASE StartCall
  <2>1. SchedSame /\ QueueSame /\ ProcSame /\ ClientSame /\ CountSame /\ round' = round
        /\ mpc' = "launch" /\ lb' = lb /\ mpc = "before"
    BY <1>1 DEF StartCall, SchedSame, QueueSame, ProcSame, ClientSame, CountSame
  <2>2. LbTypes' /\ HandInv' /\ BeginInv'
    BY <1>b, <2>1 DEF LbTypes, HandInv, BeginInv, Labels
  <2> QED
    BY <1>g, <1>l, <2>1, <2>2, SameTypes DEF SchedSame, ProcSame
<1>2. CASE Launch
  <2>1. QueueSame /\ ClientSame /\ CountSame /\ round' = round /\ lb' = lb /\ mpc = "launch"
        /\ mpc' \in {"launch",
             "hand"} /\ blocks' = blocks /\ temp' = temp /\ idx' = idx /\ stop' = stop /\ pstop' = pstop
    BY <1>2 DEF Launch, QueueSame, ClientSame, CountSame
  <2>2. LbTypes' /\ HandInv' /\ BeginInv'
    BY <1>b, <2>1 DEF LbTypes, HandInv, BeginInv, Labels
  <2>3. CASE processers' = processers /\ ppc' = ppc
    <3>1. SchedSame /\ ProcSame
      BY <2>1, <2>3 DEF SchedSame, ProcSame
    <3> QED
      BY <1>g, <1>l, <2>1, <2>2, <2>3, <3>1, SameTypes
  <2>4. CASE processers < N /\ processers' = processers + 1 /\ ppc' = [ppc EXCEPT ![processers + 1] = "loop"]
    <3>1. SchedTypes'
      BY <1>n, <2>1, <2>4 DEF Types, SchedTypes
    <3>2. ProcTypes'
      BY <2>1, <2>4 DEF Types, ProcTypes
    <3>3. LaunchInv'
      <4> SUFFICES ASSUME NEW p \in Procs, p > processers' PROVE ppc'[p] = "none"
        BY DEF LaunchInv
      <4>1. processers \in Int /\ p \in Int
        BY <1>n DEF Types, SchedTypes
      <4>2. p > processers /\ p # processers + 1
        BY <2>4, <4>1
      <4> QED
        BY <2>4, <4>2 DEF LaunchInv, Types, ProcTypes
    <3> QED
      BY <1>g, <2>1, <2>2, <3>1, <3>2, <3>3, SameTypes
  <2> QED
    BY <1>2, <2>3, <2>4 DEF Launch
<1>3. CASE HandOver
  <2>1. ProcSame /\ ClientSame /\ CountSame /\ round' = round /\ lb' = lb /\ mpc = "hand"
        /\ mpc' \in {"hand", "sleep"} /\ blocks' = blocks /\ processers' = processers /\ stop' = stop
    BY <1>3 DEF HandOver, ProcSame, ClientSame, CountSame
  <2>2. LbTypes' /\ HandInv' /\ BeginInv'
    BY <1>b, <2>1 DEF LbTypes, HandInv, BeginInv, Labels
  <2>3. SchedTypes' /\ QueueTypes'
    <3>1. CASE temp = 0
      <4>1. temp' = temp /\ idx' = idx /\ QueueSame
        BY <1>3, <3>1 DEF HandOver, QueueSame
      <4> QED
        BY <2>1, <4>1, SameTypes DEF SchedSame
    <3>2. CASE temp > 0
      <4>1. /\ temp' = temp - 1 /\ idx' = (IF blocks THEN idx ELSE idx + 1)
            /\ Enqueue(IF blocks THEN N ELSE (idx % N) + 1, 1)
        BY <1>3, <3>2 DEF HandOver
      <4>2. temp \in Nat /\ idx \in Nat /\ idx % N \in 0 .. N - 1
        BY <1>n DEF Types, SchedTypes
      <4>3. PICK p \in Procs : Enqueue(p, 1)
        BY <1>n, <4>1, <4>2
      <4>4. queue[p] + 1 >= 0
        BY DEF Types, QueueTypes
      <4>5. QueueTypes'
        BY <4>3, <4>4, EnqueueFacts
      <4>6. temp' \in Nat /\ idx' \in Nat
        BY <3>2, <4>1, <4>2
      <4> QED
        BY <2>1, <4>5, <4>6 DEF Types, SchedTypes
    <3> QED
      BY <1>3, <3>1, <3>2 DEF HandOver
  <2> QED
    BY <1>g, <1>l, <2>1, <2>2, <2>3, SameTypes DEF ProcSame
<1>4. CASE Sleep \/ Total \/ Sort \/ Pair \/ Test \/ Choose
  <2>1. SchedSame /\ QueueSame /\ ProcSame /\ ClientSame /\ CountSame /\ lb.hand = 0
    BY <1>4 DEF Sleep, Total, Sort, Pair, Test, Choose, SchedSame, QueueSame, ProcSame, ClientSame,
         CountSame, HandInv
  <2>2. RoundTypes'
    <3>1. Max(Range(queue)) \in Nat /\ Min(Range(queue)) \in Nat
      BY Extremes DEF Types, QueueTypes
    <3>2. CASE Total
      BY <3>1, <3>2 DEF Total, RoundTypes, Types, Unset
    <3>3. CASE round' = round \/ round' = Unset
      BY <3>3, SameTypes
    <3> QED
      BY <1>4, <3>2, <3>3 DEF Sleep, Sort, Pair, Test, Choose
  <2>a. lb.at \in Procs /\ (lb.at % N) + 1 \in Procs
    BY <1>b, NextFacts DEF LBs
  <2>b. lb.at = N => (lb.at % N) + 1 = 1
    BY <2>a, NextFacts
  <2>c. lb.at # N => (lb.at % N) + 1 # 1
    <3>1. lb.at # N => (lb.at % N) + 1 = lb.at + 1
      BY <2>a, NextFacts
    <3> QED
      BY <1>n, <2>a, <3>1
  <2>3. LbTypes' /\ HandInv' /\ BeginInv'
    <3>1. CASE Sleep
      BY <1>b, <2>1, <3>1 DEF Sleep, LbTypes, HandInv, BeginInv, Labels
    <3>2. CASE Total
      <4>1. lb.total + size[lb.at] \in Int
        BY <1>b, <2>a DEF Types, QueueTypes, LBs
      <4>2. PICK a \in Procs, t \in Int : a = (lb.at % N) + 1 /\ t = lb.total + size[lb.at]
        BY <2>a, <4>1
      <4>3. /\ lb' = [lb EXCEPT !.at = a, !.total = t] /\ mpc = "sum"
            /\ mpc' = IF lb.at = N THEN "sort" ELSE "sum"
        BY <3>2, <4>2 DEF Total
      <4>4. lb' \in LBs /\ lb'.at = a /\ lb'.hand = lb.hand
        BY <1>b, <4>2, <4>3 DEF LBs
      <4> QED
        BY <2>1, <2>c, <4>2, <4>3, <4>4 DEF LbTypes, HandInv, BeginInv, Labels
    <3>3. CASE Sort
      <4>1. Append(lb.over, lb.at) \in Seq(Procs) /\ Append(lb.rest, lb.at) \in Seq(Procs)
            /\ Append(lb.under, lb.at) \in Seq(Procs)
        BY <1>b, <2>a, AppendProperties DEF LBs
      <4>2. PICK a \in Procs, over \in Seq(Procs), rest \in Seq(Procs), under \in Seq(Procs) :
              lb' = [lb EXCEPT !.at = a, !.over = over, !.rest = rest, !.under = under]
        <5>1. lb.over \in Seq(Procs) /\ lb.rest \in Seq(Procs) /\ lb.under \in Seq(Procs)
          BY <1>b DEF LBs
        <5>2. PICK isOver, isUnder :
                lb' = [lb EXCEPT !.at = (lb.at % N) + 1,
                                 !.over = IF isOver THEN Append(lb.over, lb.at) ELSE lb.over,
                                 !.rest = IF isOver THEN Append(lb.rest, lb.at) ELSE lb.rest,
                                 !.under = IF isUnder THEN Append(lb.under, lb.at) ELSE lb.under]
          BY <3>3 DEF Sort
        <5> QED
          BY <2>a, <4>1, <5>1, <5>2
      <4>3. lb' \in LBs /\ lb'.hand = lb.hand /\ mpc' \in {"sort", "pair"}
        BY <1>b, <3>3, <4>2 DEF LBs, Sort
      <4> QED
        BY <2>1, <4>3 DEF LbTypes, HandInv, BeginInv, Labels
    <3>4. CASE Pair \/ Test
      <4>0. mpc \in {"pair", "dest"}
        BY <3>4 DEF Pair, Test
      <4>1. CASE lb' = Idle /\ mpc' = "sleep"
        <5>1. <<>> \in Seq(Procs) /\ 1 \in Procs
          BY <1>n, EmptySeq
        <5> QED
          BY <4>1, <5>1 DEF Idle, LbTypes, HandInv, BeginInv, Labels, LBs
      <4>2. CASE lb.under # <<>> /\ lb' = [lb EXCEPT !.under = Tail(@), !.rest = lb.over]
                 /\ mpc' = "pair"
        <5>1. lb' \in LBs /\ lb'.hand = lb.hand
          BY <1>b, <4>2, TheftFacts DEF LBs
        <5> QED
          BY <2>1, <4>2, <5>1 DEF LbTypes, HandInv, BeginInv, Labels
      <4>3. CASE lb.rest # <<>> /\ lb' = [lb EXCEPT !.rest = Tail(@)] /\ mpc' = "pair"
        <5>1. lb' \in LBs /\ lb'.hand = lb.hand
          BY <1>b, <4>3, TheftFacts DEF LBs
        <5> QED
          BY <2>1, <4>3, <5>1 DEF LbTypes, HandInv, BeginInv, Labels
      <4>4. CASE lb.under # <<>> /\ lb.rest # <<>> /\ lb' = lb /\ mpc' \in {"dest", "num"}
        BY <1>b, <2>1, <4>4 DEF LbTypes, HandInv, BeginInv, Labels
      <4> QED
        BY <3>4, <4>0, <4>1, <4>2, <4>3, <4>4 DEF Pair, Test, HandInv
    <3>5. CASE Choose
      <4>1. mpc = "num" /\ mpc' = "steal" /\ lb' = [lb EXCEPT !.num = StealNum(size[Source], lb.total)]
            /\ lb.rest # <<>> /\ lb.under # <<>>
        BY <3>5 DEF Choose, HandInv
      <4>2. size[Source] \in Int /\ lb.total \in Int
        BY <4>1, TheftFacts DEF Types, QueueTypes
      <4>3. PICK n \in Nat : n = StealNum(size[Source], lb.total)
        BY <4>2, StealNumType
      <4> QED
        BY <1>b, <2>1, <4>1, <4>3 DEF LbTypes, HandInv, BeginInv, Labels, LBs
    <3> QED
      BY <1>4, <3>1, <3>2, <3>3, <3>4, <3>5
  <2> QED
    BY <1>g, <1>l, <2>1, <2>2, <2>3, SameTypes DEF SchedSame, ProcSame
<1>5. CASE Steal
  <2>1. SchedSame /\ ProcSame /\ ClientSame /\ CountSame /\ round' = round /\ mpc' = mpc /\ mpc = "steal"
        /\ lb' = [lb EXCEPT !.num = @ - 1, !.hand = @ + 1] /\ Enqueue(Source, -1)
        /\ lb.num > 0 /\ queue[Source] > 0
    BY <1>5 DEF Steal, Takes, SchedSame, ProcSame, ClientSame, CountSame
  <2>2. PICK s \in Procs : s = Source
    BY <2>1, TheftFacts
  <2>3. queue[s] + (-1) >= 0
    BY <2>1, <2>2 DEF Types, QueueTypes
  <2>4. QueueTypes'
    BY <2>1, <2>2, <2>3, EnqueueFacts
  <2>5. LbTypes' /\ HandInv' /\ BeginInv'
    <3>1. lb.num - 1 \in Nat /\ lb.hand + 1 \in Nat
      BY <2>1, TheftFacts
    <3>2. lb' \in LBs /\ lb'.rest = lb.rest /\ lb'.under = lb.under
      BY <1>b, <2>1, <3>1 DEF LBs
    <3> QED
      BY <1>b, <2>1, <3>2 DEF LbTypes, HandInv, BeginInv
  <2> QED
    BY <1>g, <1>l, <2>1, <2>4, <2>5, SameTypes DEF SchedSame, ProcSame
<1>6. CASE Give
  <2>1. SchedSame /\ ProcSame /\ ClientSame /\ CountSame /\ round' = round /\ mpc' = "pair"
        /\ mpc = "steal" /\ lb' = [lb EXCEPT !.rest = Tail(@), !.num = 0, !.hand = 0]
        /\ Enqueue(Dest, lb.hand)
    BY <1>6 DEF Give, Stolen, SchedSame, ProcSame, ClientSame, CountSame
  <2>2. PICK d \in Procs, h \in Nat : d = Dest /\ h = lb.hand
    BY <2>1, TheftFacts
  <2>3. queue[d] + h >= 0
    BY DEF Types, QueueTypes
  <2>4. QueueTypes'
    BY <2>1, <2>2, <2>3, EnqueueFacts
  <2>5. LbTypes' /\ HandInv' /\ BeginInv'
    BY <1>b, <2>1, TheftFacts DEF LbTypes, LBs, HandInv, BeginInv, Labels
  <2> QED
    BY <1>g, <1>l, <2>1, <2>4, <2>5, SameTypes DEF SchedSame, ProcSame
<1>7. ASSUME NEW p \in Procs, Pop(p) \/ Count(p) PROVE Types' /\ LaunchInv' /\ HandInv' /\ BeginInv'
  <2>1. SchedSame /\ ClientSame /\ LbSame /\ CountSame /\ round' = Unset /\ pstop' = pstop
    BY <1>7 DEF Pop, Count, SchedSame, ClientSame, LbSame, CountSame
  <2>2. QueueTypes'
    BY <1>7 DEF Pop, Count, Types, QueueTypes
  <2>3. ProcTypes' /\ LaunchInv'
    BY <1>7, <2>1 DEF Pop, Count, Types, ProcTypes, LaunchInv, SchedSame
  <2> QED
    BY <1>g, <1>h, <2>1, <2>2, <2>3, SameTypes
<1>8. ASSUME NEW p \in Procs, Spawn(p) PROVE Types' /\ LaunchInv' /\ HandInv' /\ BeginInv'
  <2>1. SchedSame /\ ProcSame /\ ClientSame /\ LbSame /\ round' = Unset /\ ran' = ran /\ Call("spawn")
        /\ Enqueue(p, 1)
    BY <1>8 DEF Spawn, SchedSame, ProcSame, ClientSame, LbSame
  <2>2. queue[p] + 1 >= 0
    BY DEF Types, QueueTypes
  <2>3. QueueTypes' /\ CountTypes'
    BY <2>1, <2>2, EnqueueFacts, CallFacts DEF Kinds
  <2> QED
    BY <1>g, <1>h, <1>l, <2>1, <2>3, SameTypes DEF SchedSame, ProcSame
<1>9. ASSUME NEW p \in Procs, Finish(p) \/ Hog(p) \/ End(p) PROVE Types' /\ LaunchInv' /\ HandInv' /\ BeginInv'
  <2>1. SchedSame /\ QueueSame /\ ClientSame /\ LbSame /\ round' = round /\ pstop' = pstop
    BY <1>9 DEF Finish, Hog, End, SchedSame, QueueSame, ClientSame, LbSame
  <2>2. ProcTypes' /\ LaunchInv'
    BY <1>9, <2>1 DEF Finish, Hog, End, Types, ProcTypes, LaunchInv, SchedSame
  <2>3. CountTypes'
    <3>1. CASE Finish(p) \/ End(p)
      BY <3>1 DEF Finish, End, Types, CountTypes
    <3>2. CASE Hog(p)
      BY <3>2, CallFacts DEF Hog, Kinds
    <3> QED
      BY <1>9, <3>1, <3>2
  <2> QED
    BY <1>g, <1>h, <2>1, <2>2, <2>3, SameTypes
<1>10. ASSUME NEW c \in Clients, AddTask(c) PROVE Types' /\ LaunchInv' /\ HandInv' /\ BeginInv'
  <2>1. ProcSame /\ LbSame /\ blocks' = blocks /\ processers' = processers /\ temp' = temp /\ stop' = stop /\ size' = size
        /\ ran' = ran /\ Call("add")
    BY <1>10 DEF AddTask, ProcSame, LbSame
  <2>2. CountTypes'
    BY <2>1, CallFacts DEF Kinds
  <2>3. CASE processers = 0
    <3>1. idx' = idx /\ queue' = queue /\ round' = round /\ target' = target
          /\ cpc' = [cpc EXCEPT ![c] = "temp"]
      BY <1>10, <2>3 DEF AddTask
    <3>2. SchedSame /\ QueueSame
      BY <2>1, <3>1 DEF SchedSame, QueueSame
    <3>3. ClientTypes'
      BY <3>1 DEF Types, ClientTypes
    <3> QED
      BY <1>g, <1>h, <1>l, <2>1, <2>2, <3>1, <3>2, <3>3, SameTypes DEF ProcSame
  <2>4. CASE processers > 0
    <3>1. /\ idx' \in {idx, idx + 1} /\ round' = Unset
          /\ cpc' = [cpc EXCEPT ![c] = "count"]
          /\ target' = [target EXCEPT ![c] = (idx % processers) + 1]
          /\ queue' = [queue EXCEPT ![target'[c]] = @ + 1]
      BY <1>10, <2>4 DEF AddTask, Types, SchedTypes
    <3>2. idx \in Nat /\ processers \in 1 .. N /\ idx % processers \in 0 .. processers - 1
      BY <1>n, <2>4 DEF Types, SchedTypes
    <3>3. PICK p \in Procs : p = (idx % processers) + 1
      BY <1>n, <3>2
    <3>4. ClientTypes'
      BY <1>n, <3>1, <3>3 DEF Types, ClientTypes
    <3>5. SchedTypes'
      BY <2>1, <3>1, <3>2 DEF Types, SchedTypes
    <3>6. QueueTypes'
      <4>1. queue' = [queue EXCEPT ![p] = @ + 1]
        BY <3>1, <3>3 DEF Types, ClientTypes
      <4> QED
        BY <2>1, <4>1 DEF Types, QueueTypes
    <3> QED
      BY <1>g, <1>h, <1>l, <2>1, <2>2, <3>1, <3>4, <3>5, <3>6, SameTypes DEF ProcSame
  <2> QED
    BY <1>10, <2>3, <2>4 DEF AddTask
<1>11. ASSUME NEW c \in Clients, Client(c) PROVE Types' /\ LaunchInv' /\ HandInv' /\ BeginInv'
  <2>1. blocks' = blocks /\ processers' = processers /\ idx' = idx /\ stop' = stop /\ ProcSame /\ LbSame /\ CountSame
        /\ queue' = queue /\ round' \in {round, Unset}
    BY <1>11 DEF Client, AddTemp, AddCount, ProcSame, LbSame, CountSame
  <2>2. SchedTypes' /\ QueueTypes' /\ ClientTypes'
    <3>1. CASE AddTemp(c)
      <4>1. temp' = temp + 1 /\ size' = size /\ cpc' = [cpc EXCEPT ![c] = "idle"] /\ target' = target
        BY <3>1 DEF AddTemp
      <4> QED
        BY <2>1, <4>1 DEF Types, SchedTypes, QueueTypes, ClientTypes
    <3>2. CASE AddCount(c)
      <4>1. temp' = temp /\ size' = [size EXCEPT ![target[c]] = @ + 1]
            /\ cpc' = [cpc EXCEPT ![c] = "idle"] /\ target' = [target EXCEPT ![c] = 0]
        BY <3>2 DEF AddCount
      <4>2. SchedTypes' /\ ClientTypes'
        BY <1>n, <2>1, <4>1 DEF Types, SchedTypes, ClientTypes
      <4>3. PICK p : p = target[c]
        OBVIOUS
      <4>4. size' \in [Procs -> Int]
        <5>1. size \in [Procs -> Int] /\ size' = [size EXCEPT ![p] = size[p] + 1]
          BY <4>1, <4>3 DEF Types, QueueTypes
        <5>2. CASE p \in Procs
          BY <5>1, <5>2
        <5>3. CASE p \notin Procs
          BY <5>1, <5>3
        <5> QED
          BY <5>2, <5>3
      <4> QED
        BY <2>1, <4>2, <4>4 DEF Types, QueueTypes
    <3> QED
      BY <1>11, <3>1, <3>2 DEF Client
  <2> QED
    BY <1>g, <1>h, <1>l, <2>1, <2>2, SameTypes DEF ProcSame
<1>12. ASSUME NEW c \in Clients, Stop(c) PROVE Types' /\ LaunchInv' /\ HandInv' /\ BeginInv'
  <2>1. /\ blocks' = blocks /\ processers' = processers /\ temp' = temp /\ idx' = idx /\ stop' = TRUE /\ QueueSame
        /\ ppc' = ppc /\ ClientSame /\ LbSame /\ ran' = ran /\ round' = round /\ Call("stop")
        /\ pstop' = [p \in Procs |-> pstop[p] \/ p <= processers]
    BY <1>12 DEF Stop, QueueSame, ClientSame, LbSame
  <2>2. SchedTypes'
    BY <2>1, Zenon DEF Types, SchedTypes
  <2>3. ProcTypes'
    BY <2>1 DEF Types, ProcTypes
  <2>4. CountTypes'
    BY <2>1, CallFacts DEF Kinds
  <2> QED
    BY <1>g, <1>h, <1>l, <2>1, <2>2, <2>3, <2>4, SameTypes
<1>13. CASE UNCHANGED vars
  <2>1. SchedSame /\ QueueSame /\ ProcSame /\ ClientSame /\ LbSame /\ CountSame /\ round' = round
    BY <1>13 DEF vars, SchedSame, QueueSame, ProcSame, ClientSame, LbSame, CountSame
  <2> QED
    BY <1>g, <1>h, <1>l, <2>1, SameTypes DEF SchedSame, ProcSame
<1> QED
  BY <1>1, <1>2, <1>3, <1>4, <1>5, <1>6, <1>7, <1>8, <1>9, <1>10, <1>11, <1>12, <1>13
  DEF Next, Starter, LoadBalance, Proc

-----------------------------------------------------------------------------
(* No task is lost *)

Adding == {c \in Clients : cpc[c] = "temp"}
Made   == calls["add"] + calls["spawn"]
There  == Cardinality(Adding) + Waiting + Cardinality(Busy) + ran

\* NoTaskLost, in the names used here.
LEMMA Conserved == NoTaskLost <=> Made = There
  BY DEF NoTaskLost, Made, There, Adding

\* The parts of the count, as integers.
LEMMA CountFacts ==
  ASSUME Types
  PROVE  /\ IsFiniteSet(Adding) /\ Cardinality(Adding) \in Nat
         /\ IsFiniteSet(Busy) /\ Cardinality(Busy) \in Nat
         /\ Sum(queue) \in Int /\ temp \in Nat /\ lb.hand \in Nat /\ ran \in Nat
         /\ calls["add"] \in Nat /\ calls["spawn"] \in Nat
<1>1. IsFiniteSet(Adding)
  BY ClientsAssumption, FS_Subset DEF Adding
<1>2. IsFiniteSet(Busy)
  <2>1. IsFiniteSet(Procs)
    BY NAssumption, FS_Interval DEF Procs
  <2> QED
    BY <2>1, FS_Subset DEF Busy
<1>3. Cardinality(Adding) \in Nat /\ Cardinality(Busy) \in Nat
  BY <1>1, <1>2, FS_CardinalityType
<1>4. Sum(queue) \in Int
  <2>1. queue \in [Procs -> Int]
    BY DEF Types, QueueTypes
  <2> QED
    BY <2>1, SumType
<1> QED
  BY <1>1, <1>2, <1>3, <1>4 DEF Types, SchedTypes, LbTypes, LBs, CountTypes, Kinds

\* What a step leaves alone counts as before.
LEMMA SameCounts ==
  ASSUME Types
  PROVE  /\ cpc' = cpc => Cardinality(Adding') = Cardinality(Adding)
         /\ ppc' = ppc => Cardinality(Busy') = Cardinality(Busy)
         /\ queue' = queue => Sum(queue') = Sum(queue)
         /\ calls' = calls => Made' = Made
  BY DEF Adding, Busy, Made

\* A step moves tasks, and makes as many as it counts.
Moves(made, adding, dtemp, queued, hand, busy, done) ==
  /\ Made' = Made + made
  /\ Cardinality(Adding') = Cardinality(Adding) + adding
  /\ temp' = temp + dtemp
  /\ Sum(queue') = Sum(queue) + queued
  /\ lb'.hand = lb.hand + hand
  /\ Cardinality(Busy') = Cardinality(Busy) + busy
  /\ ran' = ran + done
  /\ made = adding + dtemp + queued + hand + busy + done

\* Such a step keeps the count.
LEMMA MovesConserve ==
  ASSUME Types, NoTaskLost, NEW made \in Int, NEW adding \in Int, NEW dtemp \in Int,
       NEW queued \in Int,
         NEW hand \in Int, NEW busy \in Int, NEW done \in Int,
         Moves(made, adding, dtemp, queued, hand, busy, done)
  PROVE  NoTaskLost'
<1>1. Made = There
  BY Conserved
<1>2. Made' = There'
  BY <1>1, CountFacts DEF Moves, There, Waiting, Made
<1> QED
  BY <1>2 DEF NoTaskLost, Made, There, Adding

\* Where a thread has a task, and what moves a thread, a client or a task.
Working == {"count", "run", "hog"}
GoesTo(p, l)  == ppc' = [ppc EXCEPT ![p] = l]
Becomes(c, l) == cpc' = [cpc EXCEPT ![c] = l]
Pushes(p, k)  == queue' = [queue EXCEPT ![p] = queue[p] + k]

\* A thread begins or ends a task.
LEMMA BusyFacts ==
  ASSUME Types, NEW p \in Procs, NEW l, GoesTo(p, l)
  PROVE  /\ (ppc[p] \notin Working /\ l \in Working)
              => Cardinality(Busy') = Cardinality(Busy) + 1
         /\ (ppc[p] \in Working /\ l \notin Working)
              => Cardinality(Busy') = Cardinality(Busy) - 1
         /\ (ppc[p] \in Working /\ l \in Working)
              => Cardinality(Busy') = Cardinality(Busy)
         /\ (ppc[p] \notin Working /\ l \notin Working)
              => Cardinality(Busy') = Cardinality(Busy)
<1>1. \A q \in Procs : ppc'[q] = IF q = p THEN l ELSE ppc[q]
  BY DEF Types, ProcTypes, GoesTo
<1>2. Busy = {q \in Procs : ppc[q] \in Working} /\ Busy' = {q \in Procs : ppc'[q] \in Working}
  BY DEF Busy, Working
<1>3. IsFiniteSet(Busy)
  BY CountFacts
<1>4. ASSUME ppc[p] \notin Working, l \in Working PROVE Cardinality(Busy') = Cardinality(Busy) + 1
  <2>1. p \notin Busy /\ Busy' = Busy \cup {p}
    BY <1>1, <1>2, <1>4
  <2> QED
    BY <1>3, <2>1, FS_AddElement
<1>5. ASSUME ppc[p] \in Working, l \notin Working PROVE Cardinality(Busy') = Cardinality(Busy) - 1
  <2>1. p \in Busy /\ Busy' = Busy \ {p}
    BY <1>1, <1>2, <1>5
  <2> QED
    BY <1>3, <2>1, FS_RemoveElement
<1>6. ASSUME ppc[p] \in Working <=> l \in Working PROVE Cardinality(Busy') = Cardinality(Busy)
  <2>1. Busy' = Busy
    BY <1>1, <1>2, <1>6
  <2> QED
    BY <2>1
<1> QED
  BY <1>4, <1>5, <1>6

\* A client begins or ends a push to tempTasks_.
LEMMA AddingFacts ==
  ASSUME Types, NEW c \in Clients, NEW l, Becomes(c, l)
  PROVE  /\ (cpc[c] # "temp" /\ l = "temp") => Cardinality(Adding') = Cardinality(Adding) + 1
         /\ (cpc[c] = "temp" /\ l # "temp") => Cardinality(Adding') = Cardinality(Adding) - 1
         /\ (cpc[c] # "temp" /\ l # "temp") => Cardinality(Adding') = Cardinality(Adding)
<1>1. \A d \in Clients : cpc'[d] = IF d = c THEN l ELSE cpc[d]
  BY DEF Types, ClientTypes, Becomes
<1>2. Adding = {d \in Clients : cpc[d] = "temp"} /\ Adding' = {d \in Clients : cpc'[d] = "temp"}
  BY DEF Adding
<1>3. IsFiniteSet(Adding)
  BY CountFacts
<1>4. ASSUME cpc[c] # "temp", l = "temp" PROVE Cardinality(Adding') = Cardinality(Adding) + 1
  <2>1. c \notin Adding /\ Adding' = Adding \cup {c}
    BY <1>1, <1>2, <1>4
  <2> QED
    BY <1>3, <2>1, FS_AddElement
<1>5. ASSUME cpc[c] = "temp", l # "temp" PROVE Cardinality(Adding') = Cardinality(Adding) - 1
  <2>1. c \in Adding /\ Adding' = Adding \ {c}
    BY <1>1, <1>2, <1>5
  <2> QED
    BY <1>3, <2>1, FS_RemoveElement
<1>6. ASSUME cpc[c] # "temp", l # "temp" PROVE Cardinality(Adding') = Cardinality(Adding)
  <2>1. Adding' = Adding
    BY <1>1, <1>2, <1>6
  <2> QED
    BY <2>1
<1> QED
  BY <1>4, <1>5, <1>6

\* A push or a pop without its count.
LEMMA PushFacts ==
  ASSUME Types, NEW p \in Procs, NEW k \in Int, queue[p] + k >= 0, Pushes(p, k)
  PROVE  Sum(queue') = Sum(queue) + k
<1>1. queue \in [Procs -> Nat] /\ queue[p] + k \in Nat
  BY DEF Types, QueueTypes
<1>2. queue \in [Procs -> Int] /\ queue' \in [Procs -> Int]
  BY <1>1 DEF Pushes
<1>3. queue'[p] = queue[p] + k /\ \A q \in Procs : q # p => queue'[q] = queue[q]
  BY <1>1 DEF Pushes
<1> QED
  BY <1>2, <1>3, SumChange

\* A call of a kind that makes a task, or of one that makes none.
LEMMA MadeFacts ==
  ASSUME Types, NEW k \in Kinds, Call(k), ran' = ran
  PROVE  /\ k \in {"add", "spawn"} => Made' = Made + 1
         /\ k \notin {"add", "spawn"} => Made' = Made
<1>1. /\ calls'[k] = calls[k] + 1 /\ \A j \in Kinds : j # k => calls'[j] = calls[j]
  BY CallFacts
<1>2. calls["add"] \in Nat /\ calls["spawn"] \in Nat /\ "add" \in Kinds /\ "spawn" \in Kinds
  BY CountFacts DEF Kinds
<1> QED
  BY <1>1, <1>2 DEF Made

\* A step neither loses nor doubles a task.
LEMMA LostStep ==
  ASSUME Types, LaunchInv, HandInv, NoTaskLost, [Next]_vars
  PROVE  NoTaskLost'
<1> USE DEF sched, procs, client
<1>n. N \in Nat \ {0} /\ Procs = 1 .. N
  BY NAssumption DEF Procs
<1>c. /\ Cardinality(Adding) \in Nat /\ Cardinality(Busy) \in Nat /\ Sum(queue) \in Int /\ temp \in Nat
      /\ lb.hand \in Nat /\ ran \in Nat /\ Made \in Nat
  BY CountFacts DEF Made
<1>s. /\ cpc' = cpc => Cardinality(Adding') = Cardinality(Adding) + 0
      /\ ppc' = ppc => Cardinality(Busy') = Cardinality(Busy) + 0
      /\ queue' = queue => Sum(queue') = Sum(queue) + 0
      /\ calls' = calls => Made' = Made + 0
      /\ temp' = temp => temp' = temp + 0
      /\ lb' = lb => lb'.hand = lb.hand + 0
      /\ lb'.hand = lb.hand => lb'.hand = lb.hand + 0
      /\ ran' = ran => ran' = ran + 0
  BY <1>c, SameCounts
<1>p. \A p \in Procs : queue[p] \in Nat
  BY DEF Types, QueueTypes
<1>1. CASE StartCall \/ UNCHANGED vars
  <2>1. Moves(0, 0, 0, 0, 0, 0, 0)
    BY <1>1, <1>s DEF StartCall, vars, Moves
  <2> QED
    BY <2>1, MovesConserve
<1>2. CASE Launch
  <2>1. cpc' = cpc /\ queue' = queue /\ calls' = calls /\ temp' = temp /\ lb' = lb /\ ran' = ran
    BY <1>2 DEF Launch
  <2>2. Cardinality(Busy') = Cardinality(Busy) + 0
    <3>1. CASE ppc' = ppc
      BY <1>s, <3>1
    <3>2. CASE processers < N /\ ppc' = [ppc EXCEPT ![processers + 1] = "loop"]
      <4>1. processers \in 0 .. N
        BY DEF Types, SchedTypes
      <4>2. PICK p \in Procs : p = processers + 1 /\ p > processers
        BY <1>n, <3>2, <4>1
      <4>3. ppc[p] \notin Working /\ "loop" \notin Working /\ GoesTo(p, "loop")
        BY <3>2, <4>2 DEF LaunchInv, GoesTo, Working
      <4> QED
        BY <1>c, <4>3, BusyFacts
    <3> QED
      BY <1>2, <3>1, <3>2 DEF Launch
  <2>3. Moves(0, 0, 0, 0, 0, 0, 0)
    BY <1>s, <2>1, <2>2 DEF Moves
  <2> QED
    BY <2>3, MovesConserve
<1>3. CASE HandOver
  <2>1. cpc' = cpc /\ ppc' = ppc /\ calls' = calls /\ lb' = lb /\ ran' = ran
    BY <1>3 DEF HandOver
  <2>2. CASE temp = 0
    <3>1. temp' = temp /\ queue' = queue
      BY <1>3, <2>2 DEF HandOver
    <3>2. Moves(0, 0, 0, 0, 0, 0, 0)
      BY <1>s, <2>1, <3>1 DEF Moves
    <3> QED
      BY <3>2, MovesConserve
  <2>3. CASE temp > 0
    <3>1. temp' = temp - 1 /\ Enqueue(IF blocks THEN N ELSE (idx % N) + 1, 1)
      BY <1>3, <2>3 DEF HandOver
    <3>2. idx \in Nat /\ idx % N \in 0 .. N - 1
      BY <1>n DEF Types, SchedTypes
    <3>3. PICK p \in Procs : Enqueue(p, 1)
      BY <1>n, <3>1, <3>2
    <3>4. queue[p] + 1 >= 0
      BY <1>p
    <3>5. Sum(queue') = Sum(queue) + 1
      BY <3>3, <3>4, EnqueueFacts
    <3>6. temp' = temp + (-1)
      BY <1>c, <3>1
    <3>7. Moves(0, 0, -1, 1, 0, 0, 0)
      BY <1>s, <2>1, <3>5, <3>6 DEF Moves
    <3> QED
      BY <3>7, MovesConserve
  <2> QED
    BY <1>3, <2>2, <2>3 DEF HandOver
<1>4. CASE Sleep \/ Total \/ Sort \/ Pair \/ Test \/ Choose
  <2>1. cpc' = cpc /\ ppc' = ppc /\ queue' = queue /\ calls' = calls /\ temp' = temp /\ ran' = ran
    BY <1>4 DEF Sleep, Total, Sort, Pair, Test, Choose
  <2>2. lb'.hand = lb.hand
    <3>1. lb \in LBs
      BY DEF Types, LbTypes
    <3>2. CASE Sleep \/ Total \/ Choose
      BY <3>1, <3>2 DEF Sleep, Total, Choose, LBs
    <3>3. CASE Sort
      <4>1. PICK at, over, rest, under :
              lb' = [lb EXCEPT !.at = at, !.over = over, !.rest = rest, !.under = under]
        BY <3>3 DEF Sort
      <4> QED
        BY <3>1, <4>1 DEF LBs
    <3>4. CASE Pair \/ Test
      <4>1. lb.hand = 0
        BY <3>4 DEF Pair, Test, HandInv
      <4> QED
        <5>1. CASE lb' = Idle
          BY <4>1, <5>1 DEF Idle
        <5>2. CASE \/ lb' = [lb EXCEPT !.under = Tail(@), !.rest = lb.over]
                   \/ lb' = [lb EXCEPT !.rest = Tail(@)]
                   \/ lb' = lb
          BY <3>1, <5>2 DEF LBs
        <5> QED
          BY <3>4, <5>1, <5>2 DEF Pair, Test
    <3> QED
      BY <1>4, <3>2, <3>3, <3>4
  <2>3. Moves(0, 0, 0, 0, 0, 0, 0)
    BY <1>s, <2>1, <2>2 DEF Moves
  <2> QED
    BY <2>3, MovesConserve
<1>5. CASE Steal
  <2>1. cpc' = cpc /\ ppc' = ppc /\ calls' = calls /\ temp' = temp /\ ran' = ran /\ mpc = "steal"
        /\ lb' = [lb EXCEPT !.num = @ - 1, !.hand = @ + 1] /\ Enqueue(Source,
             -1) /\ queue[Source] > 0
    BY <1>5 DEF Steal, Takes
  <2>2. PICK s \in Procs : s = Source
    BY <2>1, TheftFacts
  <2>3. queue[s] + (-1) >= 0
    BY <1>p, <2>1, <2>2
  <2>4. Sum(queue') = Sum(queue) + (-1)
    BY <2>1, <2>2, <2>3, EnqueueFacts
  <2>5. lb'.hand = lb.hand + 1
    BY <2>1 DEF Types, LbTypes, LBs
  <2>6. Moves(0, 0, 0, -1, 1, 0, 0)
    BY <1>s, <2>1, <2>4, <2>5 DEF Moves
  <2> QED
    BY <2>6, MovesConserve
<1>6. CASE Give
  <2>1. cpc' = cpc /\ ppc' = ppc /\ calls' = calls /\ temp' = temp /\ ran' = ran /\ mpc = "steal"
        /\ lb' = [lb EXCEPT !.rest = Tail(@), !.num = 0, !.hand = 0] /\ Enqueue(Dest, lb.hand)
    BY <1>6 DEF Give, Stolen
  <2>2. PICK d \in Procs, h \in Nat : d = Dest /\ h = lb.hand
    BY <2>1, TheftFacts
  <2>3. queue[d] + h >= 0
    BY <1>p
  <2>4. Sum(queue') = Sum(queue) + h
    BY <2>1, <2>2, <2>3, EnqueueFacts
  <2>5. lb'.hand = 0
    BY <2>1 DEF Types, LbTypes, LBs
  <2>6. lb'.hand = lb.hand + (-h) /\ -h \in Int /\ 0 = 0 + 0 + h + (-h) + 0 + 0
    BY <2>2, <2>5
  <2>7. Moves(0, 0, 0, h, -h, 0, 0)
    BY <1>s, <2>1, <2>4, <2>6 DEF Moves
  <2> QED
    BY <2>6, <2>7, MovesConserve
<1>7. ASSUME NEW p \in Procs, Pop(p) PROVE NoTaskLost'
  <2>1. cpc' = cpc /\ calls' = calls /\ temp' = temp /\ lb' = lb /\ ran' = ran
        /\ ppc[p] \notin Working /\ "count" \in Working /\ GoesTo(p, "count")
        /\ queue[p] > 0 /\ queue' = [queue EXCEPT ![p] = queue[p] - 1]
    BY <1>7 DEF Pop, GoesTo, Working
  <2>2. Pushes(p, -1) /\ queue[p] + (-1) >= 0
    <3>1. queue[p] - 1 = queue[p] + (-1) /\ queue[p] + (-1) >= 0
      BY <1>p, <2>1
    <3> QED
      BY <2>1, <3>1 DEF Pushes
  <2>3. Sum(queue') = Sum(queue) + (-1)
    BY <2>2, PushFacts
  <2>4. Cardinality(Busy') = Cardinality(Busy) + 1
    BY <2>1, BusyFacts
  <2>5. Moves(0, 0, 0, -1, 0, 1, 0)
    BY <1>s, <2>1, <2>3, <2>4 DEF Moves
  <2> QED
    BY <2>5, MovesConserve
<1>8. ASSUME NEW p \in Procs, Count(p) \/ Hog(p) \/ End(p) PROVE NoTaskLost'
  <2>1. cpc' = cpc /\ queue' = queue /\ temp' = temp /\ lb' = lb /\ ran' = ran
    BY <1>8 DEF Count, Hog, End
  <2>2. Made' = Made + 0
    <3>1. CASE Hog(p)
      <4>1. Call("hog") /\ "hog" \in Kinds /\ "hog" \notin {"add", "spawn"}
        BY <3>1 DEF Hog, Kinds
      <4> QED
        BY <1>c, <2>1, <4>1, MadeFacts
    <3>2. CASE calls' = calls
      BY <1>s, <3>2
    <3> QED
      BY <1>8, <3>1, <3>2 DEF Count, End
  <2>3. Cardinality(Busy') = Cardinality(Busy) + 0
    <3>1. CASE Count(p)
      <4>1. ppc[p] \in Working /\ "run" \in Working /\ GoesTo(p, "run")
        BY <3>1 DEF Count, GoesTo, Working
      <4> QED
        BY <1>c, <4>1, BusyFacts
    <3>2. CASE Hog(p)
      <4>1. ppc[p] \in Working /\ "hog" \in Working /\ GoesTo(p, "hog")
        BY <3>2 DEF Hog, GoesTo, Working
      <4> QED
        BY <1>c, <4>1, BusyFacts
    <3>3. CASE End(p)
      <4>1. ppc[p] \notin Working /\ "end" \notin Working /\ GoesTo(p, "end")
        BY <3>3 DEF End, GoesTo, Working
      <4> QED
        BY <1>c, <4>1, BusyFacts
    <3> QED
      BY <1>8, <3>1, <3>2, <3>3
  <2>4. Moves(0, 0, 0, 0, 0, 0, 0)
    BY <1>s, <2>1, <2>2, <2>3 DEF Moves
  <2> QED
    BY <2>4, MovesConserve
<1>9. ASSUME NEW p \in Procs, Spawn(p) PROVE NoTaskLost'
  <2>1. cpc' = cpc /\ ppc' = ppc /\ temp' = temp /\ lb' = lb /\ ran' = ran /\ Call("spawn")
        /\ Enqueue(p, 1) /\ "spawn" \in Kinds
    BY <1>9 DEF Spawn, Kinds
  <2>2. queue[p] + 1 >= 0
    BY <1>p
  <2>3. Sum(queue') = Sum(queue) + 1
    BY <2>1, <2>2, EnqueueFacts
  <2>4. Made' = Made + 1
    BY <2>1, MadeFacts
  <2>5. Moves(1, 0, 0, 1, 0, 0, 0)
    BY <1>s, <2>1, <2>3, <2>4 DEF Moves
  <2> QED
    BY <2>5, MovesConserve
<1>10. ASSUME NEW p \in Procs, Finish(p) PROVE NoTaskLost'
  <2>1. cpc' = cpc /\ queue' = queue /\ calls' = calls /\ temp' = temp /\ lb' = lb /\ ran' = ran + 1
        /\ ppc[p] \in Working /\ "loop" \notin Working /\ GoesTo(p, "loop")
    BY <1>10 DEF Finish, GoesTo, Working
  <2>2. Cardinality(Busy') = Cardinality(Busy) - 1
    BY <2>1, BusyFacts
  <2>3. Cardinality(Busy') = Cardinality(Busy) + (-1)
    BY <1>c, <2>2
  <2>4. Moves(0, 0, 0, 0, 0, -1, 1)
    BY <1>s, <2>1, <2>3 DEF Moves
  <2> QED
    BY <2>4, MovesConserve
<1>11. ASSUME NEW c \in Clients, AddTask(c) PROVE NoTaskLost'
  <2>1. ppc' = ppc /\ temp' = temp /\ lb' = lb /\ ran' = ran /\ Call("add") /\ "add" \in Kinds
        /\ cpc[c] = "idle"
    BY <1>11 DEF AddTask, Kinds
  <2>2. Made' = Made + 1
    BY <2>1, MadeFacts
  <2>3. CASE processers = 0
    <3>1. queue' = queue /\ Becomes(c, "temp")
      BY <1>11, <2>3 DEF AddTask, Becomes
    <3>2. Cardinality(Adding') = Cardinality(Adding) + 1
      BY <2>1, <3>1, AddingFacts
    <3>3. Moves(1, 1, 0, 0, 0, 0, 0)
      BY <1>s, <2>1, <2>2, <3>1, <3>2 DEF Moves
    <3> QED
      BY <3>3, MovesConserve
  <2>4. CASE processers > 0
    <3>1. /\ Becomes(c, "count")
          /\ target' = [target EXCEPT ![c] = (idx % processers) + 1]
          /\ queue' = [queue EXCEPT ![target'[c]] = @ + 1]
      BY <1>11, <2>4 DEF AddTask, Types, SchedTypes, Becomes
    <3>2. idx \in Nat /\ processers \in 1 .. N /\ idx % processers \in 0 .. processers - 1
      BY <1>n, <2>4 DEF Types, SchedTypes
    <3>3. PICK p \in Procs : p = (idx % processers) + 1
      BY <1>n, <3>2
    <3>4. Pushes(p, 1) /\ queue[p] + 1 >= 0
      BY <1>p, <3>1, <3>3 DEF Types, ClientTypes, Pushes
    <3>5. Sum(queue') = Sum(queue) + 1
      BY <3>4, PushFacts
    <3>6. Cardinality(Adding') = Cardinality(Adding) + 0
      BY <1>c, <2>1, <3>1, AddingFacts
    <3>7. Moves(1, 0, 0, 1, 0, 0, 0)
      BY <1>s, <2>1, <2>2, <3>5, <3>6 DEF Moves
    <3> QED
      BY <3>7, MovesConserve
  <2> QED
    BY <1>11, <2>3, <2>4 DEF AddTask
<1>12. ASSUME NEW c \in Clients, AddTemp(c) PROVE NoTaskLost'
  <2>1. ppc' = ppc /\ queue' = queue /\ calls' = calls /\ lb' = lb /\ ran' = ran /\ temp' = temp + 1
        /\ cpc[c] = "temp" /\ Becomes(c, "idle")
    BY <1>12 DEF AddTemp, Becomes
  <2>2. Cardinality(Adding') = Cardinality(Adding) - 1
    BY <2>1, AddingFacts
  <2>3. Cardinality(Adding') = Cardinality(Adding) + (-1)
    BY <1>c, <2>2
  <2>4. Moves(0, -1, 1, 0, 0, 0, 0)
    BY <1>s, <2>1, <2>3 DEF Moves
  <2> QED
    BY <2>4, MovesConserve
<1>13. ASSUME NEW c \in Clients, AddCount(c) \/ Stop(c) PROVE NoTaskLost'
  <2>1. ppc' = ppc /\ queue' = queue /\ lb' = lb /\ ran' = ran /\ temp' = temp
    BY <1>13 DEF AddCount, Stop
  <2>2. Cardinality(Adding') = Cardinality(Adding) + 0
    <3>1. CASE AddCount(c)
      <4>1. cpc[c] # "temp" /\ Becomes(c, "idle")
        BY <3>1 DEF AddCount, Becomes
      <4> QED
        BY <1>c, <4>1, AddingFacts
    <3>2. CASE Stop(c)
      BY <1>s, <3>2 DEF Stop
    <3> QED
      BY <1>13, <3>1, <3>2
  <2>3. Made' = Made + 0
    <3>1. CASE AddCount(c)
      BY <1>s, <3>1 DEF AddCount
    <3>2. CASE Stop(c)
      <4>1. Call("stop") /\ "stop" \in Kinds /\ "stop" \notin {"add", "spawn"}
        BY <3>2 DEF Stop, Kinds
      <4> QED
        BY <1>c, <2>1, <4>1, MadeFacts
    <3> QED
      BY <1>13, <3>1, <3>2
  <2>4. Moves(0, 0, 0, 0, 0, 0, 0)
    BY <1>s, <2>1, <2>2, <2>3 DEF Moves
  <2> QED
    BY <2>4, MovesConserve
<1> QED
  BY <1>1, <1>2, <1>3, <1>4, <1>5, <1>6, <1>7, <1>8, <1>9, <1>10, <1>11, <1>12, <1>13
  DEF Next, Starter, LoadBalance, Proc, Client

-----------------------------------------------------------------------------
(* An undisturbed round evens the queues out *)

\* A common factor can be cancelled.
LEMMA Cancel ==
  ASSUME NEW a \in Int, NEW b \in Int
  PROVE  (N * a <= N * b => a <= b) /\ (N * a < N * b => a < b)
<1>n. N \in Int /\ N >= 1
  BY NAssumption
<1>1. ASSUME a >= b PROVE N * a >= N * b
  <2>1. N * (a - b) >= 0 /\ N * (a - b) = N * a - N * b
    BY <1>1, <1>n
  <2> QED
    BY <1>n, <2>1
<1>2. ASSUME a > b PROVE N * a > N * b
  <2>1. a - b >= 1
    BY <1>2
  <2>2. N * (a - b) >= 1 /\ N * (a - b) = N * a - N * b
    BY <1>n, <2>1
  <2> QED
    BY <1>n, <2>2
<1> QED
  BY <1>1, <1>2, <1>n

\* The number to steal is one or at most a quarter of what is above the average.
LEMMA QuarterFacts ==
  ASSUME NEW q \in Int, NEW total \in Int
  PROVE  StealNum(q, total) = 1 \/ 4 * (N * StealNum(q, total)) <= N * q - total
<1>n. N \in Int /\ N >= 1 /\ N * q \in Int
  BY NAssumption
<1>1. PICK x \in Int : x = N * q - total
  BY <1>n
<1>2. PICK m \in Nat \ {0} : m = 4 * N
  BY <1>n
<1>3. m * (x \div m) <= x /\ x \div m \in Int
  BY <1>2
<1>4. PICK k \in Int : k = x \div m
  BY <1>3
<1>5. StealNum(q, total) = IF k > 1 THEN k ELSE 1
  BY <1>1, <1>2, <1>4 DEF StealNum
<1>6. 4 * (N * k) = m * k
  BY <1>2, <1>n
<1> QED
  BY <1>1, <1>3, <1>4, <1>5, <1>6

\* What a theft moves from an overloaded to an underloaded queue leaves the one no
\* shorter than the shortest and the other no longer than the longest.
LEMMA TheftBounds ==
  ASSUME NEW q \in Int, NEW d \in Int, NEW low \in Nat, NEW peak \in Nat, NEW total \in Int,
       q <= peak,
         N * low <= total, total <= N * peak, Overloaded(q, total), Underloaded(d, total)
  PROVE  q # d /\ low + StealNum(q, total) <= q /\ d + StealNum(q, total) <= peak
<1>n. N \in Int /\ N >= 1
  BY NAssumption
<1>0. PICK k \in Nat : k = StealNum(q, total)
  BY StealNumType
<1>1. k = 1 \/ 4 * (N * k) <= N * q - total
  BY <1>0, QuarterFacts
<1>2. /\ N * q \in Int /\ N * d \in Int /\ N * k \in Int /\ N * low \in Int /\ N * peak \in Int
      /\ N * (low + k) = N * low + N * k /\ N * (d + k) = N * d + N * k /\ N * low >= 0
      /\ N * k >= 0
  BY <1>n
<1>3. 10 * (N * q) > 11 * total /\ 10 * (N * d) < 3 * total
  <2>1. 10 * N * q = 10 * (N * q) /\ 10 * N * d = 10 * (N * d)
    BY <1>n
  <2> QED
    BY <2>1 DEF Overloaded, Underloaded
<1>4. N * d < N * q /\ N * low < N * q /\ N * d < N * peak
  BY <1>2, <1>3
<1>5. d < q /\ low < q /\ d < peak
  BY <1>4, Cancel
<1>6. CASE k = 1
  BY <1>0, <1>5, <1>6
<1>7. CASE 4 * (N * k) <= N * q - total
  <2>1. N * (low + k) <= N * q
    BY <1>2, <1>7
  <2>2. N * (d + k) <= N * peak
    <3>1. N * q <= N * peak
      <4>1. N * (peak - q) >= 0 /\ N * (peak - q) = N * peak - N * q
        BY <1>n
      <4> QED
        BY <1>2, <4>1
    <3> QED
      BY <1>2, <1>3, <1>7, <3>1
  <2>3. low + k \in Int /\ d + k \in Int
    OBVIOUS
  <2> QED
    BY <1>0, <1>5, <2>1, <2>2, <2>3, Cancel
<1> QED
  BY <1>1, <1>6, <1>7

\* A step keeps the bounds of a round nobody else has disturbed.
LEMMA EvenStep ==
  ASSUME Types, HandInv, BeginInv, AverageInv, EvenInv, Types', [Next]_vars
  PROVE  AverageInv' /\ EvenInv'
<1> USE DEF sched, procs, client
<1>t. /\ queue \in [Procs -> Nat] /\ size \in [Procs -> Int] /\ round.low \in Nat /\ round.peak \in Nat
      /\ lb \in LBs /\ lb.total \in Int /\ lb.hand \in Nat /\ lb.num \in Nat /\ mpc \in Labels
      /\ lb.at \in Procs
  BY DEF Types, QueueTypes, RoundTypes, LbTypes, LBs
<1>n. N \in Nat \ {0} /\ Procs = 1 .. N
  BY NAssumption DEF Procs
<1>g. ~Quiet' => AverageInv' /\ EvenInv'
  BY DEF AverageInv, EvenInv
<1>1. CASE round' = Unset \/ mpc' \notin Later \cup {"sum"}
  <2>1. ~Quiet'
    BY <1>1 DEF Quiet, Unset
  <2> QED
    BY <1>g, <2>1
<1>2. CASE queue' = queue /\ size' = size /\ lb' = lb /\ mpc' = mpc /\ round' = round
  BY <1>2 DEF AverageInv, EvenInv, Quiet, Within, Added, Source, Dest, Overloaded, Underloaded
<1>3. CASE Total
  <2>1. /\ queue' = queue /\ size' = size /\ mpc = "sum"
        /\ lb' = [lb EXCEPT !.at = (@ % N) + 1, !.total = @ + size[lb.at]]
        /\ mpc' = IF lb.at = N THEN "sort" ELSE "sum"
    BY <1>3 DEF Total
  <2>2. /\ lb'.at = (lb.at % N) + 1 /\ lb'.total = lb.total + size[lb.at]
    BY <1>t, <2>1 DEF LBs
  <2>3. PICK a \in 1 .. N : a = lb.at
    BY <1>t, <1>n
  <2>4. (a = N => lb'.at = 1) /\ (a # N => lb'.at = a + 1)
    BY <1>n, <2>2, <2>3, NextFacts
  <2>5. SUFFICES ASSUME Quiet' PROVE AverageInv' /\ EvenInv'
    BY <1>g
  <2>6. /\ size = queue /\ \A p \in Procs : round'.low <= queue[p] /\ queue[p] <= round'.peak
        /\ round'.low \in Nat /\ round'.peak \in Nat
        /\ (a - 1) * round'.low <= lb.total /\ lb.total <= (a - 1) * round'.peak
    <3>1. CASE a = 1
      <4>1. size = queue
        BY <1>3, <2>3, <2>5, <3>1 DEF Total, Quiet, Unset
      <4>2. PICK h \in Nat, l \in Nat : h = Max(Range(queue)) /\ l = Min(Range(queue))
        BY <1>t, Extremes
      <4>3. \A p \in Procs : l <= queue[p] /\ queue[p] <= h
        BY <1>t, <4>2, Extremes
      <4>4. round' = [quiet |-> TRUE, peak |-> h, low |-> l]
        BY <1>3, <2>3, <3>1, <4>1, <4>2 DEF Total
      <4>5. lb.total = 0 /\ (a - 1) * l = 0 /\ (a - 1) * h = 0
        <5>1. lb.total = 0 /\ a - 1 = 0
          BY <2>1, <2>3, <3>1 DEF BeginInv
        <5> QED
          BY <5>1
      <4> QED
        BY <4>1, <4>2, <4>3, <4>4, <4>5
    <3>2. CASE a # 1
      <4>1. a > 1 /\ round' = round
        BY <1>3, <2>3, <3>2 DEF Total
      <4>2. Quiet
        BY <2>1, <2>3, <2>5, <4>1 DEF Quiet
      <4>3. size = queue /\ Added(a - 1)
        BY <2>1, <2>3, <4>2 DEF AverageInv
      <4>4. \A p \in Procs : Within(p)
        BY <2>1, <4>2 DEF EvenInv
      <4> QED
        BY <1>t, <4>1, <4>3, <4>4 DEF Added, Within
    <3> QED
      BY <3>1, <3>2
  <2>7. PICK l \in Nat, h \in Nat : l = round'.low /\ h = round'.peak
    BY <2>6
  <2>8. a * l <= lb'.total /\ lb'.total <= a * h
    <3>1. PICK s \in Nat, t \in Int : s = queue[a] /\ t = lb.total
      BY <1>t, <1>n
    <3>2. l <= s /\ s <= h /\ (a - 1) * l <= t /\ t <= (a - 1) * h /\ lb'.total = t + s
      BY <1>n, <2>2, <2>3, <2>6, <2>7, <3>1
    <3>3. a * l = (a - 1) * l + l /\ a * h = (a - 1) * h + h /\ (a - 1) * l \in Int
          /\ (a - 1) * h \in Int
      OBVIOUS
    <3> QED
      BY <3>2, <3>3
  <2>9. AverageInv'
    <3>1. CASE a = N
      <4>1. Added(N)' /\ mpc' = "sort"
        BY <2>1, <2>3, <2>7, <2>8, <3>1 DEF Added
      <4> QED
        BY <2>1, <2>6, <4>1 DEF AverageInv
    <3>2. CASE a # N
      <4>1. lb'.at - 1 = a /\ mpc' = "sum"
        BY <2>1, <2>3, <2>4, <3>2
      <4>2. Added(lb.at - 1)'
        BY <2>7, <2>8, <4>1 DEF Added
      <4> QED
        BY <2>1, <2>6, <4>1, <4>2 DEF AverageInv
    <3> QED
      BY <3>1, <3>2
  <2>10. EvenInv'
    <3>1. \A p \in Procs : Within(p)'
      BY <2>1, <2>6 DEF Within
    <3>2. mpc' \notin {"dest", "num", "steal"}
      BY <2>1
    <3> QED
      BY <3>1, <3>2 DEF EvenInv
  <2> QED
    BY <2>9, <2>10
<1>4. ASSUME queue' = queue, size' = size, round' = round, mpc \in {"sort", "pair", "dest"},
             mpc' \in {"sort", "pair"}, lb'.total = lb.total
      PROVE  AverageInv' /\ EvenInv'
  <2>2. Quiet' => Quiet
    BY <1>4 DEF Quiet, Later
  <2>3. AverageInv'
    BY <1>4, <2>2 DEF AverageInv, Added
  <2>4. EvenInv'
    BY <1>4, <2>2 DEF EvenInv, Within
  <2> QED
    BY <2>3, <2>4
<1>a. ASSUME queue' = queue, size' = size, round' = round, lb' = lb, mpc \in {"pair", "dest"},
             \/ mpc' = "dest" /\ More(Source)
             \/ mpc = "dest" /\ mpc' = "num" /\ Less(Dest)
      PROVE  AverageInv' /\ EvenInv'
  <2>1. SUFFICES ASSUME Quiet' PROVE AverageInv' /\ EvenInv'
    BY <1>g
  <2>2. Quiet
    BY <1>a, <2>1 DEF Quiet, Later
  <2>3. size = queue /\ Added(N)
    BY <1>a, <2>2 DEF AverageInv
  <2>4. AverageInv'
    BY <1>a, <2>3 DEF AverageInv, Added
  <2>5. /\ \A p \in Procs : Within(p)
        /\ mpc = "dest" => Overloaded(queue[Source], lb.total)
    BY <1>a, <2>2 DEF EvenInv
  <2>6. /\ Overloaded(queue[Source], lb.total)
        /\ mpc' = "num" => Underloaded(queue[Dest], lb.total)
    BY <1>a, <2>3, <2>5 DEF More, Less
  <2>7. Source' = Source /\ Dest' = Dest
    BY <1>a DEF Source, Dest
  <2>8. /\ Overloaded(queue[Source], lb.total)'
        /\ mpc' = "num" => Underloaded(queue[Dest], lb.total)'
        /\ \A p \in Procs : Within(p)'
    BY <1>a, <2>5, <2>6, <2>7 DEF Overloaded, Underloaded, Within
  <2> QED
    BY <1>a, <2>4, <2>8 DEF EvenInv
<1>5. CASE Choose
  <2>1. /\ queue' = queue /\ size' = size /\ round' = round /\ mpc = "num" /\ mpc' = "steal"
        /\ lb.under # <<>> /\ lb.rest # <<>>
        /\ lb' = [lb EXCEPT !.num = StealNum(size[Source], lb.total)]
    BY <1>5 DEF Choose, HandInv
  <2>2. Source \in Procs /\ Dest \in Procs
    BY <2>1, TheftFacts
  <2>3. PICK s \in Procs, d \in Procs : s = Source /\ d = Dest
    BY <2>2
  <2>4. PICK k \in Nat : k = StealNum(size[s], lb.total)
    BY <1>t, StealNumType
  <2>5. lb' = [lb EXCEPT !.num = k] /\ lb.hand = 0
    BY <2>1, <2>3, <2>4 DEF HandInv
  <2>6. lb'.num = k /\ lb'.hand = 0 /\ lb'.total = lb.total /\ lb'.rest = lb.rest /\ lb'.under = lb.under
    BY <1>t, <2>5 DEF LBs
  <2>7. Source' = s /\ Dest' = d
    BY <2>3, <2>6 DEF Source, Dest
  <2>8. SUFFICES ASSUME Quiet' PROVE AverageInv' /\ EvenInv'
    BY <1>g
  <2>9. Quiet
    BY <2>1, <2>8 DEF Quiet, Later
  <2>10. size = queue /\ N * round.low <= lb.total /\ lb.total <= N * round.peak
    BY <2>1, <2>9 DEF AverageInv, Added
  <2>11. \A p \in Procs : Within(p)
    BY <2>1, <2>9 DEF EvenInv
  <2>12. PICK low \in Nat, peak \in Nat : low = round.low /\ peak = round.peak
    BY <1>t
  <2>13. queue[s] \in Int /\ queue[d] \in Int /\ low <= queue[s] /\ queue[s] <= peak /\ low <= queue[d]
    BY <1>t, <2>11, <2>12 DEF Within
  <2>14. Overloaded(queue[s], lb.total) /\ Underloaded(queue[d],
       lb.total) /\ k = StealNum(queue[s], lb.total)
    BY <2>1, <2>3, <2>4, <2>9, <2>10 DEF EvenInv
  <2>15. queue[s] # queue[d] /\ low + k <= queue[s] /\ queue[d] + k <= peak
    BY <1>t, <2>10, <2>12, <2>13, <2>14, TheftBounds
  <2>16. AverageInv'
    BY <2>1, <2>6, <2>10 DEF AverageInv, Added
  <2>17. round'.low = low /\ round'.peak = peak /\ queue[d] + 0 + k <= peak
    BY <2>1, <2>12, <2>13, <2>15
  <2>18. \A p \in Procs : Within(p)'
    BY <2>1, <2>11 DEF Within
  <2>19. EvenInv'
    BY <1>5, <2>1, <2>6, <2>7, <2>13, <2>15, <2>17, <2>18 DEF EvenInv
  <2> QED
    BY <2>16, <2>19
<1>6. CASE Steal
  <2>1. /\ mpc = "steal" /\ mpc' = "steal" /\ round' = round /\ Enqueue(Source, -1) /\ lb.num > 0
        /\ lb' = [lb EXCEPT !.num = @ - 1, !.hand = @ + 1] /\ queue[Source] > 0
    BY <1>6 DEF Steal, Takes
  <2>2. PICK s \in Procs, d \in Procs : s = Source /\ d = Dest
    BY <2>1, TheftFacts
  <2>3. /\ lb'.num = lb.num - 1 /\ lb'.hand = lb.hand + 1 /\ lb'.total = lb.total
        /\ lb'.rest = lb.rest /\ lb'.under = lb.under
    BY <1>t, <2>1 DEF LBs
  <2>4. Source' = s /\ Dest' = d
    BY <2>2, <2>3 DEF Source, Dest
  <2>5. queue[s] + (-1) >= 0
    BY <1>t, <2>1, <2>2
  <2>6. /\ queue'[s] = queue[s] + (-1) /\ \A q \in Procs : q # s => queue'[q] = queue[q]
        /\ size = queue => size' = queue'
    BY <2>1, <2>2, <2>5, EnqueueFacts
  <2>7. SUFFICES ASSUME Quiet' PROVE AverageInv' /\ EvenInv'
    BY <1>g
  <2>8. Quiet
    BY <2>1, <2>7 DEF Quiet
  <2>9. AverageInv'
    BY <2>1, <2>3, <2>6, <2>8 DEF AverageInv, Added
  <2>10. /\ s # d /\ \A p \in Procs \ {s, d} : Within(p)
         /\ round.low + lb.num <= queue[s] /\ queue[s] <= round.peak
         /\ round.low <= queue[d] /\ queue[d] + lb.hand + lb.num <= round.peak
    BY <2>1, <2>2, <2>8 DEF EvenInv
  <2>11. \A p \in Procs \ {s, d} : Within(p)'
    BY <2>1, <2>6, <2>10 DEF Within
  <2>12. /\ round.low + lb'.num <= queue'[s] /\ queue'[s] <= round.peak
         /\ round.low <= queue'[d] /\ queue'[d] + lb'.hand + lb'.num <= round.peak
    <3>1. queue'[d] = queue[d]
      BY <2>6, <2>10
    <3>2. queue[s] \in Nat /\ queue[d] \in Nat
      BY <1>t
    <3> QED
      BY <1>t, <2>3, <2>6, <2>10, <3>1, <3>2
  <2>13. EvenInv'
    BY <2>1, <2>4, <2>10, <2>11, <2>12 DEF EvenInv
  <2> QED
    BY <2>9, <2>13
<1>7. CASE Give
  <2>1. /\ mpc = "steal" /\ mpc' = "pair" /\ round' = round /\ Enqueue(Dest, lb.hand)
        /\ lb' = [lb EXCEPT !.rest = Tail(@), !.num = 0, !.hand = 0]
    BY <1>7 DEF Give, Stolen
  <2>2. PICK s \in Procs, d \in Procs, h \in Nat : s = Source /\ d = Dest /\ h = lb.hand
    BY <2>1, TheftFacts
  <2>3. lb'.total = lb.total
    BY <1>t, <2>1 DEF LBs
  <2>4. queue[d] + h >= 0
    BY <1>t
  <2>5. /\ queue'[d] = queue[d] + h /\ \A q \in Procs : q # d => queue'[q] = queue[q]
        /\ size = queue => size' = queue'
    BY <2>1, <2>2, <2>4, EnqueueFacts
  <2>6. SUFFICES ASSUME Quiet' PROVE AverageInv' /\ EvenInv'
    BY <1>g
  <2>7. Quiet
    BY <2>1, <2>6 DEF Quiet, Later
  <2>8. AverageInv'
    BY <2>1, <2>3, <2>5, <2>7 DEF AverageInv, Added
  <2>9. /\ s # d /\ \A p \in Procs \ {s, d} : Within(p)
        /\ round.low + lb.num <= queue[s] /\ queue[s] <= round.peak
        /\ round.low <= queue[d] /\ queue[d] + lb.hand + lb.num <= round.peak
    BY <2>1, <2>2, <2>7 DEF EvenInv
  <2>10. ASSUME NEW p \in Procs PROVE Within(p)'
    <3>1. CASE p \notin {s, d}
      BY <2>1, <2>5, <2>9, <3>1 DEF Within
    <3>2. CASE p = s
      <4>1. queue'[s] = queue[s] /\ queue[s] \in Nat
        BY <1>t, <2>5, <2>9
      <4> QED
        BY <1>t, <2>1, <2>9, <3>2, <4>1 DEF Within
    <3>3. CASE p = d
      <4>1. queue[d] \in Nat
        BY <1>t
      <4>2. round.low <= queue'[d] /\ queue'[d] <= round.peak
        BY <1>t, <2>2, <2>5, <2>9, <4>1
      <4> QED
        BY <2>1, <3>3, <4>2 DEF Within
    <3> QED
      BY <3>1, <3>2, <3>3
  <2>11. EvenInv'
    BY <2>1, <2>10 DEF EvenInv
  <2> QED
    BY <2>8, <2>11
<1>8. CASE Sort \/ Pair \/ Test
  <2>1. queue' = queue /\ size' = size
    BY <1>8 DEF Sort, Pair, Test
  <2>2. CASE Sort
    <3>1. PICK at, over, rest, under :
            lb' = [lb EXCEPT !.at = at, !.over = over, !.rest = rest, !.under = under]
      BY <2>2 DEF Sort
    <3>2. lb'.total = lb.total
      BY <1>t, <3>1 DEF LBs
    <3> QED
      BY <1>4, <2>1, <2>2, <3>2 DEF Sort
  <2>3. CASE round' = Unset
    BY <1>1, <2>3
  <2>4. CASE /\ round' = round /\ mpc \in {"pair", "dest"} /\ mpc' = "pair"
             /\ \/ lb' = [lb EXCEPT !.under = Tail(@), !.rest = lb.over]
                \/ lb' = [lb EXCEPT !.rest = Tail(@)]
    <3>1. lb'.total = lb.total
      BY <1>t, <2>4 DEF LBs
    <3> QED
      BY <1>4, <2>1, <2>4, <3>1
  <2>5. CASE /\ round' = round /\ lb' = lb /\ mpc \in {"pair", "dest"}
             /\ \/ mpc' = "dest" /\ More(Source)
                \/ mpc = "dest" /\ mpc' = "num" /\ Less(Dest)
    BY <1>a, <2>1, <2>5
  <2> QED
    BY <1>8, <2>2, <2>3, <2>4, <2>5 DEF Pair, Test, Enough
<1>9. CASE StartCall \/ Launch \/ HandOver \/ Sleep
  <2>1. mpc' \notin Later
    BY <1>9 DEF StartCall, Launch, HandOver, Sleep, Later
  <2>2. mpc' = "sum" => lb'.at = 1
    BY <1>9 DEF StartCall, Launch, HandOver, Sleep, BeginInv
  <2>3. ~Quiet'
    BY <2>1, <2>2 DEF Quiet
  <2> QED
    BY <1>g, <2>3
<1>10. ASSUME NEW p \in Procs, Proc(p) \/ Spawn(p) \/ Hog(p) PROVE AverageInv' /\ EvenInv'
  BY <1>1, <1>2, <1>10 DEF Proc, Pop, Count, Finish, End, Spawn, Hog
<1>11. ASSUME NEW c \in Clients, Client(c) \/ AddTask(c) \/ Stop(c) PROVE AverageInv' /\ EvenInv'
  BY <1>1, <1>2, <1>11 DEF Client, AddTemp, AddCount, AddTask, Stop
<1>12. CASE UNCHANGED vars
  BY <1>2, <1>12 DEF vars
<1> QED
  BY <1>3, <1>5, <1>6, <1>7, <1>8, <1>9, <1>10, <1>11, <1>12 DEF Next, Starter, LoadBalance

-----------------------------------------------------------------------------
(* The theorems *)

IInv == Types /\ LaunchInv /\ HandInv /\ BeginInv /\ NoTaskLost /\ AverageInv /\ EvenInv

\* The inductive invariant holds at first,
LEMMA Start == Init => IInv
<1> SUFFICES ASSUME Init PROVE IInv
  OBVIOUS
<1>n. N \in Nat \ {0}
  BY NAssumption
<1>1. Types
  <2>1. SchedTypes /\ QueueTypes /\ CountTypes
    <3>1. processers = 0 /\ temp = 0 /\ idx = 0 /\ stop = FALSE /\ blocks \in BOOLEAN
      BY ReadingAssumption DEF Init
    <3>2. SchedTypes
      <4>1. 0 \in 0 .. N /\ 0 \in Nat
        BY <1>n
      <4> QED
        BY <3>1, <4>1, Zenon DEF SchedTypes
    <3>3. QueueTypes
      BY DEF Init, QueueTypes
    <3>4. DOMAIN Bound = Kinds
      BY DEF Bound, Kinds
    <3>5. CountTypes
      BY <3>4 DEF Init, CountTypes
    <3> QED
      BY <3>2, <3>3, <3>5
  <2>2. ProcTypes /\ ClientTypes /\ RoundTypes
    BY <1>n DEF Init, ProcTypes, ClientTypes, RoundTypes, Unset
  <2>3. LbTypes
    <3>1. <<>> \in Seq(Procs) /\ 1 \in Procs
      BY <1>n, EmptySeq DEF Procs
    <3> QED
      BY <3>1 DEF Init, LbTypes, Labels, LBs, Idle
  <2> QED
    BY <2>1, <2>2, <2>3 DEF Types
<1>2. LaunchInv /\ HandInv /\ BeginInv /\ AverageInv /\ EvenInv
  BY DEF Init, LaunchInv, HandInv, BeginInv, AverageInv, EvenInv, Quiet, Idle, Unset
<1>3. NoTaskLost
  <2>1. Adding = {} /\ Busy = {}
    BY DEF Init, Adding, Busy
  <2>2. Cardinality({}) = 0
    BY FS_EmptySet
  <2>3. Sum(queue) = 0
    <3>1. queue \in [Procs -> Int] /\ \A p \in Procs : 0 <= queue[p] /\ queue[p] <= 0
      BY DEF Init
    <3>2. N * 0 <= Sum(queue) /\ Sum(queue) <= N * 0 /\ Sum(queue) \in Int
      BY <3>1, SumBounds, SumType
    <3> QED
      BY <1>n, <3>2
  <2>4. calls["add"] = 0 /\ calls["spawn"] = 0 /\ temp = 0 /\ lb.hand = 0 /\ ran = 0
    BY DEF Init, Bound, Idle
  <2>5. Made = There
    BY <2>1, <2>2, <2>3, <2>4 DEF Made, There, Waiting
  <2> QED
    BY <2>5, Conserved
<1> QED
  BY <1>1, <1>2, <1>3 DEF IInv

\* every step keeps it,
LEMMA Step == IInv /\ [Next]_vars => IInv'
<1> SUFFICES ASSUME IInv, [Next]_vars PROVE IInv'
  OBVIOUS
<1>1. Types' /\ LaunchInv' /\ HandInv' /\ BeginInv'
  BY TypeStep DEF IInv
<1>2. NoTaskLost'
  BY LostStep DEF IInv
<1>3. AverageInv' /\ EvenInv'
  BY <1>1, EvenStep DEF IInv
<1> QED
  BY <1>1, <1>2, <1>3 DEF IInv

\* and so it always holds.
LEMMA Always == Spec => []IInv
  BY Start, Step, PTL DEF Spec

\* TypeOK always holds: the lists LoadBalance loops over hold Processers, what it
\* wants to steal and has stolen is never negative, and only a size may be.
THEOREM Typing == Spec => []TypeOK
<1>1. IInv => TypeOK
  BY TypesOK DEF IInv
<1> QED
  BY <1>1, Always, PTL

\* NoTaskLost always holds, for every number of Processers, clients and calls,
\* whether or not Start blocks and calls race it: LoadBalance, AddTask and Start
\* neither lose nor double a task, however stale the sizes are that they read.
THEOREM NothingLost == Spec => []NoTaskLost
<1>1. IInv => NoTaskLost
  BY DEF IInv
<1> QED
  BY <1>1, Always, PTL

\* Evens always holds, for every number of Processers: the factors 1.1 and 0.3
\* and the quarter of LoadBalance never overshoot the average in a round of its
\* own, so no queue gets longer than the longest or shorter than the shortest was.
THEOREM Evening == Spec => []Evens
<1>1. IInv => Evens
  <2> SUFFICES ASSUME IInv, round.quiet, mpc \in {"pair", "dest", "num"}, NEW p \in Procs
               PROVE  queue[p] <= round.peak /\ queue[p] >= round.low
    BY DEF Evens
  <2>1. Within(p)
    BY DEF IInv, EvenInv, Quiet, Later
  <2>2. queue[p] \in Nat /\ round.low \in Nat
    BY DEF IInv, Types, QueueTypes, RoundTypes
  <2> QED
    BY <2>1, <2>2 DEF Within
<1> QED
  BY <1>1, Always, PTL
=============================================================================
