------------------------------ MODULE FdTable ------------------------------
(***************************************************************************)
(* The descriptor table of hook/hook.cpp and hook/fd_desc.cpp: the vector  *)
(* `fds` that the hooked calls keep in step with the kernel's own table,   *)
(* and by which they decide whether a call suspends the coroutine or goes  *)
(* to the system call.                                                     *)
(*                                                                         *)
(* A call that changes descriptors is two steps, the system call and the   *)
(* update of `fds`, and nothing synchronises them: the calls of different  *)
(* threads interleave.  Two that overlap on one number may leave its entry *)
(* wrong; histories name the numbers and files of which that may be so.    *)
(* An open file and the FdDesc made for it have the same name.  The kernel *)
(* is external: it hands out the lowest free descriptor, and dup makes two *)
(* that share one file.                                                    *)
(***************************************************************************)
EXTENDS Integers, FiniteSetsExt

CONSTANTS
  Callers,      \* coroutines, or threads, that make calls
  MaxFd,        \* descriptors are 0 .. MaxFd
  Files,        \* open files (names are not reused)
  NULL,
  Times,        \* timeouts given to setsockopt: tv_sec and tv_usec, in microseconds
  Unit,         \* microseconds per second (1000000)
  IntMax,       \* the largest int (2^31 - 1)
  MaxCalls      \* bound: calls made

ASSUME FdAssumption == MaxFd \in Nat /\ MaxCalls \in Nat /\ NULL \notin Files
ASSUME IntAssumption == IntMax \in Nat /\ Unit \in Nat \ {0} /\ Times \subseteq Nat

Fds  == 0 .. MaxFd
Dirs == {"recv", "send"}

VARIABLES
  kfd,          \* the kernel's table
  kfile,        \* the kernel's files: [kind, nonblock]
  fds,          \* the vector fds
  desc,         \* FdDesc: fdType_, type_, isNonBlocking_, recvTimeout_ and sendTimeout_
  pc, arg,      \* each caller: what its call has still to do
  calls,
  \* Histories of what the code does not learn, or records wrongly:
  unseen,       \* files of an accept4 outside a coroutine
  flagged,      \* sockets made with SOCK_NONBLOCK or SOCK_CLOEXEC, and what they accept
  misread,      \* files whose O_NONBLOCK is recorded wrongly: SOCK_NONBLOCK
                \* sockets and refused F_SETFLs, until the next F_SETFL
  asked,        \* the timeouts last asked for, for each file
  \* Histories of calls that overlap:
  mixed,        \* callers whose call another one crossed
  raced,        \* numbers last updated by such a call
  blurred       \* files whose FdDesc such a call changed

kernel == <<kfd, kfile>>
table  == <<fds, desc>>
faults == <<unseen, flagged, misread>>
races  == <<mixed, raced, blurred>>
vars   == <<kernel, table, pc, arg, calls, faults, asked, races>>

NoFile == [kind |-> "none", nonblock |-> FALSE]
Zero   == [d \in Dirs |-> 0]

\* FdDesc::FdDesc and SetSocketAttr.
FdDesc(fdType, type, nonblock) ==
  [fdType |-> fdType, type |-> type, nonblock |-> nonblock, timeout |-> Zero]
NoDesc == FdDesc("none", "none", FALSE)

Init ==
  /\ kfd = [n \in Fds |-> NULL]
  /\ kfile = [f \in Files |-> NoFile]
  /\ fds = [n \in Fds |-> NULL]
  /\ desc = [f \in Files |-> NoDesc]
  /\ pc = [t \in Callers |-> "idle"]
  /\ arg = [t \in Callers |-> NULL]
  /\ calls = 0
  /\ unseen = {} /\ flagged = {} /\ misread = {}
  /\ asked = [f \in Files |-> Zero]
  /\ mixed = {} /\ raced = {} /\ blurred = {}

Call(t) ==
  /\ pc[t] = "idle"
  /\ calls < MaxCalls /\ calls' = calls + 1

Goto(t, l, a) == pc' = [pc EXCEPT ![t] = l] /\ arg' = [arg EXCEPT ![t] = a]

Free == {n \in Fds : kfd[n] = NULL}
Unused == {f \in Files : kfile[f] = NoFile}

-----------------------------------------------------------------------------
(* Calls under way *)

\* The number whose entry a call has still to write, the one whose entry it has
\* still to read or has read, and the file whose settings it is changing.
Writes(t) == IF pc[t] \in {"store", "accepted", "clear", "copy"} THEN {arg[t].fd} ELSE {}
Reads(t)  == IF pc[t] = "copy" THEN {arg[t].from}
             ELSE IF pc[t] \in {"setfl", "settimeout"} THEN {arg[t].fd} ELSE {}
Works(t)  == IF pc[t] \in {"setfl", "settimeout"} THEN {arg[t].file} ELSE {}

\* The descriptors the program has been told of.
Held == {n \in Fds : kfd[n] # NULL /\ \A t \in Callers : pc[t] \in {"store", "accepted"} => arg[t].fd # n}

\* Whether a call by t that will write w and reads r, for files fs, is crossed
\* by one that is under way, or reads what may be wrong.
Crossed(t, w, r, fs) ==
  \/ r \cap raced # {}
  \/ \E u \in Callers \ {t} : (w \cup r) \cap Writes(u) # {} \/ fs \cap Works(u) # {}

\* The calls under way that it crosses.
Crosses(t, w, fs) ==
  {u \in Callers \ {t} : w \cap (Writes(u) \cup Reads(u)) # {} \/ fs \cap Works(u) # {}}

Mix(t, w, r, fs) ==
  mixed' = mixed \cup Crosses(t, w, fs) \cup (IF Crossed(t, w, r, fs) THEN {t} ELSE {})

\* t is done with the entry of n.
Unmix(t, n) ==
  /\ raced' = IF t \in mixed THEN raced \cup {n} ELSE raced \ {n}
  /\ mixed' = mixed \ {t}

-----------------------------------------------------------------------------
Lowest == Min(Free)

\* A system call that opens f.
Make(f, kind, nonblock) ==
  /\ Free # {} /\ f \in Unused
  /\ kfile' = [kfile EXCEPT ![f] = [kind |-> kind, nonblock |-> nonblock]]
  /\ kfd' = [kfd EXCEPT ![Lowest] = f]
  /\ UNCHANGED <<table, asked>>

\* open: tOther, with O_NONBLOCK from its flags.
OpenCall(t, nonblock) ==
  /\ Call(t)
  /\ \E f \in Files :
       /\ Make(f, "file", nonblock)
       /\ Goto(t, "store", [fd |-> Lowest, file |-> f, new |-> FdDesc("tOther", "none", nonblock)])
  /\ Mix(t, {Lowest}, {}, {})
  /\ UNCHANGED <<faults, raced, blurred>>

\* socket: every socket is taken for a blocking one, and SOCK_NONBLOCK and
\* SOCK_CLOEXEC stay in the type_ that IsTcpSocket compares.
SocketCall(t, type, nonblock, cloexec) ==
  /\ Call(t)
  /\ \E f \in Files :
       /\ Make(f, type, nonblock)
       /\ Goto(t, "store", [fd |-> Lowest, file |-> f, new |->
            FdDesc("tSocket", IF nonblock \/ cloexec THEN "flagged" ELSE type, FALSE)])
       /\ flagged' = IF nonblock \/ cloexec THEN flagged \cup {f} ELSE flagged
       /\ misread' = IF nonblock THEN misread \cup {f} ELSE misread
  /\ Mix(t, {Lowest}, {}, {})
  /\ UNCHANGED <<unseen, raced, blurred>>

\* accept4 in a coroutine, on a tracked socket: it suspends with its fdPtr.
AcceptCall(t, n, nonblock) ==
  /\ Call(t) /\ n \in Held /\ kfile[kfd[n]].kind = "stream"
  /\ fds[n] # NULL /\ desc[fds[n]].fdType = "tSocket"
  /\ Goto(t, "accept", [sockfd |-> n, listener |-> fds[n], nonblock |-> nonblock])
  /\ Mix(t, {}, {n}, {})
  /\ UNCHANGED <<kernel, table, faults, asked, raced, blurred>>

\* The request completes with a descriptor.
AcceptDone(t) ==
  /\ pc[t] = "accept"
  /\ \E f \in Files :
       /\ Make(f, "stream", arg[t].nonblock)
       /\ Goto(t, "accepted", [fd |-> Lowest, file |-> f, sockfd |-> arg[t].sockfd,
                               listener |-> arg[t].listener, nonblock |-> arg[t].nonblock])
       /\ flagged' = IF arg[t].listener \in flagged THEN flagged \cup {f} ELSE flagged
  /\ Mix(t, {Lowest}, {}, {})
  /\ UNCHANGED <<calls, unseen, misread, raced, blurred>>

\* accept4 outside a coroutine, or on a descriptor that is not tracked, returns
\* what the system call returns and records nothing.
AcceptPlain(t, nonblock) ==
  /\ Call(t)
  /\ \E n \in Held : kfile[kfd[n]].kind = "stream"
  /\ \E f \in Files : Make(f, "stream", nonblock) /\ unseen' = unseen \cup {f}
  /\ UNCHANGED <<pc, arg, flagged, misread, races>>

\* fds[fd]=make_shared<FdDesc>(...).
Store(t, f, new) ==
  /\ desc' = [desc EXCEPT ![f] = new]
  /\ fds' = [fds EXCEPT ![arg[t].fd] = f]
  /\ Goto(t, "idle", NULL)
  /\ Unmix(t, arg[t].fd)
  /\ UNCHANGED <<kernel, calls, faults, asked>>

OpenStore(t) == pc[t] = "store" /\ Store(t, arg[t].file, arg[t].new) /\ UNCHANGED blurred

\* Mutant of Listener: it is looked up again.
ListenerAgain(t) == IF fds[arg[t].sockfd] = NULL THEN arg[t].file ELSE fds[arg[t].sockfd]

\* fdPtr, as the call found it before it suspended.
Listener(t) == arg[t].listener

\* The new entry takes type_ from the listener the call began with.
AcceptStore(t) ==
  /\ pc[t] = "accepted"
  /\ Store(t, arg[t].file, FdDesc("tSocket", desc[Listener(t)].type, arg[t].nonblock))
  /\ blurred' = IF t \in mixed \/ arg[t].listener \in blurred THEN blurred \cup {arg[t].file}
                ELSE blurred

CloseCall(t, n) ==
  /\ Call(t) /\ n \in Held
  /\ kfd' = [kfd EXCEPT ![n] = NULL]
  /\ Goto(t, "clear", [fd |-> n])
  /\ Mix(t, {n}, {}, {})
  /\ UNCHANGED <<kfile, table, faults, asked, raced, blurred>>

CloseClear(t) ==
  /\ pc[t] = "clear"
  /\ fds' = [fds EXCEPT ![arg[t].fd] = NULL]
  /\ Goto(t, "idle", NULL)
  /\ Unmix(t, arg[t].fd)
  /\ UNCHANGED <<kernel, desc, calls, faults, asked, blurred>>

\* dup, dup2 with two different descriptors, fcntl F_DUPFD.
DupCall(t, from, to) ==
  /\ Call(t) /\ from \in Held /\ to \in (Held \cup Free) \ {from}
  /\ kfd' = [kfd EXCEPT ![to] = kfd[from]]
  /\ Goto(t, "copy", [fd |-> to, from |-> from])
  /\ Mix(t, {to}, {from}, {})
  /\ UNCHANGED <<kfile, table, faults, asked, raced, blurred>>

\* Mutant of Copied: an entry that is not there is not copied.
CopiedTracked(from, to) == IF fds[from] = NULL THEN fds[to] ELSE fds[from]

\* What fds[newfd] becomes.
Copied(from, to) == fds[from]

\* fds[newfd]=fds[oldfd].
DupCopy(t) ==
  /\ pc[t] = "copy"
  /\ fds' = [fds EXCEPT ![arg[t].fd] = Copied(arg[t].from, arg[t].fd)]
  /\ Goto(t, "idle", NULL)
  /\ Unmix(t, arg[t].fd)
  /\ UNCHANGED <<kernel, desc, calls, faults, asked, blurred>>

\* A call that was crossed changed the settings of the wrong file, or in the wrong order.
Blur(t, fs) == blurred' = IF t \in mixed' THEN blurred \cup (fs \ {NULL}) ELSE blurred

SetNonBlocking(f, nonblock) == [desc EXCEPT ![f].nonblock = nonblock]

\* fcntl F_SETFL: the table first, whatever the system call will say.
SetFlCall(t, n, nonblock) ==
  /\ Call(t) /\ n \in Held
  /\ desc' = IF fds[n] = NULL THEN desc ELSE SetNonBlocking(fds[n], nonblock)
  /\ Goto(t, "setfl", [fd |-> n, file |-> kfd[n], nonblock |-> nonblock])
  /\ Mix(t, {}, {n}, {kfd[n]}) /\ Blur(t, {fds[n]})
  /\ UNCHANGED <<kernel, fds, faults, asked, raced>>

\* The system call, which may refuse.
SetFlKernel(t) ==
  /\ pc[t] = "setfl"
  /\ LET f == kfd[arg[t].fd] IN
       /\ \/ /\ f # NULL
             /\ kfile' = [kfile EXCEPT ![f].nonblock = arg[t].nonblock]
             /\ misread' = misread \ {f}
          \/ /\ misread' = IF f # NULL /\ kfile[f].nonblock # arg[t].nonblock THEN misread \cup {f}
                           ELSE misread \ {f}
             /\ UNCHANGED kfile
       /\ blurred' = IF t \in mixed THEN blurred \cup ({f, arg[t].file} \ {NULL}) ELSE blurred
  /\ Goto(t, "idle", NULL)
  /\ mixed' = mixed \ {t}
  /\ UNCHANGED <<kfd, table, calls, unseen, flagged, asked, raced>>

\* Mutant of ToInt: microseconds are multiplied once more.
ToIntTwice(x) == x * Unit

\* The value an int holds after the assignment of x: it wraps modulo 2^32.
ToInt(x) == ((x + IntMax + 1) % (2 * (IntMax + 1))) - (IntMax + 1)

\* Mutant of SetSocketTimeout: one timeout for both directions.
SetSocketTimeoutBoth(f, dir, v) == [desc EXCEPT ![f].timeout = [d \in Dirs |-> v]]

SetSocketTimeout(f, dir, v) == [desc EXCEPT ![f].timeout[dir] = v]

\* setsockopt SO_RCVTIMEO, SO_SNDTIMEO: the system call.
SetTimeoutCall(t, n, dir, x) ==
  /\ Call(t) /\ n \in Held /\ kfile[kfd[n]].kind # "file"
  /\ asked' = [asked EXCEPT ![kfd[n]][dir] = x]
  /\ Goto(t, "settimeout", [fd |-> n, file |-> kfd[n], dir |-> dir, time |-> x])
  /\ Mix(t, {}, {n}, {kfd[n]})
  /\ UNCHANGED <<kernel, table, faults, raced, blurred>>

\* `int microseconds = tv.tv_sec * 1000000 + tv.tv_usec`, kept in the entry.
SetTimeoutTable(t) ==
  /\ pc[t] = "settimeout"
  /\ LET g == fds[arg[t].fd] IN
       /\ desc' = IF g = NULL THEN desc ELSE SetSocketTimeout(g, arg[t].dir, ToInt(arg[t].time))
       /\ blurred' = IF t \in mixed THEN blurred \cup ({g, arg[t].file} \ {NULL}) ELSE blurred
  /\ Goto(t, "idle", NULL)
  /\ mixed' = mixed \ {t}
  /\ UNCHANGED <<kernel, fds, calls, faults, asked, raced>>

Next ==
  \E t \in Callers :
    \/ \E b \in BOOLEAN : OpenCall(t, b) \/ AcceptPlain(t, b)
    \/ \E k \in {"stream", "dgram"}, b, c \in BOOLEAN : SocketCall(t, k, b, c)
    \/ \E n \in Fds, b \in BOOLEAN : AcceptCall(t, n, b) \/ SetFlCall(t, n, b)
    \/ AcceptDone(t) \/ AcceptStore(t)
    \/ OpenStore(t) \/ CloseClear(t) \/ DupCopy(t) \/ SetFlKernel(t) \/ SetTimeoutTable(t)
    \/ \E n \in Fds : CloseCall(t, n)
    \/ \E n, m \in Fds : DupCall(t, n, m)
    \/ \E n \in Fds, d \in Dirs, x \in Times : SetTimeoutCall(t, n, d, x)

Spec == Init /\ [][Next]_vars
-----------------------------------------------------------------------------
(* The decision of the hooked calls *)

Msg == {"recv", "send", "recvmsg", "sendmsg"}
Ops == {"read", "write", "connect", "accept"} \cup Msg

IsTcpSocket(d) == d.fdType = "tSocket" /\ d.type = "stream"

HookedConnect(d) == d.fdType = "tSocket" /\ ~d.nonblock /\ IsTcpSocket(d)
HookedAccept(d) == d.fdType = "tSocket"
HookedData(d) == ~d.nonblock
HookedMsg(d, dontwait) == d.fdType = "tSocket" /\ ~d.nonblock /\ ~dontwait

\* Whether a call suspends, with MSG_DONTWAIT among its flags or not.
Hooked(op, n, dontwait) ==
  /\ fds[n] # NULL
  /\ LET d == desc[fds[n]] IN
       CASE op = "connect" -> HookedConnect(d)
         [] op = "accept" -> HookedAccept(d)
         [] op \in {"read", "write"} -> HookedData(d)
         [] op \in Msg -> HookedMsg(d, dontwait)

GetSocketTimeout(f, dir) == desc[f].timeout[dir]

\* The timespec a hooked call on a socket gives the engine: C++ division rounds
\* to zero.
Quot(v) == IF v >= 0 THEN v \div Unit ELSE -((-v) \div Unit)
Timespec(f, dir) ==
  LET v == GetSocketTimeout(f, dir) IN [sec |-> Quot(v), nsec |-> (v - Quot(v) * Unit) * 1000]

-----------------------------------------------------------------------------
(* Properties *)

\* Numbers that no call is at work on, nor left to another that crossed it ...
Settled == {n \in Fds \ raced : \A t \in Callers : n \notin Writes(t)}

\* ... and files whose settings likewise.
Sharp == {f \in Files \ blurred : \A t \in Callers : f \notin Works(t)}

\* Every variable has its type.
TypeOK ==
  /\ kfd \in [Fds -> Files \cup {NULL}]
  /\ kfile \in [Files -> [kind : {"none", "file", "stream", "dgram"}, nonblock : BOOLEAN]]
  /\ fds \in [Fds -> Files \cup {NULL}]
  /\ desc \in [Files -> [fdType : {"none", "tSocket", "tOther"},
                         type : {"none", "stream", "dgram", "flagged"}, nonblock : BOOLEAN,
                         timeout : [Dirs -> -(IntMax + 1) .. IntMax]]]
  /\ pc \in [Callers -> {"idle", "store", "accept", "accepted", "clear", "copy", "setfl",
                         "settimeout"}]

\* Every call on every descriptor is hooked exactly when the kernel would block on
\* it (a connect: of a stream socket; an accept: of any socket), except for what
\* the code does not learn: a file of a plain accept4 is never hooked, a connect
\* of a socket made with SOCK_NONBLOCK or SOCK_CLOEXEC neither, and after a
\* refused F_SETFL the code goes by what was asked, of a SOCK_NONBLOCK socket by
\* blocking.  The table has followed each open, accept, dup, fcntl and close, of
\* any thread, over reused numbers, shared files and listeners closed while a
\* coroutine waits in accept4.  Only where two calls overlapped on a number, or on
\* the settings of a file, is nothing said, and of the number no longer than until
\* its next update.
HookDecision ==
  \A n \in {m \in Settled : kfd[m] \in Sharp \cup {NULL}}, op \in Ops, dontwait \in BOOLEAN :
    Hooked(op, n, dontwait) <=>
      /\ kfd[n] # NULL /\ kfd[n] \notin unseen
      /\ op \notin {"read", "write"} => kfile[kfd[n]].kind # "file"
      /\ op = "connect" => kfile[kfd[n]].kind = "stream" /\ kfd[n] \notin flagged
      /\ op = "accept" \/ (kfile[kfd[n]].nonblock <=> kfd[n] \in misread)
      /\ op \in Msg => ~dontwait

\* An entry of the table was made for the file that the kernel has under that
\* number, unless two calls overlapped in its last update: none outlives its
\* descriptor, so no call is decided, or timed, by the settings of another file.
NoStaleEntry == \A n \in Settled : fds[n] \in {NULL, kfd[n]}

\* A hooked call on a socket is timed by what setsockopt was last asked for that
\* direction of that socket, through whatever descriptor, to the microsecond, if
\* that many microseconds fit an int; if not, by as many less a multiple of 2^32,
\* which may be a time below zero, refused by the assertion in Exec.
TimeoutExact ==
  \A n \in Settled, dir \in Dirs :
    fds[n] # NULL /\ kfd[n] \in Sharp =>
      LET time == Timespec(fds[n], dir)
          us   == time.sec * Unit + time.nsec \div 1000
          due  == asked[kfd[n]][dir]
      IN  /\ us \in -(IntMax + 1) .. IntMax
          /\ \E k \in 0 .. due : due = us + k * (2 * (IntMax + 1))
          /\ due <= IntMax => us = due /\ time.sec >= 0 /\ time.nsec >= 0
=============================================================================
