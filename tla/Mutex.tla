------------------------------- MODULE Mutex -------------------------------
(***************************************************************************)
(* What a mutex promises its coroutines: a call of lock returns when nobody*)
(* holds the mutex, and from then on the caller is the holder until it     *)
(* unlocks.  A mutex with a fault lets a caller slip in beside a holder;   *)
(* until somebody has, this is the plain mutex.                            *)
(***************************************************************************)
EXTENDS Naturals

CONSTANT Tasks

VARIABLES
  mode,   \* each coroutine: "out", "trying" (inside lock) or "held"
  slips   \* how many slipped in beside a holder

Holders == {t \in Tasks : mode[t] = "held"}

Init == mode = [t \in Tasks |-> "out"] /\ slips = 0

Request(t) ==
  /\ mode[t] = "out"
  /\ mode' = [mode EXCEPT ![t] = "trying"]
  /\ UNCHANGED slips

Acquire(t) ==
  /\ mode[t] \in {"out", "trying"}
  /\ slips = 0 => Holders = {}
  /\ mode' = [mode EXCEPT ![t] = "held"]
  /\ UNCHANGED slips

Slip(t) ==
  /\ mode[t] \in {"out", "trying"}
  /\ Holders # {}
  /\ mode' = [mode EXCEPT ![t] = "held"]
  /\ slips' = slips + 1

Release(t) ==
  /\ mode[t] = "held"
  /\ mode' = [mode EXCEPT ![t] = "out"]
  /\ UNCHANGED slips

Next == \E t \in Tasks : Request(t) \/ Acquire(t) \/ Slip(t) \/ Release(t)

Spec == Init /\ [][Next]_<<mode, slips>>
=============================================================================
