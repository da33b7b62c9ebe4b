----------------------------- MODULE MCCoMutex -----------------------------
(* Model-checking instances of CoMutex.                                     *)
EXTENDS CoMutex, TLC

Symmetry == Permutations(Tasks)
=============================================================================
