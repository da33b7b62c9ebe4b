---------------------------- MODULE MCProcesser ----------------------------
(* Model-checking instances of Processer.                                   *)
EXTENDS Processer, TLC

Symmetry == Permutations(Procs) \cup Permutations(Clients) \cup Permutations(Tasks)
=============================================================================
