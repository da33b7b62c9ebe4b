----------------------------- MODULE MCLFQueue -----------------------------
(* Model-checking instances of LFQueue.  Addresses are interchangeable, and *)
(* so are threads with the same role (in every instance the two roles are   *)
(* either the same set or disjoint).                                        *)
EXTENDS LFQueue, TLC

Symmetry ==
  Permutations(Pushers) \cup Permutations(Poppers) \cup Permutations(Nodes)
=============================================================================
