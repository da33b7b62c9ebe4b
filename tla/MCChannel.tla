----------------------------- MODULE MCChannel -----------------------------
(* Model-checking instances of Channel.                                     *)
EXTENDS Channel, TLC

Symmetry == Permutations(Senders) \cup Permutations(Receivers)
=============================================================================
