----------------------------- MODULE MCFdTable -----------------------------
(* Model-checking instances of FdTable.                                     *)
EXTENDS FdTable, TLC

Symmetry == Permutations(Callers) \cup Permutations(Files)
=============================================================================
