----------------------------- MODULE MCIoCalls -----------------------------
(* Model-checking instances of IoCalls: coroutines that wait with a timeout, *)
(* that read a file, and others.                                             *)
EXTENDS IoCalls, TLC
=============================================================================
