----------------------------- MODULE MCPlasmaExit -----------------------------
(* Instance of PlasmaExit in which a coin that is received twice sees fewer   *)
(* exit events: a second receipt takes the place of two of them.              *)
EXTENDS PlasmaExit

CONSTANT MaxWork

Bounded == Len(log) + 2 * receives <= MaxWork
=============================================================================
