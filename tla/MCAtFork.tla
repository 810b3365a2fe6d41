------------------------------ MODULE MCAtFork ------------------------------
(***************************************************************************)
(* AtFork on two threads that register and fork.                           *)
(***************************************************************************)
EXTENDS AtFork

CONSTANTS t1, t2

TwoThreads == {t1, t2}
=============================================================================
