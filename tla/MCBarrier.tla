----------------------------- MODULE MCBarrier -----------------------------
(***************************************************************************)
(* Barrier on a few threads.                                               *)
(***************************************************************************)
EXTENDS Barrier

CONSTANTS t1, t2, t3

ThreeThreads == {t1, t2, t3}

\* A barrier for all three threads, and one for which there is a thread too many.
TwoOrThree == {2, 3}
=============================================================================
