------------------------------- MODULE MCOnce -------------------------------
(***************************************************************************)
(* Once on a few threads and processes.                                    *)
(***************************************************************************)
EXTENDS Once

CONSTANTS t1, t2, t3

ThreeThreads == {t1, t2, t3}

\* A process, its child and its grandchild.
ThreePids == 1..3

BetweenCalls == {"out", "returned"}
=============================================================================
