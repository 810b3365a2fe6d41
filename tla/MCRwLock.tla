------------------------------ MODULE MCRwLock ------------------------------
(***************************************************************************)
(* RwLock on a few threads of two processes.                               *)
(***************************************************************************)
EXTENDS RwLock, TLC

CONSTANTS t1, t2, t3

ThreeThreads == {t1, t2, t3}

\* A shared lock: t1 alone in a process, t2 and t3 in another.  Every process
\* counts its thread ids from the same value, so that t1 and t2 have one id.
SharedTid == (t1 :> 1) @@ (t2 :> 1) @@ (t3 :> 2)
SharedPid == (t1 :> 1) @@ (t2 :> 2) @@ (t3 :> 2)

\* Without a timeout, which nothing forces, a timed call is the plain one.
EveryCall == (t1 :> {"tryrd", "timedwr"})
             @@ (t2 :> {"timedrd", "timedwr"})
             @@ (t3 :> {"rd", "trywr", "timedwr"})
=============================================================================
