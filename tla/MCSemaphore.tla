---------------------------- MODULE MCSemaphore ----------------------------
(***************************************************************************)
(* Semaphore on a few threads.                                             *)
(***************************************************************************)
EXTENDS Semaphore

CONSTANTS t1, t2, t3

ThreeThreads == {t1, t2, t3}

\* A sem_wait is a sem_timedwait that is never timed out, and one with an invalid
\* tv_nsec differs from one that times out before it sleeps in its errno only.
DistinctCalls == {"post", "timedwait", "trywait"}
=============================================================================
