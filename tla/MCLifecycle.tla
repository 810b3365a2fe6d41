---------------------------- MODULE MCLifecycle ----------------------------
(***************************************************************************)
(* Lifecycle of the main thread and two that are created.                  *)
(***************************************************************************)
EXTENDS Lifecycle

CONSTANTS t1, t2, t3

ThreeThreads == {t1, t2, t3}
=============================================================================
