------------------------------ MODULE Pthreads ------------------------------
(***************************************************************************)
(* What the modules of once, barriers and thread-specific data share: the  *)
(* threads and the place of each in the code.                              *)
(***************************************************************************)

CONSTANT Threads

VARIABLE pc     \* the next step of each thread

Goto(t, l) == pc' = [pc EXCEPT ![t] = l]
=============================================================================
