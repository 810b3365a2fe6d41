------------------------------ MODULE MCCancel ------------------------------
(***************************************************************************)
(* Cancel with two threads that call pthread_cancel.                       *)
(***************************************************************************)
EXTENDS Cancel

CONSTANTS c1, c2

TwoCancellers == {c1, c2}
=============================================================================
