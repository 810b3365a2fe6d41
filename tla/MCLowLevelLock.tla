--------------------------- MODULE MCLowLevelLock ---------------------------
(***************************************************************************)
(* LowLevelLock on a few threads.                                          *)
(***************************************************************************)
EXTENDS LowLevelLock

CONSTANTS t1, t2, t3

ThreeThreads == {t1, t2, t3}
=============================================================================
