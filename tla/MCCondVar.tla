----------------------------- MODULE MCCondVar -----------------------------
(***************************************************************************)
(* CondVar on a few threads.                                               *)
(***************************************************************************)
EXTENDS CondVar

CONSTANTS t1, t2, t3

ThreeThreads == {t1, t2, t3}

OneThread == {t1}
OtherThread == {t2}

\* Private and shared.
Both == BOOLEAN

\* Two notifications of a private condition, whose broadcasts requeue, one of a
\* shared one, in which a wait may be interrupted.
Notifications == [s \in BOOLEAN |-> IF s THEN 1 ELSE 2]
Leaks         == [s \in BOOLEAN |-> IF s THEN 1 ELSE 0]
=============================================================================
