--------------------------- MODULE MCSpecificData ---------------------------
(***************************************************************************)
(* SpecificData on the main thread and another one, with six keys in       *)
(* three blocks of two: a missing block counts three keys.                 *)
(***************************************************************************)
EXTENDS SpecificData

CONSTANTS m, t2

TwoThreads == {m, t2}

\* The program's own keys are the first of blocks 0 and 2.  The latter, without
\* block 1, is taken for key 5, which others have created, and without block 0
\* for a key beyond the array.
OthersKeys == Keys \ {0, 4}

\* Key 0 is created twice at most and deleted in between, key 4 is created once.
Twice == [k \in Keys |-> IF k = 0 THEN 3 ELSE IF k = 4 THEN 1 ELSE 0]
=============================================================================
