----------------------------- MODULE MCNamedSem -----------------------------
(***************************************************************************)
(* NamedSem with two threads in one task and one in another, and two       *)
(* names, of which one is a prefix of the other.                           *)
(***************************************************************************)
EXTENDS NamedSem, TLC

CONSTANTS p1, p2, q1, P, Q

TwoAndOne == {p1, p2, q1}
TwoTasks == {P, Q}
TaskOf == (p1 :> P) @@ (p2 :> P) @@ (q1 :> Q)

TwoNames == {"s", "st"}
OnePrefix == {<<"s", "st">>}
\* The two threads of one task are interchangeable.
ThreadSymmetry == Permutations({p1, p2})
=============================================================================
