------------------------------- MODULE MCMutex -------------------------------
(***************************************************************************)
(* Mutex with two processes: the main threads, both with id 1, and a       *)
(* second thread in one of them.                                           *)
(***************************************************************************)
EXTENDS Mutex, TLC

CONSTANTS a1, b1, b2, A, B

TwoMainsAndAThread == {a1, b1, b2}
BothProcesses == {A, B}
PidOf == (a1 :> A) @@ (b1 :> B) @@ (b2 :> B)
IdOf == (a1 :> 1) @@ (b1 :> 1) @@ (b2 :> 2)

\* Every kind that is not robust, and a robust recursive one: the types of a
\* robust mutex differ only in what its owner is told.
SomeKinds == [type : Types, shared : BOOLEAN, robust : BOOLEAN]
             \ {[type |-> y, shared |-> TRUE, robust |-> TRUE] : y \in {"normal", "errorcheck"}}

\* Without a timeout, which nothing forces, a timed call is the plain one, but for
\* what the one of an errorcheck mutex compares.
SomeCalls == (a1 :> {"timed", "try"}) @@ (b1 :> {"lock", "try"}) @@ (b2 :> {"timed"})

\* Nothing is promised after a torn look at the owner: it is not gone on from.
NotTorn == ~torn
=============================================================================
