---------------------------- MODULE AbstractLock ----------------------------
(***************************************************************************)
(* What lowlevellock.c promises of a plain (non-robust) lock, with neither *)
(* the lock word nor the kernel queue: a call is made, it is granted or    *)
(* refused, and a granted lock is released.  LowLevelLock implements it.   *)
(***************************************************************************)
CONSTANTS Threads,      \* the threads that use the lock
          Calls         \* the kinds of calls a thread may make

VARIABLES phase,        \* where each thread is: "out", "asking" or "holding"
          kind          \* the kind of the last call of each thread

avars == <<phase, kind>>

Taken == \E t \in Threads : phase[t] = "holding"

\* A call of kind "lock" has no error path.  "try" and "bad" (an invalid
\* deadline) are refused only at a moment when the lock is taken; "timed"
\* may give up at any time, since its deadline may pass at any time.
MayRefuse(k) == \/ k \in {"try", "bad"} /\ Taken
                \/ k = "timed"

AbsInit == /\ phase = [t \in Threads |-> "out"]
           /\ kind \in [Threads -> Calls]

Ask(t) == /\ phase[t] = "out"
          /\ phase' = [phase EXCEPT ![t] = "asking"]
          /\ \E k \in Calls : kind' = [kind EXCEPT ![t] = k]

Grant(t) == /\ phase[t] = "asking"
            /\ ~ Taken
            /\ phase' = [phase EXCEPT ![t] = "holding"]
            /\ UNCHANGED kind

Refuse(t) == /\ phase[t] = "asking"
             /\ MayRefuse(kind[t])
             /\ phase' = [phase EXCEPT ![t] = "out"]
             /\ UNCHANGED kind

Release(t) == /\ phase[t] = "holding"
              /\ phase' = [phase EXCEPT ![t] = "out"]
              /\ UNCHANGED kind

AbsNext == \E t \in Threads : Ask(t) \/ Grant(t) \/ Refuse(t) \/ Release(t)

AbsSpec == AbsInit /\ [][AbsNext]_avars
=============================================================================
