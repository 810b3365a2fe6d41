------------------------- MODULE AbstractSemaphore -------------------------
(***************************************************************************)
(* What sem.c promises of a semaphore, with neither waiters nor a queue:   *)
(* a call is made, and either takes effect at one moment, a unit more or a *)
(* unit less, or has none.  Semaphore implements it.                       *)
(***************************************************************************)
EXTENDS Naturals

CONSTANTS Threads,        \* the threads that use the semaphore
          Calls,          \* the kinds of calls they make
          SEM_VALUE_MAX,  \* the largest value
          Initial         \* the value given to sem_init

VARIABLES value,   \* the value of the semaphore
          doing    \* the call of each thread that has yet to take effect,
                   \* "none" or, for a thread that is no more, "cancelled"

avars == <<value, doing>>

AbsInit == /\ value = Initial
           /\ doing = [t \in Threads |-> "none"]

Become(t, d) == doing' = [doing EXCEPT ![t] = d]

\* A full semaphore refuses a post, an empty one a sem_trywait.  A wait may
\* be interrupted, or find its deadline past or malformed, at any moment.
MayRefuse(c) == \/ c = "post" /\ value = SEM_VALUE_MAX
                \/ c = "trywait" /\ value = 0
                \/ c \in {"wait", "timedwait", "bad"}

Ask(t) == /\ doing[t] = "none"
          /\ \E c \in Calls : Become(t, c)
          /\ UNCHANGED value

Post(t) == /\ doing[t] = "post" /\ value < SEM_VALUE_MAX
           /\ value' = value + 1
           /\ Become(t, "none")

Take(t) == /\ doing[t] \in Calls \ {"post"} /\ value > 0
           /\ value' = value - 1
           /\ Become(t, "none")

Refuse(t) == /\ doing[t] \in Calls /\ MayRefuse(doing[t])
             /\ Become(t, "none")
             /\ UNCHANGED value

\* Only the calls that may sleep are cancellation points.
Cancelled(t) == /\ doing[t] \in Calls \ {"post", "trywait"}
                /\ Become(t, "cancelled")
                /\ UNCHANGED value

AbsNext == \E t \in Threads :
             Ask(t) \/ Post(t) \/ Take(t) \/ Refuse(t) \/ Cancelled(t)

AbsSpec == AbsInit /\ [][AbsNext]_avars
=============================================================================
