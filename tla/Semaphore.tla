----------------------------- MODULE Semaphore -----------------------------
(***************************************************************************)
(* pthread/sem.c: one unnamed semaphore.  The 64-bit word is its count lo  *)
(* (the semaphore's value) and hi (the number of waiters).  sem_post and   *)
(* the slow path of sem_wait exchange both together; the fast path         *)
(* exchanges lo only, and registering adds to hi only.  Waiters sleep in   *)
(* gsync on the address of lo (pc "asleep").                               *)
(***************************************************************************)
EXTENDS Integers, FiniteSets

CONSTANTS Threads,        \* the threads that use the semaphore
          Calls,          \* the kinds of calls they make
          SEM_VALUE_MAX,  \* the largest value
          Initial,        \* the value given to sem_init
          Cancellable     \* may the threads be cancelled?

\* "bad" is a sem_timedwait whose tv_nsec is out of range.
WaitCalls == {"wait", "timedwait", "bad", "trywait"}
AllCalls  == WaitCalls \cup {"post"}

ASSUME SemAssumption ==
  /\ IsFiniteSet(Threads)
  /\ Calls \subseteq AllCalls
  /\ SEM_VALUE_MAX \in Nat /\ Initial \in 0..SEM_VALUE_MAX
  /\ Cancellable \in BOOLEAN

VARIABLES lo, hi,   \* __val_nw: the value and the number of waiters
          units,    \* history: the value that the results of the calls add up to
          pc,       \* the next step of each thread
          call,     \* the kind of the call each thread is in
          tmp       \* the value and the waiters each thread loaded

value == <<lo, units>>
vars  == <<value, hi, pc, call, tmp>>

\* "pload" to "pwake" are sem_post, "tload" and "tcas" __sem_trywait, and
\* "register" to "leave" the slow path; "unwind" is the cleanup of a cancelled
\* waiter, which ends "cancelled".
PostPCs == {"pload", "pcas", "pwake"}
SlowPCs == {"load", "cas", "begin", "wait", "asleep", "woken", "leave", "unwind"}
PCs == {"out", "tload", "tcas", "register", "cancelled"} \cup PostPCs \cup SlowPCs

Unloaded == [lo |-> 0, hi |-> 0]

TypeOK == /\ lo \in 0..SEM_VALUE_MAX
          /\ hi \in Nat /\ units \in Int
          /\ pc \in [Threads -> PCs]
          /\ call \in [Threads -> Calls \cup {"none"}]
          /\ tmp \in [Threads -> [lo : Nat, hi : Nat]]

\* sem_init
Init == /\ lo = Initial /\ hi = 0 /\ units = Initial
        /\ pc = [t \in Threads |-> "out"]
        /\ call = [t \in Threads |-> "none"]
        /\ tmp = [t \in Threads |-> Unloaded]

-----------------------------------------------------------------------------

Goto(t, l) == pc' = [pc EXCEPT ![t] = l]
LoadBoth(t) == tmp' = [tmp EXCEPT ![t] = [lo |-> lo, hi |-> hi]]

\* The call of t returns; what it loaded is dead, and forgotten.
Pop(t) == /\ call' = [call EXCEPT ![t] = "none"]
          /\ tmp' = [tmp EXCEPT ![t] = Unloaded]

Return(t) == Goto(t, "out") /\ Pop(t)

\* A sem_post or a wait that is going to return 0.
Add(n) == lo' = lo + n /\ units' = units + n

Enter(t) == /\ pc[t] = "out"
            /\ \E c \in Calls : /\ call' = [call EXCEPT ![t] = c]
                                /\ Goto(t, IF c = "post" THEN "pload" ELSE "tload")
            /\ UNCHANGED <<value, hi, tmp>>

-----------------------------------------------------------------------------
\* sem_post

\* atomic_loadx; at SEM_VALUE_MAX sem_post fails with EOVERFLOW.
PostLoad(t) == /\ pc[t] = "pload"
               /\ \/ lo = SEM_VALUE_MAX /\ Return(t)
                  \/ lo # SEM_VALUE_MAX /\ LoadBoth(t) /\ Goto(t, "pcas") /\ UNCHANGED call
               /\ UNCHANGED <<value, hi>>

PostCasIgnoresWaiters(t) ==
  /\ pc[t] = "pcas"
  /\ IF lo = tmp[t].lo
     THEN /\ Add(1)
          /\ \/ tmp[t].hi > 0 /\ Goto(t, "pwake") /\ UNCHANGED <<call, tmp>>
             \/ tmp[t].hi = 0 /\ Return(t)
     ELSE Goto(t, "pload") /\ UNCHANGED <<value, call, tmp>>
  /\ UNCHANGED hi

\* atomic_casx_bool of both halves; with waiters, one is woken next.
PostCas(t) ==
  /\ pc[t] = "pcas"
  /\ IF lo = tmp[t].lo /\ hi = tmp[t].hi
     THEN /\ Add(1)
          /\ \/ hi > 0 /\ Goto(t, "pwake") /\ UNCHANGED <<call, tmp>>
             \/ hi = 0 /\ Return(t)
     ELSE Goto(t, "pload") /\ UNCHANGED <<value, call, tmp>>
  /\ UNCHANGED hi

Sleepers == {t \in Threads : pc[t] = "asleep"}

\* lll_wake of one thread, whichever the kernel picks.
PostWake(t) == /\ pc[t] = "pwake"
               /\ \/ Sleepers = {} /\ Goto(t, "out")
                  \/ \E u \in Sleepers : pc' = [pc EXCEPT ![t] = "out", ![u] = "woken"]
               /\ Pop(t)
               /\ UNCHANGED <<value, hi>>

-----------------------------------------------------------------------------
\* __sem_trywait, the whole of sem_trywait and the fast path of the others

\* atomic_load of lo: at 0 sem_trywait fails with EAGAIN, the others go on to
\* the slow path.
TryLoad(t) == /\ pc[t] = "tload"
              /\ \/ lo > 0 /\ LoadBoth(t) /\ Goto(t, "tcas") /\ UNCHANGED call
                 \/ lo = 0 /\ call[t] = "trywait" /\ Return(t)
                 \/ lo = 0 /\ call[t] # "trywait" /\ Goto(t, "register") /\ UNCHANGED <<call, tmp>>
              /\ UNCHANGED <<value, hi>>

TryStore(t) == /\ pc[t] = "tcas"
               /\ lo' = tmp[t].lo - 1 /\ units' = units - 1 /\ Return(t)
               /\ UNCHANGED hi

\* atomic_cas_bool of lo alone.
TryCas(t) == /\ pc[t] = "tcas"
             /\ \/ lo = tmp[t].lo /\ Add(-1) /\ Return(t)
                \/ lo # tmp[t].lo /\ Goto(t, "tload") /\ UNCHANGED <<value, call, tmp>>
             /\ UNCHANGED hi

-----------------------------------------------------------------------------
\* The slow path of sem_wait and sem_timedwait

\* atomic_addx_hi (+1), and the cleanup handler is pushed.
Register(t) == /\ pc[t] = "register"
               /\ hi' = hi + 1
               /\ Goto(t, "load")
               /\ UNCHANGED <<value, call, tmp>>

\* atomic_loadx; at 0 an invalid tv_nsec makes sem_timedwait leave.
Load(t) == /\ pc[t] = "load"
           /\ \/ lo > 0 /\ LoadBoth(t) /\ Goto(t, "cas")
              \/ lo = 0 /\ Goto(t, IF call[t] = "bad" THEN "leave" ELSE "begin") /\ UNCHANGED tmp
           /\ UNCHANGED <<value, hi, call>>

\* atomic_casx_bool takes a unit and leaves the waiters at once.
Cas(t) == /\ pc[t] = "cas"
          /\ IF lo = tmp[t].lo /\ hi = tmp[t].hi
             THEN Add(-1) /\ hi' = hi - 1 /\ Return(t)
             ELSE Goto(t, "load") /\ UNCHANGED <<value, hi, call, tmp>>

\* __pthread_cancelpoint_begin: from here to the end a cancellation is
\* asynchronous.
Begin(t) == /\ pc[t] = "begin"
            /\ Goto(t, "wait")
            /\ UNCHANGED <<value, hi, call, tmp>>

WaitUnconditionally(t) == /\ pc[t] = "wait"
                          /\ Goto(t, "asleep")
                          /\ UNCHANGED <<value, hi, call, tmp>>

\* gsync_wait (&lo, 0): returns at once unless lo is still 0.
Wait(t) == /\ pc[t] = "wait"
           /\ Goto(t, IF lo = 0 THEN "asleep" ELSE "woken")
           /\ UNCHANGED <<value, hi, call, tmp>>

\* The wait returned; __pthread_cancelpoint_end, and around the loop.
End(t) == /\ pc[t] = "woken"
          /\ Goto(t, "load")
          /\ UNCHANGED <<value, hi, call, tmp>>

CleanupOnlyOnReturn(t) == /\ \/ pc[t] = "leave" /\ Goto(t, "out") /\ hi' = hi - 1
                             \/ pc[t] = "unwind" /\ Goto(t, "cancelled") /\ UNCHANGED hi
                          /\ Pop(t)
                          /\ UNCHANGED value

\* KERN_INTERRUPTED, or for sem_timedwait KERN_TIMEDOUT, possibly without a
\* wait: EINTR or ETIMEDOUT.
GiveUp(t) == /\ \/ pc[t] = "asleep"
                \/ pc[t] = "wait" /\ call[t] = "timedwait"
             /\ Goto(t, "leave")
             /\ UNCHANGED <<value, hi, call, tmp>>

\* The cleanup handler, atomic_addx_hi (-1), run by pthread_cleanup_pop or by
\* the exit of a cancelled thread.
Cleanup(t) == /\ \/ pc[t] = "leave" /\ Goto(t, "out")
                 \/ pc[t] = "unwind" /\ Goto(t, "cancelled")
              /\ hi' = hi - 1
              /\ Pop(t)
              /\ UNCHANGED value

\* pthread_cancel makes a thread that is in the cancellation point, even one
\* the kernel has just woken, run exit_thread.
Cancel(t) == /\ Cancellable
             /\ pc[t] \in {"wait", "asleep", "woken"}
             /\ Goto(t, "unwind")
             /\ UNCHANGED <<value, hi, call, tmp>>

-----------------------------------------------------------------------------

Step(t) == \/ PostLoad(t) \/ PostCas(t) \/ PostWake(t)
           \/ TryLoad(t) \/ TryCas(t)
           \/ Register(t) \/ Load(t) \/ Cas(t) \/ Begin(t) \/ Wait(t) \/ End(t)
           \/ Cleanup(t)

Next == \E t \in Threads : Enter(t) \/ Step(t) \/ GiveUp(t) \/ Cancel(t)

Spec == Init /\ [][Next]_vars

\* Running threads run on; no call, timeout or cancellation is forced.
Fairness == \A t \in Threads : WF_vars(Step(t))

FairSpec == Spec /\ Fairness

-----------------------------------------------------------------------------

Waiters == {t \in Threads : pc[t] \in SlowPCs}
Wakers  == {t \in Threads : pc[t] = "pwake"}

\* Waiters that will load lo once more before they can sleep or leave, and
\* cancelled ones, which may take a wake with them.
Gone    == {t \in Threads : pc[t] \in {"unwind", "cancelled"}}
Looking == {t \in Threads : pc[t] \in {"load", "cas", "woken"}} \cup Gone

\* hi counts the waiters exactly, so that sem_post never skips a needed wake
\* and sem_destroy is EBUSY exactly while somebody waits.
WaitersCounted == hi = Cardinality(Waiters)

\* sem_post: while somebody sleeps, each unit of the value is matched by a wake on
\* its way, by a waiter that will look again, or by a cancelled one: no unit is
\* left beside a sleeper, though units are stolen by the fast path and waiters
\* give up, but for one at most for each cancellation.
NoLostWakeup == \/ Sleepers = {}
                \/ lo <= Cardinality(Wakers) + Cardinality(Looking)

\* Once no new calls are made, every call returns in the end, or its thread is
\* cancelled, or it sleeps in sem_wait for a unit that is not there.
NewCalls == \E t \in Threads : Enter(t)

CallsReturn == \/ []<><<NewCalls>>_vars
               \/ <>[](\A t \in Threads : \/ pc[t] \in {"out", "cancelled"}
                                          \/ pc[t] = "asleep" /\ lo <= Cardinality(Gone))

-----------------------------------------------------------------------------

\* The call of a thread that has yet to take effect: it has, or never will, before
\* the thread wakes another or runs the cleanup.
Doing == [t \in Threads |-> IF pc[t] \in {"unwind", "cancelled"} THEN "cancelled"
                            ELSE IF pc[t] \in {"pwake", "leave"} THEN "none"
                            ELSE call[t]]

Abs == INSTANCE AbstractSemaphore WITH value <- units, doing <- Doing

\* A sem_post that returns 0 added one unit and a wait that returns 0 took one, and
\* none was taken that was not there, whatever races with it; EOVERFLOW and EAGAIN
\* are told at a moment when the value is at its limit; and a wait that times out or
\* is interrupted or cancelled took nothing.
ImplementsAbstractSemaphore == Abs!AbsSpec
=============================================================================
