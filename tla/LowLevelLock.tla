---------------------------- MODULE LowLevelLock ----------------------------
(***************************************************************************)
(* The plain low-level lock of pthread/lowlevellock.c: lll_lock,           *)
(* __lll_abstimed_lock, lll_trylock and lll_unlock over one lock word.     *)
(* Every atomic access to the word and every gsync RPC is a step of its    *)
(* own; the kernel's wait queue on the word is the set of the threads      *)
(* whose pc is "asleep".                                                   *)
(*                                                                         *)
(* The word is 0 when free, 1 when taken and 2 when taken with a thread    *)
(* that may be waiting.                                                    *)
(***************************************************************************)
EXTENDS Naturals

CONSTANTS Threads,      \* the threads that use the lock
          Calls         \* the kinds of calls they make

\* "bad" is an __lll_abstimed_lock whose tv_nsec is out of range.
AllCalls == {"lock", "timed", "bad", "try"}

ASSUME CallsAssumption == Calls \subseteq AllCalls

VARIABLES word,         \* *ptr
          pc,           \* the next step of each thread
          call          \* the kind of the last call of each thread

vars == <<word, pc, call>>

\* "out" is outside; "test" and "cas" are the fast path, "swap" and "wait"
\* the loop, "held" owns the lock, "wake" is between the two halves of
\* lll_unlock.
PCs == {"out", "test", "cas", "swap", "wait", "asleep", "held", "wake"}

Inside == {"test", "cas", "swap", "wait", "asleep"}

TypeOK == /\ word \in 0..2
          /\ pc \in [Threads -> PCs]
          /\ call \in [Threads -> Calls]

Init == /\ word = 0
        /\ pc = [t \in Threads |-> "out"]
        /\ call \in [Threads -> Calls]

-----------------------------------------------------------------------------

Goto(t, l) == pc' = [pc EXCEPT ![t] = l]

Sleepers == {t \in Threads : pc[t] = "asleep"}

Timed(t) == call[t] = "timed"

\* A thread enters lll_lock, __lll_abstimed_lock or lll_trylock.
Enter(t) == /\ pc[t] = "out"
            /\ \E c \in Calls : call' = [call EXCEPT ![t] = c]
            /\ Goto(t, "test")
            /\ UNCHANGED word

\* The fast path failed: lll_trylock returns EBUSY, the others loop.
FastPathFailed(t) == /\ Goto(t, IF call[t] = "try" THEN "out" ELSE "swap")
                     /\ UNCHANGED word

\* The plain read *iptr == 0 of the fast path.
Test(t) == /\ pc[t] = "test"
           /\ \/ word = 0 /\ Goto(t, "cas") /\ UNCHANGED word
              \/ word # 0 /\ FastPathFailed(t)
           /\ UNCHANGED call

CasAssumed(t) == /\ pc[t] = "cas"
                 /\ word' = 1 /\ Goto(t, "held")
                 /\ UNCHANGED call

\* atomic_cas_bool (iptr, 0, 1).
Cas(t) == /\ pc[t] = "cas"
          /\ \/ word = 0 /\ word' = 1 /\ Goto(t, "held")
             \/ word # 0 /\ FastPathFailed(t)
          /\ UNCHANGED call

SwapTakesOne(t) == /\ pc[t] = "swap"
                   /\ word' = IF word = 0 THEN 1 ELSE 2
                   /\ \/ word = 0 /\ Goto(t, "held")
                      \/ word # 0 /\ Goto(t, IF call[t] = "bad" THEN "out" ELSE "wait")
                   /\ UNCHANGED call

SwapIgnoresTwo(t) == /\ pc[t] = "swap"
                     /\ word' = 2
                     /\ \/ word # 1 /\ Goto(t, "held")
                        \/ word = 1 /\ Goto(t, IF call[t] = "bad" THEN "out" ELSE "wait")
                     /\ UNCHANGED call

\* atomic_swap (iptr, 2): the lock is taken if the old word was 0.  With an
\* invalid tv_nsec a failed swap returns EINVAL, and the word stays 2.
Swap(t) == /\ pc[t] = "swap"
           /\ word' = 2
           /\ \/ word = 0 /\ Goto(t, "held")
              \/ word # 0 /\ Goto(t, IF call[t] = "bad" THEN "out" ELSE "wait")
           /\ UNCHANGED call

\* gsync_wait (ptr, 2): returns at once unless the word is still 2.
Wait(t) == /\ pc[t] = "wait"
           /\ Goto(t, IF word = 2 THEN "asleep" ELSE "swap")
           /\ UNCHANGED <<word, call>>

\* compute_reltime < 0: the deadline was past before the wait.
Expired(t) == /\ pc[t] = "wait" /\ Timed(t)
              /\ Goto(t, "out")
              /\ UNCHANGED <<word, call>>

\* gsync_wait returns KERN_TIMEDOUT: ETIMEDOUT, and the word is left alone.
Timeout(t) == /\ pc[t] = "asleep" /\ Timed(t)
              /\ Goto(t, "out")
              /\ UNCHANGED <<word, call>>

\* gsync_wait returns KERN_INTERRUPTED: the loop ignores it.
Interrupted(t) == /\ pc[t] = "asleep"
                  /\ Goto(t, "swap")
                  /\ UNCHANGED <<word, call>>

\* The swap of lll_unlock; only the owner calls it.
Unlock(t) == /\ pc[t] = "held"
             /\ word' = 0
             /\ Goto(t, IF word # 1 THEN "wake" ELSE "out")
             /\ UNCHANGED call

WakesNobody(t) == /\ pc[t] = "wake"
                  /\ Goto(t, "out")
                  /\ UNCHANGED <<word, call>>

\* gsync_wake of one thread, whichever the kernel picks, if any waits.
Wake(t) == /\ pc[t] = "wake"
           /\ \/ Sleepers = {} /\ Goto(t, "out")
              \/ \E s \in Sleepers : pc' = [pc EXCEPT ![t] = "out", ![s] = "swap"]
           /\ UNCHANGED <<word, call>>

-----------------------------------------------------------------------------

\* The steps the code takes by itself, once called.
Step(t) == \/ Test(t) \/ Cas(t) \/ Swap(t) \/ Wait(t) \/ Wake(t)

Next == \E t \in Threads : \/ Enter(t) \/ Step(t) \/ Unlock(t)
                           \/ Expired(t) \/ Timeout(t) \/ Interrupted(t)

Spec == Init /\ [][Next]_vars

\* Running threads run on and owners unlock; nobody has to call, and no
\* sleeper is ever timed out or interrupted by fairness alone.
Fairness == \A t \in Threads : WF_vars(Step(t)) /\ WF_vars(Unlock(t))

FairSpec == Spec /\ Fairness

-----------------------------------------------------------------------------

Holders == {t \in Threads : pc[t] = "held"}

\* lll_lock, __lll_abstimed_lock and lll_trylock never return 0 to two
\* threads, and the word is nonzero exactly while one of them owns it (so that
\* EBUSY, EINVAL and the slow path are taken only when it does).
MutualExclusion == /\ \A t, u \in Holders : t = u
                   /\ word = 0 <=> Holders = {}

\* A thread sleeping in the kernel is never forgotten: either the word is 2, so
\* that the owner's lll_unlock will wake, or somebody is between the swap
\* of lll_unlock and its wake, or an awake thread is about to store 2.  This
\* is what makes it safe for a woken thread to store 2 without knowing
\* whether others sleep, and for one that gave up to leave the 2 behind.
NoLostWakeup == Sleepers # {} => \/ word = 2
                                 \/ \E t \in Threads : pc[t] \in {"wake", "swap"}

NewCalls == \E t \in Threads : Enter(t)

\* Once no new calls are made, every call of lll_lock, __lll_abstimed_lock and
\* lll_trylock returns.  (While new calls keep coming, the lock may be
\* stolen from a woken thread for ever.)
CallsReturn == \/ []<><<NewCalls>>_vars
               \/ \A t \in Threads : pc[t] \in Inside ~> pc[t] \notin Inside

-----------------------------------------------------------------------------

Abs == INSTANCE AbstractLock WITH
         phase <- [t \in Threads |-> IF pc[t] = "held" THEN "holding"
                                     ELSE IF pc[t] \in Inside THEN "asking"
                                     ELSE "out"],
         kind  <- call

\* The lock is an AbstractLock: a refused lll_trylock, or an EINVAL, happens at a
\* moment when the lock is taken, and lll_lock is never refused.
ImplementsAbstractLock == Abs!AbsSpec
=============================================================================
