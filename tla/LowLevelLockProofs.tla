------------------------- MODULE LowLevelLockProofs -------------------------
(***************************************************************************)
(* For every set of threads: the low-level lock is type correct, mutually  *)
(* exclusive, loses no wakeup, and implements AbstractLock.  The first     *)
(* three invariants are inductive together.                                *)
(***************************************************************************)
EXTENDS LowLevelLock, TLAPS

\* Every step of LowLevelLock keeps the variables in their types.
LEMMA TypeCorrect == Spec => []TypeOK
<1>1. Init => TypeOK
  BY DEF Init, TypeOK, PCs
<1>2. TypeOK /\ [Next]_vars => TypeOK'
  <2> SUFFICES ASSUME TypeOK, [Next]_vars PROVE TypeOK'
    OBVIOUS
  <2> USE DEF TypeOK, PCs, Goto, FastPathFailed
  <2>1. ASSUME NEW t \in Threads, Enter(t) PROVE TypeOK'
    BY <2>1 DEF Enter
  <2>2. ASSUME NEW t \in Threads, Step(t) PROVE TypeOK'
    <3>1. CASE Test(t)
      BY <3>1 DEF Test
    <3>2. CASE Cas(t)
      BY <3>2 DEF Cas
    <3>3. CASE Swap(t)
      BY <3>3 DEF Swap
    <3>4. CASE Wait(t)
      BY <3>4 DEF Wait
    <3>5. CASE Wake(t)
      BY <3>5 DEF Wake, Sleepers
    <3> QED BY <2>2, <3>1, <3>2, <3>3, <3>4, <3>5 DEF Step
  <2>3. ASSUME NEW t \in Threads, Unlock(t) PROVE TypeOK'
    BY <2>3 DEF Unlock
  <2>4. ASSUME NEW t \in Threads, Expired(t) \/ Timeout(t) \/ Interrupted(t) PROVE TypeOK'
    BY <2>4 DEF Expired, Timeout, Interrupted
  <2>5. CASE UNCHANGED vars
    BY <2>5 DEF vars
  <2> QED BY <2>1, <2>2, <2>3, <2>4, <2>5 DEF Next
<1> QED BY <1>1, <1>2, PTL DEF Spec

-----------------------------------------------------------------------------

\* Only the three steps below touch ownership; the lemma says what each of
\* the other steps of a thread leaves alone.
LEMMA OwnershipStep ==
  ASSUME TypeOK, NEW t \in Threads,
         \/ Enter(t) \/ Test(t) \/ Wait(t) \/ Wake(t)
         \/ Expired(t) \/ Timeout(t) \/ Interrupted(t)
  PROVE  word' = word /\ Holders' = Holders
  BY DEF TypeOK, PCs, Goto, FastPathFailed, Holders, Sleepers,
         Enter, Test, Wait, Wake, Expired, Timeout, Interrupted

\* At most one of the threads owns the lock, and the word is 0 exactly when none
\* does: MutualExclusion of lll_lock, __lll_abstimed_lock and lll_trylock.
THEOREM MutexTheorem == Spec => []MutualExclusion
<1>1. Init => MutualExclusion
  BY DEF Init, MutualExclusion, Holders
<1>2. TypeOK /\ MutualExclusion /\ [Next]_vars => MutualExclusion'
  <2> SUFFICES ASSUME TypeOK, MutualExclusion, [Next]_vars PROVE MutualExclusion'
    OBVIOUS
  <2> USE DEF MutualExclusion
  <2>1. ASSUME NEW t \in Threads,
               \/ Enter(t) \/ Test(t) \/ Wait(t) \/ Wake(t)
               \/ Expired(t) \/ Timeout(t) \/ Interrupted(t)
        PROVE  MutualExclusion'
    BY <2>1, OwnershipStep
  <2>2. ASSUME NEW t \in Threads, Cas(t) PROVE MutualExclusion'
    BY <2>2 DEF Cas, FastPathFailed, Goto, Holders, TypeOK
  <2>3. ASSUME NEW t \in Threads, Swap(t) PROVE MutualExclusion'
    BY <2>3 DEF Swap, Goto, Holders, TypeOK
  <2>4. ASSUME NEW t \in Threads, Unlock(t) PROVE MutualExclusion'
    BY <2>4 DEF Unlock, Goto, Holders, TypeOK
  <2>5. CASE UNCHANGED vars
    BY <2>5 DEF vars, Holders
  <2> QED BY <2>1, <2>2, <2>3, <2>4, <2>5 DEF Next, Step
<1> QED BY <1>1, <1>2, TypeCorrect, PTL DEF Spec

-----------------------------------------------------------------------------

\* No step loses the wakeup of a sleeper: a thread sleeps in gsync_wait only
\* while the word is 2 or another thread is on its way to wake or store 2.
THEOREM WakeupTheorem == Spec => []NoLostWakeup
<1>1. Init => NoLostWakeup
  BY DEF Init, NoLostWakeup, Sleepers
<1>2. TypeOK /\ NoLostWakeup /\ [Next]_vars => NoLostWakeup'
  <2> SUFFICES ASSUME TypeOK, NoLostWakeup, [Next]_vars, (Sleepers # {})'
               PROVE  \/ word' = 2
                      \/ \E t \in Threads : pc'[t] \in {"wake", "swap"}
    BY DEF NoLostWakeup
  <2> DEFINE Rescuer == \E t \in Threads : pc[t] \in {"wake", "swap"}
  <2> USE DEF TypeOK, PCs, Goto, Sleepers
  <2>1. ASSUME NEW t \in Threads, Enter(t) \/ Test(t) PROVE Sleepers # {} /\ (Rescuer => Rescuer')
    BY <2>1 DEF Enter, Test, FastPathFailed
  <2>2. ASSUME NEW t \in Threads, Enter(t) \/ Test(t) PROVE word' = 2 \/ Rescuer'
    BY <2>1, <2>2 DEF NoLostWakeup, Enter, Test, FastPathFailed
  <2>3. ASSUME NEW t \in Threads, Cas(t) PROVE word' = 2 \/ Rescuer'
    <3>1. Sleepers # {}
      BY <2>3 DEF Cas, FastPathFailed
    <3>2. Rescuer => Rescuer'
      BY <2>3 DEF Cas, FastPathFailed
    <3> QED BY <3>1, <3>2, <2>3 DEF NoLostWakeup, Cas, FastPathFailed
  <2>4. ASSUME NEW t \in Threads, Swap(t) PROVE word' = 2
    BY <2>4 DEF Swap
  <2>5. ASSUME NEW t \in Threads, Wait(t) PROVE word' = 2 \/ Rescuer'
    BY <2>5 DEF Wait
  <2>6. ASSUME NEW t \in Threads, Wake(t) PROVE Rescuer'
    <3>1. PICK s \in Sleepers : pc' = [pc EXCEPT ![t] = "out", ![s] = "swap"]
      BY <2>6 DEF Wake
    <3> QED BY <3>1, <2>6 DEF Wake
  <2>7. ASSUME NEW t \in Threads, Expired(t) \/ Timeout(t) PROVE word' = 2 \/ Rescuer'
    <3>1. Sleepers # {}
      BY <2>7 DEF Expired, Timeout
    <3>2. Rescuer => Rescuer'
      BY <2>7 DEF Expired, Timeout
    <3> QED BY <3>1, <3>2, <2>7 DEF NoLostWakeup, Expired, Timeout
  <2>8. ASSUME NEW t \in Threads, Interrupted(t) PROVE Rescuer'
    BY <2>8 DEF Interrupted
  <2>9. ASSUME NEW t \in Threads, Unlock(t) PROVE word' = 2 \/ Rescuer'
    <3>1. Sleepers # {}
      BY <2>9 DEF Unlock
    <3>2. Rescuer => Rescuer'
      BY <2>9 DEF Unlock
    <3>3. word = 2 => Rescuer'
      BY <2>9 DEF Unlock
    <3> QED BY <3>1, <3>2, <3>3 DEF NoLostWakeup
  <2>10. CASE UNCHANGED vars
    BY <2>10 DEF NoLostWakeup, vars
  <2> QED BY <2>2, <2>3, <2>4, <2>5, <2>6, <2>7, <2>8, <2>9, <2>10 DEF Next, Step
<1> QED BY <1>1, <1>2, TypeCorrect, PTL DEF Spec

-----------------------------------------------------------------------------

\* The lock word and the kernel queue implement AbstractLock: a call is granted
\* only when nobody holds the lock, and lll_trylock is refused only when somebody
\* does.  MutualExclusion is what ties the word to the holders.
THEOREM RefinementTheorem == Spec => ImplementsAbstractLock
<1> DEFINE Phase == [t \in Threads |-> IF pc[t] = "held" THEN "holding"
                                       ELSE IF pc[t] \in Inside THEN "asking"
                                       ELSE "out"]
<1>1. Init => Abs!AbsInit
  BY DEF Init, Abs!AbsInit, Inside
<1>2. TypeOK /\ MutualExclusion /\ [Next]_vars => [Abs!AbsNext]_(Abs!avars)
  <2> SUFFICES ASSUME TypeOK, MutualExclusion, [Next]_vars
               PROVE  \/ UNCHANGED <<Phase, call>>
                      \/ \E t \in Threads : \/ Abs!Ask(t) \/ Abs!Grant(t)
                                            \/ Abs!Refuse(t) \/ Abs!Release(t)
    BY DEF Abs!AbsNext, Abs!avars
  <2> USE DEF TypeOK, PCs, Inside, Goto
  <2>a. Abs!Taken <=> Holders # {}
    BY DEF Abs!Taken, Holders
  <2>1. ASSUME NEW t \in Threads, Enter(t) PROVE Abs!Ask(t)
    BY <2>1 DEF Enter, Abs!Ask
  <2>2. ASSUME NEW t \in Threads, FastPathFailed(t), UNCHANGED call,
               pc[t] \in {"test", "cas"}, word # 0
        PROVE  UNCHANGED <<Phase, call>> \/ Abs!Refuse(t)
    <3>1. CASE call[t] = "try"
      BY <2>2, <2>a, <3>1 DEF FastPathFailed, Abs!Refuse, Abs!MayRefuse, MutualExclusion
    <3>2. CASE call[t] # "try"
      BY <2>2, <3>2 DEF FastPathFailed
    <3> QED BY <3>1, <3>2
  <2>3. ASSUME NEW t \in Threads, Test(t) PROVE UNCHANGED <<Phase, call>> \/ Abs!Refuse(t)
    <3>1. CASE word = 0
      BY <2>3, <3>1 DEF Test
    <3>2. CASE word # 0
      BY <2>2, <2>3, <3>2 DEF Test
    <3> QED BY <3>1, <3>2
  <2>4. ASSUME NEW t \in Threads, Cas(t)
        PROVE  UNCHANGED <<Phase, call>> \/ Abs!Refuse(t) \/ Abs!Grant(t)
    <3>1. CASE word = 0
      BY <2>4, <2>a, <3>1 DEF Cas, Abs!Grant, MutualExclusion
    <3>2. CASE word # 0
      BY <2>2, <2>4, <3>2 DEF Cas
    <3> QED BY <3>1, <3>2
  <2>5. ASSUME NEW t \in Threads, Swap(t)
        PROVE  UNCHANGED <<Phase, call>> \/ Abs!Refuse(t) \/ Abs!Grant(t)
    <3>1. CASE word = 0
      BY <2>5, <2>a, <3>1 DEF Swap, Abs!Grant, MutualExclusion
    <3>2. CASE word # 0 /\ call[t] = "bad"
      BY <2>5, <2>a, <3>2 DEF Swap, Abs!Refuse, Abs!MayRefuse, MutualExclusion
    <3>3. CASE word # 0 /\ call[t] # "bad"
      BY <2>5, <3>3 DEF Swap
    <3> QED BY <3>1, <3>2, <3>3
  <2>6. ASSUME NEW t \in Threads, Wait(t) \/ Interrupted(t) PROVE UNCHANGED <<Phase, call>>
    BY <2>6 DEF Wait, Interrupted
  <2>7. ASSUME NEW t \in Threads, Wake(t) PROVE UNCHANGED <<Phase, call>>
    BY <2>7 DEF Wake, Sleepers
  <2>8. ASSUME NEW t \in Threads, Expired(t) \/ Timeout(t) PROVE Abs!Refuse(t)
    BY <2>8 DEF Expired, Timeout, Timed, Abs!Refuse, Abs!MayRefuse
  <2>9. ASSUME NEW t \in Threads, Unlock(t) PROVE Abs!Release(t)
    BY <2>9 DEF Unlock, Abs!Release
  <2>10. CASE UNCHANGED vars
    BY <2>10 DEF vars
  <2> QED BY <2>1, <2>3, <2>4, <2>5, <2>6, <2>7, <2>8, <2>9, <2>10 DEF Next, Step
<1> QED BY <1>1, <1>2, TypeCorrect, MutexTheorem, PTL
        DEF Spec, ImplementsAbstractLock, Abs!AbsSpec
=============================================================================
