-------------------------- MODULE SemaphoreProofs --------------------------
(***************************************************************************)
(* For every finite set of threads: the semaphore's value stays in range   *)
(* and its waiters are counted exactly; no unit of the value is left       *)
(* beside a sleeper without a wake on its way or a waiter that will look   *)
(* again, but for one for each cancelled waiter; and the semaphore is an   *)
(* AbstractSemaphore.                                                      *)
(***************************************************************************)
EXTENDS Semaphore, FiniteSetTheorems, TLAPS

\* What a thread loaded, as its compare-exchange will expect it.
TmpInv == \A t \in Threads :
            /\ pc[t] = "pcas" => tmp[t].lo # SEM_VALUE_MAX
            /\ pc[t] \in {"tcas", "cas"} => tmp[t].lo # 0

IInv == TypeOK /\ TmpInv /\ WaitersCounted /\ units = lo

USE DEF value, Add

\* Subsets of Threads are finite, and gain and lose one element at a time.
LEMMA Counting ==
  ASSUME NEW S \in SUBSET Threads
  PROVE  /\ Cardinality(S) \in Nat
         /\ Cardinality(S) = 0 <=> S = {}
         /\ \A t \in Threads \ S : Cardinality(S \cup {t}) = Cardinality(S) + 1
         /\ \A t \in S : Cardinality(S \ {t}) = Cardinality(S) - 1
<1>1. IsFiniteSet(S)
  BY SemAssumption, FS_Subset
<1> QED BY <1>1, FS_CardinalityType, FS_EmptySet, FS_AddElement, FS_RemoveElement

\* The sets the invariants count are sets of threads, and each is counted.
LEMMA CountedSets ==
  /\ Waiters \in SUBSET Threads /\ Wakers \in SUBSET Threads /\ Looking \in SUBSET Threads
  /\ Cardinality(Waiters) \in Nat /\ Cardinality(Wakers) \in Nat /\ Cardinality(Looking) \in Nat
<1>1. /\ Waiters \in SUBSET Threads /\ Wakers \in SUBSET Threads
      /\ Looking \in SUBSET Threads
  BY DEF Waiters, Wakers, Looking, Gone
<1> QED BY <1>1, Counting

\* Loading and returning keep the locals and the calls in their types.
LEMMA TmpTypes ==
  ASSUME TypeOK, NEW t \in Threads, Pop(t) \/ (UNCHANGED call /\ (LoadBoth(t) \/ UNCHANGED tmp))
  PROVE  /\ tmp' \in [Threads -> [lo : Nat, hi : Nat]]
         /\ call' \in [Threads -> Calls \cup {"none"}]
<1>1. Unloaded \in [lo : Nat, hi : Nat]
  BY DEF Unloaded
<1>2. [lo |-> lo, hi |-> hi] \in [lo : Nat, hi : Nat]
  BY SemAssumption DEF TypeOK
<1>3. CASE Pop(t)
  BY <1>1, <1>3 DEF TypeOK, Pop
<1>4. CASE UNCHANGED call /\ LoadBoth(t)
  BY <1>2, <1>4 DEF TypeOK, LoadBoth
<1>5. CASE UNCHANGED call /\ UNCHANGED tmp
  BY <1>5 DEF TypeOK
<1> QED BY <1>3, <1>4, <1>5

LEMMA InitIInv == Init => IInv
<1> SUFFICES ASSUME Init PROVE IInv
  OBVIOUS
<1>1. Waiters = {}
  BY DEF Init, Waiters, SlowPCs
<1>2. Unloaded \in [lo : Nat, hi : Nat]
  BY DEF Unloaded
<1>3. TypeOK
  BY <1>2, SemAssumption DEF Init, TypeOK, PCs
<1> QED BY <1>1, <1>3, FS_EmptySet DEF Init, IInv, TmpInv, WaitersCounted

\* The steps that leave lo and hi alone.
Quiet(t) == \/ Enter(t) \/ PostLoad(t) \/ PostWake(t) \/ TryLoad(t) \/ Load(t)
            \/ Begin(t) \/ Wait(t) \/ End(t) \/ GiveUp(t) \/ Cancel(t)

LEMMA QuietStep == ASSUME IInv, NEW t \in Threads, Quiet(t) PROVE IInv'
<1> USE DEF IInv, PCs, PostPCs, SlowPCs
<1>0. UNCHANGED <<value, hi>>
  BY DEF Quiet, Enter, PostLoad, PostWake, TryLoad, Load, Begin, Wait, End, GiveUp, Cancel
<1>1. pc' \in [Threads -> PCs] /\ Waiters' = Waiters
  <2> USE DEF TypeOK, Goto, Return, Waiters
  <2>1. CASE Enter(t) \/ PostLoad(t) \/ TryLoad(t) \/ Load(t)
    BY <2>1 DEF Enter, PostLoad, TryLoad, Load
  <2>2. CASE PostWake(t)
    BY <2>2 DEF PostWake, Sleepers
  <2>3. CASE Begin(t) \/ Wait(t) \/ End(t) \/ GiveUp(t) \/ Cancel(t)
    BY <2>3 DEF Begin, Wait, End, GiveUp, Cancel
  <2> QED BY <2>1, <2>2, <2>3 DEF Quiet
<1>2. /\ tmp' \in [Threads -> [lo : Nat, hi : Nat]]
      /\ call' \in [Threads -> Calls \cup {"none"}]
  <2>1. CASE Enter(t)
    BY <2>1 DEF Enter, TypeOK
  <2>2. CASE ~ Enter(t)
    BY <2>2, TmpTypes DEF Quiet, PostLoad, PostWake, TryLoad, Load, Begin, Wait, End,
                          GiveUp, Cancel, Return
  <2> QED BY <2>1, <2>2
<1>3. TmpInv'
  <2> USE DEF TypeOK, TmpInv, Goto, Return, Pop, LoadBoth
  <2>1. CASE Enter(t)
    BY <2>1 DEF Enter
  <2>2. CASE PostLoad(t)
    BY <2>2 DEF PostLoad
  <2>3. CASE PostWake(t)
    BY <2>3 DEF PostWake, Sleepers
  <2>4. CASE TryLoad(t) \/ Load(t)
    BY <2>4, SemAssumption DEF TryLoad, Load
  <2>5. CASE Begin(t) \/ Wait(t) \/ End(t) \/ GiveUp(t) \/ Cancel(t)
    BY <2>5 DEF Begin, Wait, End, GiveUp, Cancel
  <2> QED BY <2>1, <2>2, <2>3, <2>4, <2>5 DEF Quiet
<1> QED BY <1>0, <1>1, <1>2, <1>3 DEF TypeOK, WaitersCounted

-----------------------------------------------------------------------------

LEMMA PostCasStep == ASSUME IInv, NEW t \in Threads, PostCas(t) PROVE IInv'
<1> USE DEF IInv
<1>1. /\ pc[t] = "pcas" /\ UNCHANGED hi
      /\ \/ Add(1) /\ lo = tmp[t].lo
         \/ UNCHANGED value
      /\ \/ Goto(t, "pwake") /\ UNCHANGED <<call, tmp>>
         \/ Goto(t, "out") /\ Pop(t)
         \/ Goto(t, "pload") /\ UNCHANGED <<call, tmp>>
  BY DEF PostCas, Return
<1>2. lo' \in 0..SEM_VALUE_MAX
  BY <1>1, SemAssumption DEF TypeOK, TmpInv
<1>3. TypeOK'
  BY <1>1, <1>2, TmpTypes DEF TypeOK, Goto, PCs, PostPCs
<1>4. TmpInv'
  BY <1>1 DEF TypeOK, TmpInv, Goto, Pop
<1>5. Waiters' = Waiters
  BY <1>1 DEF TypeOK, Goto, Waiters, SlowPCs
<1> QED BY <1>1, <1>3, <1>4, <1>5 DEF WaitersCounted

LEMMA TryCasStep == ASSUME IInv, NEW t \in Threads, TryCas(t) PROVE IInv'
<1> USE DEF IInv
<1>1. /\ pc[t] = "tcas" /\ UNCHANGED hi
      /\ \/ Add(-1) /\ lo = tmp[t].lo
         \/ UNCHANGED value
      /\ \/ Goto(t, "out") /\ Pop(t)
         \/ Goto(t, "tload") /\ UNCHANGED <<call, tmp>>
  BY DEF TryCas, Return
<1>2. lo' \in 0..SEM_VALUE_MAX
  BY <1>1, SemAssumption DEF TypeOK, TmpInv
<1>3. TypeOK'
  BY <1>1, <1>2, TmpTypes DEF TypeOK, Goto, PCs
<1>4. TmpInv'
  BY <1>1 DEF TypeOK, TmpInv, Goto, Pop
<1>5. Waiters' = Waiters
  BY <1>1 DEF TypeOK, Goto, Waiters, SlowPCs
<1> QED BY <1>1, <1>3, <1>4, <1>5 DEF WaitersCounted

LEMMA RegisterStep == ASSUME IInv, NEW t \in Threads, Register(t) PROVE IInv'
<1> USE DEF IInv
<1>1. /\ pc[t] = "register" /\ hi' = hi + 1 /\ Goto(t, "load")
      /\ UNCHANGED <<value, call, tmp>>
  BY DEF Register
<1>2. TypeOK' /\ TmpInv'
  BY <1>1 DEF TypeOK, TmpInv, Goto, PCs, SlowPCs
<1>3. Waiters' = Waiters \cup {t} /\ t \notin Waiters
  BY <1>1 DEF TypeOK, Goto, Waiters, SlowPCs
<1>4. Cardinality(Waiters') = Cardinality(Waiters) + 1
  BY <1>3, Counting, CountedSets
<1> QED BY <1>1, <1>2, <1>4 DEF WaitersCounted

\* The two steps by which a waiter leaves: with a unit, or giving up.
LEMMA LeaveStep ==
  ASSUME IInv, NEW t \in Threads, t \in Waiters, NEW l \in {"out", "cancelled"},
         Goto(t, l), Pop(t), hi' = hi - 1, lo' \in 0..SEM_VALUE_MAX, units' = lo'
  PROVE  IInv'
<1> USE DEF IInv
<1>1. Waiters' = Waiters \ {t}
  BY DEF TypeOK, Goto, Waiters, SlowPCs
<1>2. Cardinality(Waiters') = Cardinality(Waiters) - 1 /\ Cardinality(Waiters') \in Nat
  BY <1>1, Counting, CountedSets
<1>3. hi' = Cardinality(Waiters') /\ hi' \in Nat
  BY <1>2 DEF WaitersCounted
<1>4. TypeOK'
  BY <1>3, TmpTypes DEF TypeOK, Goto, PCs
<1>5. TmpInv'
  BY DEF TypeOK, TmpInv, Goto, Pop
<1> QED BY <1>3, <1>4, <1>5 DEF WaitersCounted

LEMMA CasStep == ASSUME IInv, NEW t \in Threads, Cas(t) PROVE IInv'
<1>1. CASE lo = tmp[t].lo /\ hi = tmp[t].hi
  <2>1. Add(-1) /\ hi' = hi - 1 /\ Goto(t, "out") /\ Pop(t) /\ pc[t] = "cas"
    BY <1>1 DEF Cas, Return
  <2>2. lo \in 1..SEM_VALUE_MAX /\ units = lo
    BY <1>1, <2>1, SemAssumption DEF IInv, TypeOK, TmpInv
  <2>3. lo' \in 0..SEM_VALUE_MAX /\ units' = lo'
    BY <2>1, <2>2, SemAssumption
  <2>4. t \in Waiters
    BY <2>1 DEF Waiters, SlowPCs
  <2> QED BY <2>1, <2>3, <2>4, LeaveStep
<1>2. CASE ~ (lo = tmp[t].lo /\ hi = tmp[t].hi)
  <2>1. pc[t] = "cas" /\ Goto(t, "load") /\ UNCHANGED <<value, hi, call, tmp>>
    BY <1>2 DEF Cas
  <2>2. TypeOK' /\ TmpInv' /\ Waiters' = Waiters
    BY <2>1 DEF IInv, TypeOK, TmpInv, Goto, Waiters, PCs, SlowPCs
  <2> QED BY <2>1, <2>2 DEF IInv, WaitersCounted
<1> QED BY <1>1, <1>2

LEMMA CleanupStep == ASSUME IInv, NEW t \in Threads, Cleanup(t) PROVE IInv'
<1>1. /\ t \in Waiters /\ hi' = hi - 1 /\ Pop(t) /\ UNCHANGED value
      /\ Goto(t, "out") \/ Goto(t, "cancelled")
  BY DEF Cleanup, Waiters, SlowPCs
<1>2. lo' \in 0..SEM_VALUE_MAX /\ units' = lo'
  BY <1>1 DEF IInv, TypeOK
<1> QED BY <1>1, <1>2, LeaveStep

LEMMA NextIInv == IInv /\ [Next]_vars => IInv'
<1> SUFFICES ASSUME IInv, [Next]_vars PROVE IInv'
  OBVIOUS
<1>1. ASSUME NEW t \in Threads, Quiet(t) PROVE IInv'
  BY <1>1, QuietStep
<1>2. ASSUME NEW t \in Threads,
             PostCas(t) \/ TryCas(t) \/ Register(t) \/ Cas(t) \/ Cleanup(t)
      PROVE  IInv'
  BY <1>2, PostCasStep, TryCasStep, RegisterStep, CasStep, CleanupStep
<1>3. CASE UNCHANGED vars
  BY <1>3 DEF vars, IInv, TypeOK, TmpInv, WaitersCounted, Waiters
<1> QED BY <1>1, <1>2, <1>3 DEF Next, Step, Quiet

\* sem_post never takes the value past SEM_VALUE_MAX and no wait takes it below
\* 0, though each compares with a value loaded earlier.
THEOREM TypeCorrect == Spec => []TypeOK
  BY InitIInv, NextIInv, PTL DEF Spec, IInv

\* hi counts the registered waiters, cancelled or not.
THEOREM WaitersTheorem == Spec => []WaitersCounted
  BY InitIInv, NextIInv, PTL DEF Spec, IInv

-----------------------------------------------------------------------------

\* A step that changes neither lo nor the two counted sets, and puts nobody to
\* sleep, keeps NoLostWakeup.
LEMMA SameCounts ==
  ASSUME NoLostWakeup, UNCHANGED <<lo, Wakers, Looking>>, Sleepers' \subseteq Sleepers
  PROVE  NoLostWakeup'
  BY DEF NoLostWakeup

\* So does one that leaves nobody asleep, or no unit of the value.
LEMMA NoSleepers == ASSUME Sleepers' = {} PROVE NoLostWakeup'
  BY DEF NoLostWakeup

LEMMA NoUnits == ASSUME lo' = 0 PROVE NoLostWakeup'
<1>1. /\ Wakers' \in SUBSET Threads /\ Looking' \in SUBSET Threads
  BY DEF Wakers, Looking, Gone
<1>2. Cardinality(Wakers') \in Nat /\ Cardinality(Looking') \in Nat
  BY <1>1, Counting
<1> QED BY <1>2 DEF NoLostWakeup

\* No step takes a wake or a looking waiter away without taking a unit, or
\* putting the wake in a waiter's hands; a cancelled waiter keeps it.
LEMMA WakeupStep ==
  ASSUME IInv, NoLostWakeup, [Next]_vars PROVE NoLostWakeup'
<1> USE DEF IInv, TypeOK, Goto, Return
<1>1. ASSUME NEW t \in Threads, Enter(t) PROVE NoLostWakeup'
  <2>1. UNCHANGED <<lo, Wakers, Looking, Sleepers>>
    BY <1>1 DEF Enter, Wakers, Looking, Gone, Sleepers
  <2> QED BY <2>1, SameCounts
<1>2. ASSUME NEW t \in Threads, PostLoad(t) \/ TryLoad(t) \/ Begin(t) \/ End(t) PROVE NoLostWakeup'
  <2>1. UNCHANGED <<lo, Wakers, Looking, Sleepers>>
    BY <1>2 DEF PostLoad, TryLoad, Begin, End, Wakers, Looking, Gone, Sleepers
  <2> QED BY <2>1, SameCounts
<1>3. ASSUME NEW t \in Threads, PostCas(t) PROVE NoLostWakeup'
  <2>1. CASE lo = tmp[t].lo /\ hi = tmp[t].hi /\ hi = 0
    <3>1. Waiters = {}
      BY <2>1, Counting, CountedSets DEF WaitersCounted
    <3>2. Sleepers' = {}
      BY <1>3, <2>1, <3>1 DEF PostCas, Waiters, SlowPCs, Wakers, Looking, Gone, Sleepers
    <3> QED BY <3>2, NoSleepers
  <2>2. CASE lo = tmp[t].lo /\ hi = tmp[t].hi /\ hi # 0
    <3>1. lo' = lo + 1 /\ Goto(t, "pwake") /\ pc[t] = "pcas"
      BY <1>3, <2>2 DEF PostCas, Wakers, Looking, Gone, Sleepers
    <3>2. /\ Wakers' = Wakers \cup {t} /\ t \notin Wakers
          /\ UNCHANGED <<Looking, Sleepers>>
      BY <3>1 DEF Wakers, Looking, Gone, Sleepers
    <3>3. Cardinality(Wakers') = Cardinality(Wakers) + 1
      BY <3>2, Counting, CountedSets
    <3> QED BY <3>1, <3>2, <3>3, CountedSets DEF NoLostWakeup
  <2>3. CASE ~ (lo = tmp[t].lo /\ hi = tmp[t].hi)
    <3>1. UNCHANGED <<lo, Wakers, Looking, Sleepers>>
      BY <1>3, <2>3 DEF PostCas, Wakers, Looking, Gone, Sleepers
    <3> QED BY <3>1, SameCounts
  <2> QED BY <2>1, <2>2, <2>3
<1>4. ASSUME NEW t \in Threads, PostWake(t) PROVE NoLostWakeup'
  <2>1. CASE Sleepers = {}
    <3>1. Sleepers' = {}
      BY <1>4, <2>1 DEF PostWake, Wakers, Looking, Gone, Sleepers
    <3> QED BY <3>1, NoSleepers
  <2>2. CASE Sleepers # {}
    <3>1. PICK u \in Sleepers : pc' = [pc EXCEPT ![t] = "out", ![u] = "woken"]
      BY <1>4, <2>2 DEF PostWake, Wakers, Looking, Gone, Sleepers
    <3>2. /\ Wakers' = Wakers \ {t} /\ t \in Wakers
          /\ Looking' = Looking \cup {u} /\ u \notin Looking
      BY <1>4, <3>1 DEF PostWake, Wakers, Looking, Gone, Sleepers
    <3>3. Cardinality(Wakers') = Cardinality(Wakers) - 1
      BY <3>2, Counting, CountedSets
    <3>4. u \in Threads
      BY DEF Sleepers
    <3>5. Cardinality(Looking') = Cardinality(Looking) + 1
      BY <3>2, <3>4, Counting, CountedSets
    <3>6. UNCHANGED lo
      BY <1>4 DEF PostWake, Wakers, Looking, Gone, Sleepers
    <3> QED BY <2>2, <3>3, <3>6, <3>5, CountedSets DEF NoLostWakeup
  <2> QED BY <2>1, <2>2
<1>5. ASSUME NEW t \in Threads, TryCas(t) PROVE NoLostWakeup'
  <2>1. UNCHANGED <<Wakers, Looking, Gone, Sleepers>> /\ (lo' = lo - 1 \/ UNCHANGED lo)
    BY <1>5 DEF TryCas, Wakers, Looking, Gone, Sleepers
  <2> QED BY <2>1, CountedSets DEF NoLostWakeup
<1>6. ASSUME NEW t \in Threads, Register(t) PROVE NoLostWakeup'
  <2>1. /\ Looking' = Looking \cup {t} /\ t \notin Looking
        /\ UNCHANGED <<lo, Wakers, Sleepers>>
    BY <1>6 DEF Register, Wakers, Looking, Gone, Sleepers
  <2>2. Cardinality(Looking') = Cardinality(Looking) + 1
    BY <2>1, Counting, CountedSets
  <2> QED BY <2>1, <2>2, CountedSets DEF NoLostWakeup
<1>7. ASSUME NEW t \in Threads, Load(t) PROVE NoLostWakeup'
  <2>1. CASE lo = 0
    BY <1>7, <2>1, NoUnits DEF Load, Wakers, Looking, Gone, Sleepers
  <2>2. CASE lo # 0
    <3>1. UNCHANGED <<lo, Wakers, Looking, Sleepers>>
      BY <1>7, <2>2 DEF Load, Wakers, Looking, Gone, Sleepers
    <3> QED BY <3>1, SameCounts
  <2> QED BY <2>1, <2>2
<1>8. ASSUME NEW t \in Threads, Cas(t) PROVE NoLostWakeup'
  <2>1. CASE lo = tmp[t].lo /\ hi = tmp[t].hi
    <3>1. /\ Looking' = Looking \ {t} /\ t \in Looking /\ lo' = lo - 1
          /\ UNCHANGED <<Wakers, Sleepers>>
      BY <1>8, <2>1 DEF Cas, Wakers, Looking, Gone, Sleepers
    <3>2. Cardinality(Looking') = Cardinality(Looking) - 1
      BY <3>1, Counting, CountedSets
    <3> QED BY <3>1, <3>2, CountedSets DEF NoLostWakeup
  <2>2. CASE ~ (lo = tmp[t].lo /\ hi = tmp[t].hi)
    <3>1. UNCHANGED <<lo, Wakers, Looking, Sleepers>>
      BY <1>8, <2>2 DEF Cas, Wakers, Looking, Gone, Sleepers
    <3> QED BY <3>1, SameCounts
  <2> QED BY <2>1, <2>2
<1>9. ASSUME NEW t \in Threads, Wait(t) PROVE NoLostWakeup'
  <2>1. CASE lo = 0
    BY <1>9, <2>1, NoUnits DEF Wait, Wakers, Looking, Gone, Sleepers
  <2>2. CASE lo # 0
    <3>1. /\ Looking' = Looking \cup {t} /\ t \notin Looking
          /\ UNCHANGED <<lo, Wakers, Sleepers>>
      BY <1>9, <2>2 DEF Wait, Wakers, Looking, Gone, Sleepers
    <3>2. Cardinality(Looking') = Cardinality(Looking) + 1
      BY <3>1, Counting, CountedSets
    <3> QED BY <3>1, <3>2, CountedSets DEF NoLostWakeup
  <2> QED BY <2>1, <2>2
<1>10. ASSUME NEW t \in Threads, GiveUp(t) \/ Cleanup(t) PROVE NoLostWakeup'
  <2>1. UNCHANGED <<lo, Wakers, Looking>> /\ Sleepers' \subseteq Sleepers
    BY <1>10 DEF GiveUp, Cleanup, Wakers, Looking, Gone, Sleepers
  <2> QED BY <2>1, SameCounts
<1>11. ASSUME NEW t \in Threads, Cancel(t) PROVE NoLostWakeup'
  <2>1. /\ UNCHANGED <<lo, Wakers>> /\ Sleepers' \subseteq Sleepers
        /\ Looking' = Looking \cup {t}
    BY <1>11 DEF Cancel, Wakers, Looking, Gone, Sleepers
  <2>2. CASE t \in Looking
    <3>1. Looking' = Looking
      BY <2>1, <2>2
    <3> QED BY <2>1, <3>1, SameCounts
  <2>3. CASE t \notin Looking
    <3>1. Cardinality(Looking') = Cardinality(Looking) + 1
      BY <2>1, <2>3, Counting, CountedSets
    <3> QED BY <2>1, <3>1, CountedSets DEF NoLostWakeup
  <2> QED BY <2>2, <2>3
<1>12. CASE UNCHANGED vars
  BY <1>12, SameCounts DEF vars, Wakers, Looking, Gone, Sleepers
<1> QED BY <1>1, <1>2, <1>3, <1>4, <1>5, <1>6, <1>7, <1>8, <1>9, <1>10, <1>11, <1>12
        DEF Next, Step

\* sem_post: no unit of the value is left beside a sleeper of sem_wait with
\* neither a wake nor a waiter to take it, but one for each cancelled waiter.
THEOREM WakeupTheorem == Spec => []NoLostWakeup
<1>1. Init => NoLostWakeup
  BY DEF Init, NoLostWakeup, Sleepers
<1>2. IInv /\ NoLostWakeup /\ [Next]_vars => NoLostWakeup'
  BY WakeupStep
<1> QED BY <1>1, <1>2, InitIInv, NextIInv, PTL DEF Spec

-----------------------------------------------------------------------------

\* What each location says of the call that is made: added to IInv for the
\* refinement alone.
CallInv == \A t \in Threads :
             /\ pc[t] = "out" => call[t] = "none"
             /\ pc[t] # "out" /\ pc[t] # "cancelled" => call[t] \in Calls
             /\ pc[t] \in {"pload", "pcas"} => call[t] = "post"
             /\ pc[t] \in {"tload", "tcas"} => call[t] # "post"
             /\ pc[t] \in SlowPCs \cup {"register"} => call[t] \notin {"post", "trywait"}

LEMMA CallStep == ASSUME TypeOK, CallInv, [Next]_vars PROVE CallInv'
<1> USE DEF TypeOK, CallInv, Goto, Return, Pop, SlowPCs
<1>0. "none" \notin AllCalls /\ Calls \subseteq AllCalls
  BY SemAssumption DEF AllCalls, WaitCalls
<1>1. ASSUME NEW t \in Threads, Enter(t) PROVE CallInv'
  BY <1>0, <1>1 DEF Enter
<1>2. ASSUME NEW t \in Threads, PostLoad(t) \/ PostCas(t) PROVE CallInv'
  BY <1>2 DEF PostLoad, PostCas
<1>3. ASSUME NEW t \in Threads, PostWake(t) PROVE CallInv'
  BY <1>3 DEF PostWake, Sleepers
<1>4. ASSUME NEW t \in Threads, TryLoad(t) \/ TryCas(t) PROVE CallInv'
  BY <1>4 DEF TryLoad, TryCas
<1>5. ASSUME NEW t \in Threads, Register(t) \/ Load(t) \/ Cas(t) PROVE CallInv'
  BY <1>5 DEF Register, Load, Cas
<1>6. ASSUME NEW t \in Threads,
             Begin(t) \/ Wait(t) \/ End(t) \/ Cleanup(t) \/ GiveUp(t) \/ Cancel(t)
      PROVE  CallInv'
  BY <1>6 DEF Begin, Wait, End, Cleanup, GiveUp, Cancel
<1>7. CASE UNCHANGED vars
  BY <1>7 DEF vars
<1> QED BY <1>1, <1>2, <1>3, <1>4, <1>5, <1>6, <1>7 DEF Next, Step

\* The semaphore is an AbstractSemaphore: each call takes effect at one of its
\* steps, the exchange that succeeds or the load that finds the limit.
THEOREM RefinementTheorem == Spec => ImplementsAbstractSemaphore
<1>1. Init => Abs!AbsInit
  BY DEF Init, Abs!AbsInit, Doing
<1>2. IInv /\ CallInv /\ [Next]_vars => [Abs!AbsNext]_(Abs!avars)
  <2> SUFFICES ASSUME IInv, CallInv, [Next]_vars
               PROVE  \/ UNCHANGED <<units, Doing>>
                      \/ \E t \in Threads : \/ Abs!Ask(t) \/ Abs!Post(t) \/ Abs!Take(t)
                                            \/ Abs!Refuse(t) \/ Abs!Cancelled(t)
    BY DEF Abs!AbsNext, Abs!avars
  <2> USE DEF IInv, TypeOK, CallInv, Goto, Return, Pop, SlowPCs, Doing
  <2>1. ASSUME NEW t \in Threads, Enter(t) PROVE Abs!Ask(t)
    BY <2>1 DEF Enter, Abs!Ask, Abs!Become
  <2>2. ASSUME NEW t \in Threads, PostLoad(t)
        PROVE  UNCHANGED <<units, Doing>> \/ Abs!Refuse(t)
    <3>1. CASE lo = SEM_VALUE_MAX
      BY <2>2, <3>1 DEF PostLoad, Abs!Refuse, Abs!MayRefuse, Abs!Become
    <3>2. CASE lo # SEM_VALUE_MAX
      BY <2>2, <3>2 DEF PostLoad
    <3> QED BY <3>1, <3>2
  <2>3. ASSUME NEW t \in Threads, PostCas(t)
        PROVE  UNCHANGED <<units, Doing>> \/ Abs!Post(t)
    <3>1. CASE lo = tmp[t].lo /\ hi = tmp[t].hi
      <4>1. units < SEM_VALUE_MAX
        BY <2>3, <3>1, SemAssumption DEF PostCas, TmpInv
      <4> QED BY <2>3, <3>1, <4>1 DEF PostCas, Abs!Post, Abs!Become
    <3>2. CASE ~ (lo = tmp[t].lo /\ hi = tmp[t].hi)
      BY <2>3, <3>2 DEF PostCas
    <3> QED BY <3>1, <3>2
  <2>4. ASSUME NEW t \in Threads, PostWake(t) PROVE UNCHANGED <<units, Doing>>
    BY <2>4 DEF PostWake, Sleepers
  <2>5. ASSUME NEW t \in Threads, TryLoad(t)
        PROVE  UNCHANGED <<units, Doing>> \/ Abs!Refuse(t)
    <3>1. CASE lo = 0 /\ call[t] = "trywait"
      <4>1. /\ pc[t] = "tload" /\ call[t] \in Calls
            /\ Goto(t, "out") /\ call' = [call EXCEPT ![t] = "none"] /\ UNCHANGED value
        BY <2>5, <3>1 DEF TryLoad
      <4> QED BY <3>1, <4>1 DEF Abs!Refuse, Abs!MayRefuse, Abs!Become
    <3>2. CASE ~ (lo = 0 /\ call[t] = "trywait")
      BY <2>5, <3>2 DEF TryLoad
    <3> QED BY <3>1, <3>2
  <2>6. ASSUME NEW t \in Threads, TryCas(t)
        PROVE  UNCHANGED <<units, Doing>> \/ Abs!Take(t)
    <3>1. CASE lo = tmp[t].lo
      <4>1. /\ pc[t] = "tcas" /\ call[t] \in Calls \ {"post"}
            /\ Goto(t, "out") /\ call' = [call EXCEPT ![t] = "none"]
        BY <2>6, <3>1 DEF TryCas
      <4>2. units > 0 /\ units' = units - 1
        BY <2>6, <3>1, SemAssumption DEF TryCas, TmpInv
      <4> QED BY <4>1, <4>2 DEF Abs!Take, Abs!Become
    <3>2. CASE lo # tmp[t].lo
      BY <2>6, <3>2 DEF TryCas
    <3> QED BY <3>1, <3>2
  <2>7. ASSUME NEW t \in Threads, Cas(t)
        PROVE  UNCHANGED <<units, Doing>> \/ Abs!Take(t)
    <3>1. CASE lo = tmp[t].lo /\ hi = tmp[t].hi
      <4>1. /\ pc[t] = "cas" /\ call[t] \in Calls \ {"post"}
            /\ Goto(t, "out") /\ call' = [call EXCEPT ![t] = "none"]
        BY <2>7, <3>1 DEF Cas
      <4>2. units > 0 /\ units' = units - 1
        BY <2>7, <3>1, SemAssumption DEF Cas, TmpInv
      <4> QED BY <4>1, <4>2 DEF Abs!Take, Abs!Become
    <3>2. CASE ~ (lo = tmp[t].lo /\ hi = tmp[t].hi)
      BY <2>7, <3>2 DEF Cas
    <3> QED BY <3>1, <3>2
  <2>8. ASSUME NEW t \in Threads, Register(t) \/ Begin(t) \/ Wait(t) \/ End(t) \/ Cleanup(t)
        PROVE  UNCHANGED <<units, Doing>>
    BY <2>8 DEF Register, Begin, Wait, End, Cleanup
  <2>9. ASSUME NEW t \in Threads, Load(t)
        PROVE  UNCHANGED <<units, Doing>> \/ Abs!Refuse(t)
    <3>1. CASE lo = 0 /\ call[t] = "bad"
      <4>1. pc[t] = "load" /\ call[t] \in Calls /\ Goto(t, "leave") /\ UNCHANGED <<value, call>>
        BY <2>9, <3>1 DEF Load
      <4> QED BY <3>1, <4>1 DEF Abs!Refuse, Abs!MayRefuse, Abs!Become
    <3>2. CASE ~ (lo = 0 /\ call[t] = "bad")
      BY <2>9, <3>2 DEF Load
    <3> QED BY <3>1, <3>2
  <2>10. ASSUME NEW t \in Threads, GiveUp(t) PROVE Abs!Refuse(t)
    <3>1. call[t] \in Calls /\ call[t] \in {"wait", "timedwait", "bad"}
      BY <2>10, SemAssumption DEF GiveUp, AllCalls, WaitCalls
    <3> QED BY <2>10, <3>1 DEF GiveUp, Abs!Refuse, Abs!MayRefuse, Abs!Become
  <2>11. ASSUME NEW t \in Threads, Cancel(t) PROVE Abs!Cancelled(t)
    BY <2>11 DEF Cancel, Abs!Cancelled, Abs!Become
  <2>12. CASE UNCHANGED vars
    BY <2>12 DEF vars
  <2> QED BY <2>1, <2>2, <2>3, <2>4, <2>5, <2>6, <2>7, <2>8, <2>9, <2>10, <2>11, <2>12
          DEF Next, Step
<1>3. Init => CallInv
  BY DEF Init, CallInv, SlowPCs
<1>4. IInv /\ CallInv /\ [Next]_vars => CallInv'
  BY CallStep DEF IInv
<1> QED BY <1>1, <1>2, <1>3, <1>4, InitIInv, NextIInv, PTL
        DEF Spec, ImplementsAbstractSemaphore, Abs!AbsSpec
=============================================================================
