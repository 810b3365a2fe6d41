--------------------------- MODULE CondVarProofs ---------------------------
(***************************************************************************)
(* For every finite set of threads: the mutex under a condition variable   *)
(* is never owned twice, though the end of a wait stores into its word     *)
(* unconditionally, and no thread is left queued on it with nobody to wake *)
(* it; nw counts the waiters; and a notice to all of them reaches all.     *)
(***************************************************************************)
EXTENDS CondVar, FiniteSetTheorems, TLAPS

\* Who owns the mutex can be read off its program counter, but in a
\* notification, which may be made with the mutex or without.
OwnersHold == \A t \in Threads :
                /\ pc[t] \in {"held", "store2"} => own[t]
                /\ own[t] => pc[t] \in {"held", "store2"} \cup NotifyPCs

\* A thread in a wait is in a call until the mutex is marked contended.
Waiting == WaitPCs \cup {"lock", "wuwake", "store2"}
WaitersCall == \A t \in Threads : pc[t] \in Waiting => call[t] # "none"

\* The bound on the sequence is kept: every hook under way will raise it.
Bounded == seq + Cardinality(Hooks) <= MaxNotify[shared]

IInv == /\ TypeOK /\ Bounded
        /\ OwnersHold /\ MutualExclusion /\ WaitersCall
        /\ WaitersCounted
        /\ told <= seq /\ TellReachesRegistered
        /\ QueuedOnMutexAreWoken

LEMMA Counting ==
  ASSUME NEW S \in SUBSET Threads
  PROVE  /\ Cardinality(S) \in Nat
         /\ Cardinality(S) = 0 <=> S = {}
         /\ \A t \in Threads \ S : Cardinality(S \cup {t}) = Cardinality(S) + 1
         /\ \A t \in S : Cardinality(S \ {t}) = Cardinality(S) - 1
<1>1. IsFiniteSet(S)
  BY CondAssumption, FS_Subset
<1> QED BY <1>1, FS_CardinalityType, FS_EmptySet, FS_AddElement, FS_RemoveElement

\* The sets the invariant counts.
LEMMA CountedSets ==
  /\ Registered \in SUBSET Threads /\ Hooks \in SUBSET Threads
  /\ Cardinality(Registered) \in Nat /\ Cardinality(Hooks) \in Nat
<1>1. Registered \in SUBSET Threads /\ Hooks \in SUBSET Threads
  BY DEF Registered, Hooks
<1> QED BY <1>1, Counting

-----------------------------------------------------------------------------

\* Every step is one thread's.
Act(t) == \/ Lock(t) \/ Wait(t) \/ Signal(t) \/ Broadcast(t)
          \/ Step(t) \/ Unlock(t)
          \/ Timeout(t) \/ Interrupted(t) \/ Cancel(t)
          \/ HurdRefused(t) \/ HurdWait(t)
          \/ \E u \in HurdThreads : HurdCancel(t, u)

\* What it may do to another thread is to wake or to requeue it.
Roused(u) == \/ pc'[u] = pc[u]
             \/ pc[u] = "csleep" /\ pc'[u] \in {"woken", "rsleep"}
             \/ pc[u] = "rsleep" /\ pc'[u] = "woken"
             \/ pc[u] = "msleep" /\ pc'[u] = "swap"

\* The shape of every step.
LEMMA PcStep ==
  ASSUME TypeOK, NEW t \in Threads, Act(t)
  PROVE  /\ pc' \in [Threads -> PCs]
         /\ \A u \in Threads \ {t} : Roused(u)
<1> USE DEF TypeOK, PCs, MutexPCs, WaitPCs, NotifyPCs, Goto, Roused
<1>1. CASE Lock(t) \/ Relock(t) \/ LockSwap(t)
  BY <1>1 DEF Lock, Relock, Cas, LockSwap, Acquired
<1>2. CASE LockWait(t) \/ StoreTwo(t) \/ Unlock(t) \/ CondWait(t) \/ Timeout(t) \/ Cancel(t)
  BY <1>2 DEF LockWait, StoreTwo, Unlock, CondWait, Timeout, Cancel
<1>3. CASE UnlockWake(t) \/ WaitUnlockWake(t)
  BY <1>3 DEF UnlockWake, WaitUnlockWake, WakeOneOnMutex, OnMutex, Woken
<1>4. CASE Wait(t) \/ HurdWait(t) \/ Register(t) \/ HurdRegister(t)
  BY <1>4 DEF Wait, HurdWait, Start, Register, HurdRegister, Enlist
<1>5. CASE Interrupted(t) \/ Uncount(t) \/ Unwind(t) \/ HurdEnd(t)
  BY <1>5 DEF Interrupted, Uncount, Unwind, HurdEnd, Waited
<1>6. CASE UnwindWake(t) \/ HookWake(t)
  BY <1>6 DEF UnwindWake, HookWake, WakeAllOnSeq, Back
<1>7. CASE Hook(t) \/ HurdRefused(t) \/ (\E u \in HurdThreads : HurdCancel(t, u))
  BY <1>7 DEF Hook, HurdRefused, HurdCancel
<1>8. CASE Signal(t) \/ Broadcast(t)
  BY <1>8 DEF Signal, Broadcast
<1>9. CASE SignalWake(t)
  BY <1>9 DEF SignalWake, Back, OnSeq
<1>10. CASE BroadcastWake(t)
  BY <1>10 DEF BroadcastWake, Back, OnSeq, WakeAllOnSeq
<1> QED BY <1>1, <1>2, <1>3, <1>4, <1>5, <1>6, <1>7, <1>8, <1>9, <1>10 DEF Act, Step

\* A roused thread stays registered, and is no hook.
LEMMA SetsStep ==
  ASSUME TypeOK, NEW t \in Threads, Act(t)
  PROVE  /\ Registered' \ {t} = Registered \ {t}
         /\ Hooks' \ {t} = Hooks \ {t}
  BY PcStep DEF Roused, Registered, Hooks

\* Who joins the waiters and the hooks, and who leaves them.
Joins(t)  == t \notin Registered /\ t \in Registered'
Leaves(t) == t \in Registered /\ t \notin Registered'
Stays(t)  == t \in Registered <=> t \in Registered'

LEMMA WaitersMove ==
  ASSUME TypeOK, NEW t \in Threads, Act(t)
  PROVE  \/ Joins(t) /\ nw' = nw + 1 /\ leaked' = leaked
         \/ Leaves(t) /\ nw' = nw - 1 /\ leaked' = leaked
         \/ Leaves(t) /\ nw' = nw /\ leaked' = leaked + 1
         \/ Stays(t) /\ nw' = nw /\ leaked' = leaked
<1> USE DEF TypeOK, Goto, Registered, Joins, Leaves, Stays, condition, history
<1>1. CASE Lock(t) \/ Relock(t) \/ LockSwap(t)
  BY <1>1 DEF Lock, Relock, Cas, LockSwap, Acquired
<1>2. CASE LockWait(t) \/ StoreTwo(t) \/ Unlock(t) \/ CondWait(t) \/ Timeout(t) \/ Cancel(t)
  BY <1>2 DEF LockWait, StoreTwo, Unlock, CondWait, Timeout, Cancel
<1>3. CASE UnlockWake(t) \/ WaitUnlockWake(t)
  BY <1>3 DEF UnlockWake, WaitUnlockWake, WakeOneOnMutex, OnMutex, Woken
<1>4. CASE Wait(t) \/ HurdWait(t) \/ Register(t) \/ HurdRegister(t)
  BY <1>4 DEF Wait, HurdWait, Start, Register, HurdRegister, Enlist
<1>5. CASE Interrupted(t) \/ Uncount(t) \/ Unwind(t) \/ HurdEnd(t)
  BY <1>5 DEF Interrupted, Uncount, Unwind, HurdEnd, Waited
<1>6. CASE UnwindWake(t) \/ HookWake(t)
  BY <1>6 DEF UnwindWake, HookWake, WakeAllOnSeq, Back
<1>7. CASE Hook(t) \/ HurdRefused(t) \/ (\E u \in HurdThreads : HurdCancel(t, u))
  BY <1>7 DEF Hook, HurdRefused, HurdCancel
<1>8. CASE Signal(t) \/ Broadcast(t)
  BY <1>8 DEF Signal, Broadcast
<1>9. CASE SignalWake(t)
  BY <1>9 DEF SignalWake, Back, OnSeq
<1>10. CASE BroadcastWake(t)
  BY <1>10 DEF BroadcastWake, Back, OnSeq, WakeAllOnSeq
<1> QED BY <1>1, <1>2, <1>3, <1>4, <1>5, <1>6, <1>7, <1>8, <1>9, <1>10 DEF Act, Step

LEMMA WaitersStep ==
  ASSUME TypeOK, WaitersCounted, NEW t \in Threads, Act(t)
  PROVE  WaitersCounted' /\ nw' \in Nat
<1>1. /\ Registered' \in SUBSET Threads /\ Registered \in SUBSET Threads
      /\ leaked \in Nat
  BY CountedSets, CondAssumption DEF Registered, TypeOK
<1>2. /\ Cardinality(Registered) \in Nat /\ Cardinality(Registered') \in Nat
  BY <1>1, Counting
<1>3. ASSUME Joins(t) PROVE Cardinality(Registered') = Cardinality(Registered) + 1
  <2>1. Registered' = Registered \cup {t}
    BY <1>1, <1>3, SetsStep DEF Joins
  <2> QED BY <1>1, <1>3, <2>1, Counting DEF Joins
<1>4. ASSUME Leaves(t) PROVE Cardinality(Registered') = Cardinality(Registered) - 1
  <2>1. Registered' = Registered \ {t}
    BY <1>1, <1>4, SetsStep DEF Leaves
  <2> QED BY <1>1, <1>4, <2>1, Counting DEF Leaves
<1>5. ASSUME Stays(t) PROVE Registered' = Registered
  BY <1>1, <1>5, SetsStep DEF Stays
<1> QED BY <1>1, <1>2, <1>3, <1>4, <1>5, WaitersMove DEF WaitersCounted, TypeOK

\* How the sequence is raised: at once where the bound allows it, or by a hook.
LEMMA SequenceMove ==
  ASSUME TypeOK, NEW t \in Threads, Act(t)
  PROVE  /\ shared' = shared
         /\ \/ /\ t \notin Hooks /\ t \notin Hooks' /\ seq' = seq
            \/ /\ t \notin Hooks /\ t \notin Hooks' /\ MayRaise /\ seq' = seq + 1
            \/ /\ t \notin Hooks /\ t \in Hooks' /\ MayRaise /\ seq' = seq
            \/ /\ t \in Hooks /\ t \notin Hooks' /\ seq' = seq + 1
<1> USE DEF TypeOK, Goto, Hooks, condition
<1>1. CASE Lock(t) \/ Relock(t) \/ LockSwap(t)
  BY <1>1 DEF Lock, Relock, Cas, LockSwap, Acquired
<1>2. CASE LockWait(t) \/ StoreTwo(t) \/ Unlock(t) \/ CondWait(t) \/ Timeout(t) \/ Cancel(t)
  BY <1>2 DEF LockWait, StoreTwo, Unlock, CondWait, Timeout, Cancel
<1>3. CASE UnlockWake(t) \/ WaitUnlockWake(t)
  BY <1>3 DEF UnlockWake, WaitUnlockWake, WakeOneOnMutex, OnMutex, Woken
<1>4. CASE Wait(t) \/ HurdWait(t) \/ Register(t) \/ HurdRegister(t)
  BY <1>4 DEF Wait, HurdWait, Start, Register, HurdRegister, Enlist
<1>5. CASE Interrupted(t) \/ Uncount(t) \/ Unwind(t) \/ HurdEnd(t)
  BY <1>5 DEF Interrupted, Uncount, Unwind, HurdEnd, Waited
<1>6. CASE UnwindWake(t) \/ HookWake(t)
  BY <1>6 DEF UnwindWake, HookWake, WakeAllOnSeq, Back
<1>7. CASE Hook(t) \/ HurdRefused(t) \/ (\E u \in HurdThreads : HurdCancel(t, u))
  BY <1>7 DEF Hook, HurdRefused, HurdCancel
<1>8. CASE Signal(t) \/ Broadcast(t)
  BY <1>8 DEF Signal, Broadcast
<1>9. CASE SignalWake(t)
  BY <1>9 DEF SignalWake, Back, OnSeq
<1>10. CASE BroadcastWake(t)
  BY <1>10 DEF BroadcastWake, Back, OnSeq, WakeAllOnSeq
<1> QED BY <1>1, <1>2, <1>3, <1>4, <1>5, <1>6, <1>7, <1>8, <1>9, <1>10 DEF Act, Step

LEMMA BoundStep ==
  ASSUME TypeOK, Bounded, NEW t \in Threads, Act(t)
  PROVE  Bounded' /\ seq' \in 0..MaxNotify[shared]'
<1>1. /\ Hooks' \in SUBSET Threads /\ Hooks \in SUBSET Threads
      /\ MaxNotify[shared] \in Nat
  BY CondAssumption DEF Hooks, TypeOK
<1>2. /\ Cardinality(Hooks) \in Nat /\ Cardinality(Hooks') \in Nat
  BY <1>1, Counting
<1>3. ASSUME t \notin Hooks, t \in Hooks' PROVE Cardinality(Hooks') = Cardinality(Hooks) + 1
  <2>1. Hooks' = Hooks \cup {t}
    BY <1>1, <1>3, SetsStep
  <2> QED BY <1>1, <1>3, <2>1, Counting
<1>4. ASSUME t \in Hooks, t \notin Hooks' PROVE Cardinality(Hooks') = Cardinality(Hooks) - 1
  <2>1. Hooks' = Hooks \ {t}
    BY <1>1, <1>4, SetsStep
  <2> QED BY <1>1, <1>4, <2>1, Counting
<1>5. ASSUME t \notin Hooks, t \notin Hooks' PROVE Hooks' = Hooks
  BY <1>1, <1>5, SetsStep
<1> QED BY <1>1, <1>2, <1>3, <1>4, <1>5, SequenceMove DEF Bounded, MayRaise, TypeOK

-----------------------------------------------------------------------------
\* The mutex.

\* A step takes the free mutex, gives it up, stores into the word of a taken one,
\* or leaves it alone.
LEMMA MutexMove ==
  ASSUME TypeOK, NEW t \in Threads, Act(t)
  PROVE  /\ word' \in 0..2
         /\ \/ word = 0 /\ word' # 0 /\ own' = [own EXCEPT ![t] = TRUE]
               /\ pc'[t] \in {"held", "store2"}
            \/ word' = 0 /\ own' = [own EXCEPT ![t] = FALSE] /\ pc[t] = "held"
               /\ pc'[t] \notin {"held", "store2"}
            \/ (word = 0 <=> word' = 0) /\ own' = own
               /\ (pc'[t] \in {"held", "store2"} =>
                     pc[t] \in {"held", "store2"} \/ (own[t] /\ pc[t] \in NotifyPCs))
               /\ (pc[t] \in {"held", "store2"} \cup NotifyPCs =>
                     pc'[t] \in {"held", "store2"} \cup NotifyPCs \/ ~ own[t])
            \/ pc[t] = "store2" /\ pc'[t] = "held" /\ word' = 2 /\ own' = own
<1> USE DEF TypeOK, Goto, Own, NotifyPCs, condition, history
<1>1. CASE Lock(t) \/ Relock(t) \/ LockSwap(t)
  BY <1>1 DEF Lock, Relock, Cas, LockSwap, Acquired
<1>2. CASE LockWait(t) \/ StoreTwo(t) \/ Unlock(t) \/ CondWait(t) \/ Timeout(t) \/ Cancel(t)
  BY <1>2 DEF LockWait, StoreTwo, Unlock, CondWait, Timeout, Cancel
<1>3. CASE UnlockWake(t) \/ WaitUnlockWake(t)
  BY <1>3 DEF UnlockWake, WaitUnlockWake, WakeOneOnMutex, OnMutex, Woken
<1>4. CASE Wait(t) \/ HurdWait(t)
  BY <1>4 DEF Wait, HurdWait, Start
<1>11. CASE Register(t) \/ HurdRegister(t)
  BY <1>11 DEF Register, HurdRegister, Enlist
<1>5. CASE Interrupted(t) \/ Uncount(t) \/ Unwind(t) \/ HurdEnd(t)
  BY <1>5 DEF Interrupted, Uncount, Unwind, HurdEnd, Waited
<1>6. CASE UnwindWake(t) \/ HookWake(t)
  BY <1>6 DEF UnwindWake, HookWake, WakeAllOnSeq, Back
<1>7. CASE Hook(t) \/ HurdRefused(t) \/ (\E u \in HurdThreads : HurdCancel(t, u))
  BY <1>7 DEF Hook, HurdRefused, HurdCancel
<1>8. CASE Signal(t) \/ Broadcast(t)
  BY <1>8 DEF Signal, Broadcast
<1>9. CASE SignalWake(t)
  BY <1>9 DEF SignalWake, Back, OnSeq
<1>10. CASE BroadcastWake(t)
  BY <1>10 DEF BroadcastWake, Back, OnSeq, WakeAllOnSeq
<1> QED BY <1>1, <1>2, <1>3, <1>4, <1>5, <1>6, <1>7, <1>8, <1>9, <1>10, <1>11 DEF Act, Step

LEMMA MutexStep ==
  ASSUME TypeOK, OwnersHold, MutualExclusion, NEW t \in Threads, Act(t)
  PROVE  OwnersHold' /\ MutualExclusion' /\ own' \in [Threads -> BOOLEAN]
<1>1. \A u \in Threads \ {t} :
        /\ pc'[u] \in {"held", "store2"} => pc[u] \in {"held", "store2"}
        /\ pc[u] \in {"held", "store2"} \cup NotifyPCs => pc'[u] = pc[u]
  BY PcStep DEF Roused, NotifyPCs
<1>2. CASE word = 0 /\ word' # 0 /\ own' = [own EXCEPT ![t] = TRUE]
           /\ pc'[t] \in {"held", "store2"}
  BY <1>1, <1>2 DEF OwnersHold, MutualExclusion, TypeOK
<1>3. CASE word' = 0 /\ own' = [own EXCEPT ![t] = FALSE] /\ pc[t] = "held"
           /\ pc'[t] \notin {"held", "store2"}
  BY <1>1, <1>3 DEF OwnersHold, MutualExclusion, TypeOK
<1>4. CASE (word = 0 <=> word' = 0) /\ own' = own
           /\ (pc'[t] \in {"held", "store2"} =>
                 pc[t] \in {"held", "store2"} \/ (own[t] /\ pc[t] \in NotifyPCs))
           /\ (pc[t] \in {"held", "store2"} \cup NotifyPCs =>
                 pc'[t] \in {"held", "store2"} \cup NotifyPCs \/ ~ own[t])
  BY <1>1, <1>4 DEF OwnersHold, MutualExclusion, TypeOK
<1>5. CASE pc[t] = "store2" /\ pc'[t] = "held" /\ word' = 2 /\ own' = own
  BY <1>1, <1>5 DEF OwnersHold, MutualExclusion, TypeOK
<1> QED BY <1>2, <1>3, <1>4, <1>5, MutexMove

-----------------------------------------------------------------------------
\* The notices to all waiters.

OnItsWay(u) == pc[u] \in {"bcast", "xwake", "hwake"}

\* Whoever raised the notice wakes all, and until then nothing stops it.
LEMMA NoticeStep ==
  ASSUME TypeOK, Bounded, WaitersCounted, told <= seq, TellReachesRegistered,
         NEW t \in Threads, Act(t)
  PROVE  /\ told' <= seq' /\ TellReachesRegistered'
         /\ mine' \in [Threads -> 0..MaxNotify[shared]] /\ told' \in 0..MaxNotify[shared]
<1> USE DEF TypeOK
<1>1. \A u \in Threads \ {t} : /\ OnItsWay(u) => OnItsWay(u)'
                               /\ pc'[u] = "csleep" => pc[u] = "csleep"
  BY PcStep DEF Roused, OnItsWay
<1>2. /\ mine' \in [Threads -> 0..MaxNotify[shared]]
      /\ \A u \in Threads \ {t} : mine'[u] = mine[u]
      /\ pc'[t] = "csleep" => mine' = mine /\ mine[t] = seq /\ seq' = seq /\ told' = told
  <2> 0 \in 0..MaxNotify[shared]
    BY CondAssumption
  <2> USE DEF Goto, Forget, condition, history
  <2>1. CASE Lock(t) \/ Relock(t) \/ LockSwap(t)
    BY <2>1 DEF Lock, Relock, Cas, LockSwap, Acquired
  <2>2. CASE LockWait(t) \/ StoreTwo(t) \/ Unlock(t) \/ CondWait(t) \/ Timeout(t) \/ Cancel(t)
    BY <2>2 DEF LockWait, StoreTwo, Unlock, CondWait, Timeout, Cancel
  <2>3. CASE UnlockWake(t) \/ WaitUnlockWake(t)
    BY <2>3 DEF UnlockWake, WaitUnlockWake, WakeOneOnMutex, OnMutex, Woken
  <2>4. CASE Wait(t) \/ HurdWait(t) \/ Register(t) \/ HurdRegister(t)
    BY <2>4 DEF Wait, HurdWait, Start, Register, HurdRegister, Enlist
  <2>5. CASE Interrupted(t) \/ Uncount(t) \/ Unwind(t) \/ HurdEnd(t)
    BY <2>5 DEF Interrupted, Uncount, Unwind, HurdEnd, Waited
  <2>6. CASE UnwindWake(t) \/ HookWake(t)
    BY <2>6 DEF UnwindWake, HookWake, WakeAllOnSeq, Back
  <2>7. CASE Hook(t) \/ HurdRefused(t) \/ (\E u \in HurdThreads : HurdCancel(t, u))
    BY <2>7 DEF Hook, HurdRefused, HurdCancel
  <2>8. CASE Signal(t) \/ Broadcast(t)
    BY <2>8 DEF Signal, Broadcast
  <2>9. CASE SignalWake(t)
    BY <2>9 DEF SignalWake, Back, OnSeq
  <2>10. CASE BroadcastWake(t)
    BY <2>10 DEF BroadcastWake, Back, OnSeq, WakeAllOnSeq
  <2> QED BY <2>1, <2>2, <2>3, <2>4, <2>5, <2>6, <2>7, <2>8, <2>9, <2>10 DEF Act, Step
<1>4. seq' \in 0..MaxNotify[shared] /\ seq \in Nat /\ told \in Nat /\ MaxNotify[shared] \in Nat
      /\ seq' >= seq
  BY BoundStep, SequenceMove, CondAssumption
<1>3. \/ told' = told /\ (OnItsWay(t) => OnItsWay(t)')
      \/ told' = seq' /\ OnItsWay(t)'
      \/ told' = seq' /\ OnSeq' = {}
      \/ told' = told /\ OnSeq' = {}
  <2> USE DEF Goto, OnItsWay, condition, history
  <2>1. CASE Lock(t) \/ Relock(t) \/ LockSwap(t)
    BY <2>1 DEF Lock, Relock, Cas, LockSwap, Acquired
  <2>2. CASE LockWait(t) \/ StoreTwo(t) \/ Unlock(t) \/ CondWait(t) \/ Timeout(t) \/ Cancel(t)
    BY <2>2 DEF LockWait, StoreTwo, Unlock, CondWait, Timeout, Cancel
  <2>3. CASE UnlockWake(t) \/ WaitUnlockWake(t)
    BY <2>3 DEF UnlockWake, WaitUnlockWake, WakeOneOnMutex, OnMutex, Woken
  <2>4. CASE Register(t) \/ HurdRegister(t)
    BY <2>4 DEF Register, HurdRegister, Enlist
  <2>12. CASE Wait(t) \/ HurdWait(t)
    BY <2>12 DEF Wait, HurdWait, Start
  <2>5. CASE Interrupted(t) \/ Uncount(t) \/ Unwind(t) \/ HurdEnd(t)
    BY <2>5 DEF Interrupted, Uncount, Unwind, HurdEnd, Waited
  <2>6. CASE UnwindWake(t) \/ HookWake(t)
    BY <2>6 DEF UnwindWake, HookWake, WakeAllOnSeq, Back, OnSeq
  <2>7. CASE Hook(t) \/ HurdRefused(t) \/ (\E u \in HurdThreads : HurdCancel(t, u))
    BY <2>7 DEF Hook, HurdRefused, HurdCancel
  <2>8. CASE Signal(t)
    BY <2>8 DEF Signal
  <2>9. CASE Broadcast(t)
    <3>1. CASE nw > 0
      BY <2>9, <3>1 DEF Broadcast
    <3>2. CASE ~ (nw > 0)
      <4>1. Registered = {}
        BY <3>2, Counting, CountedSets DEF WaitersCounted
      <4> QED BY <2>9, <3>2, <4>1 DEF Broadcast, Registered, OnSeq
    <3> QED BY <3>1, <3>2
  <2>10. CASE SignalWake(t)
    BY <2>10 DEF SignalWake, Back, OnSeq
  <2>11. CASE BroadcastWake(t)
    BY <2>11 DEF BroadcastWake, Back, OnSeq, WakeAllOnSeq
  <2> QED BY <2>1, <2>2, <2>3, <2>4, <2>5, <2>6, <2>7, <2>8, <2>9, <2>10, <2>11, <2>12 DEF Act, Step
<1>5. told' <= seq' /\ told' \in 0..MaxNotify[shared]
  BY <1>3, <1>4
<1>6. TellReachesRegistered'
  <2> SUFFICES ASSUME NEW v \in Threads, pc'[v] = "csleep", mine'[v] < told'
               PROVE  \E u \in Threads : OnItsWay(u)'
    BY DEF TellReachesRegistered, OnSeq, OnItsWay
  <2>1. (told' = told /\ (OnItsWay(t) => OnItsWay(t)')) \/ OnItsWay(t)'
    BY <1>3 DEF OnSeq
  <2>2. v # t
    BY <1>2, <1>4, <1>5
  <2>3. pc[v] = "csleep" /\ mine[v] = mine'[v]
    BY <1>1, <1>2, <2>2
  <2> QED BY <1>1, <2>1, <2>3 DEF TellReachesRegistered, OnSeq, OnItsWay
<1> QED BY <1>2, <1>5, <1>6

-----------------------------------------------------------------------------
\* The queue of the mutex.

LEMMA CallStep ==
  ASSUME TypeOK, WaitersCall, NEW t \in Threads, Act(t)
  PROVE  /\ call' \in [Threads -> Calls] /\ WaitersCall'
<1>1. /\ call' \in [Threads -> Calls]
      /\ \A u \in Threads \ {t} : call'[u] = call[u]
      /\ pc'[t] \in Waiting => call'[t] # "none"
  <2> USE DEF TypeOK, Calls, Goto, WaitersCall, Waiting, WaitPCs, condition, history, sigstate
  <2>1. CASE Lock(t) \/ Relock(t) \/ LockSwap(t)
    BY <2>1 DEF Lock, Relock, Cas, LockSwap, Acquired
  <2>2. CASE LockWait(t) \/ StoreTwo(t) \/ Unlock(t) \/ CondWait(t) \/ Timeout(t) \/ Cancel(t)
    BY <2>2 DEF LockWait, StoreTwo, Unlock, CondWait, Timeout, Cancel
  <2>3. CASE UnlockWake(t) \/ WaitUnlockWake(t)
    BY <2>3 DEF UnlockWake, WaitUnlockWake, WakeOneOnMutex, OnMutex, Woken
  <2>4. CASE Wait(t) \/ HurdWait(t)
    BY <2>4 DEF Wait, HurdWait, Start
  <2>5. CASE Register(t) \/ HurdRegister(t)
    BY <2>5 DEF Register, HurdRegister, Enlist
  <2>6. CASE Interrupted(t) \/ Uncount(t) \/ Unwind(t) \/ HurdEnd(t)
    BY <2>6 DEF Interrupted, Uncount, Unwind, HurdEnd, Waited
  <2>7. CASE UnwindWake(t) \/ HookWake(t)
    BY <2>7 DEF UnwindWake, HookWake, WakeAllOnSeq, Back
  <2>8. CASE Hook(t) \/ HurdRefused(t) \/ (\E u \in HurdThreads : HurdCancel(t, u))
    BY <2>8 DEF Hook, HurdRefused, HurdCancel
  <2>9. CASE Signal(t) \/ Broadcast(t)
    BY <2>9 DEF Signal, Broadcast
  <2>10. CASE SignalWake(t)
    BY <2>10 DEF SignalWake, Back, OnSeq
  <2>11. CASE BroadcastWake(t)
    BY <2>11 DEF BroadcastWake, Back, OnSeq, WakeAllOnSeq
  <2> QED BY <2>1, <2>2, <2>3, <2>4, <2>5, <2>6, <2>7, <2>8, <2>9, <2>10, <2>11 DEF Act, Step
<1> QED BY <1>1, PcStep DEF Roused, WaitersCall, Waiting, WaitPCs, TypeOK

\* Which steps change the flags, and how.
LEMMA FlagStep ==
  ASSUME NEW t \in Threads, Act(t)
  PROVE  /\ saved' = saved \/ saved' = (saved \/ ~ shared)
         /\ dropped' = dropped \/ dropped' = (dropped \/ (OnMutex # {} /\ word # 2))
  BY DEF Act, Step, Lock, Relock, Cas, LockSwap, LockWait, StoreTwo, Unlock, CondWait, Timeout,
         Cancel, UnlockWake, WaitUnlockWake, Wait, HurdWait, Start, Register, HurdRegister,
         Enlist, Interrupted, Uncount, Unwind, HurdEnd, UnwindWake, HookWake, Hook, HurdRefused,
         HurdCancel, Signal, Broadcast, SignalWake, BroadcastWake, condition, history

\* Each step leaves a wake on its way or the word contended, or took none away
\* and queued nobody.
LEMMA QueueMove ==
  ASSUME TypeOK, WaitersCall, NEW t \in Threads, Act(t)
  PROVE  \/ OnMutex' = {} \/ word' = 2 \/ (\E u \in Threads : WillWake(u)')
         \/ OnMutex # {} /\ word # 2 /\ dropped' = (dropped \/ (OnMutex # {} /\ word # 2))
         \/ ~ WillWake(t) /\ OnMutex' \subseteq OnMutex /\ (word = 2 => word' = 2)
<1> USE DEF TypeOK, Goto, OnMutex, WillWake
<1>1. CASE Relock(t) \/ LockSwap(t)
  <2>1. CASE LockSwap(t)
    <3>1. word' = 2
      BY <2>1 DEF LockSwap
    <3> QED BY <3>1
  <2>2. CASE Relock(t)
    <3>1. call[t] # "none"
      BY <2>2 DEF Relock, WaitersCall, Waiting
    <3>2. pc'[t] \in {"store2", "swap"}
      BY <2>2, <3>1 DEF Relock, Cas, Acquired
    <3> QED BY <3>2
  <2> QED BY <1>1, <2>1, <2>2
<1>2. CASE LockWait(t) \/ StoreTwo(t) \/ CondWait(t) \/ Timeout(t) \/ Cancel(t)
  BY <1>2 DEF LockWait, StoreTwo, CondWait, Timeout, Cancel
<1>12. CASE Lock(t)
  <2>1. CASE word = 0
    BY <1>12, <2>1 DEF Lock, Cas, Acquired
  <2>2. CASE word # 0
    BY <1>12, <2>2 DEF Lock, Cas
  <2> QED BY <2>1, <2>2
<1>13. CASE Unlock(t)
  <2>1. CASE word = 1
    BY <1>13, <2>1 DEF Unlock
  <2>2. CASE word # 1
    BY <1>13, <2>2 DEF Unlock
  <2> QED BY <2>1, <2>2
<1>3. CASE UnlockWake(t) \/ WaitUnlockWake(t)
  BY <1>3 DEF UnlockWake, WaitUnlockWake, WakeOneOnMutex, Woken
<1>4. CASE Wait(t) \/ HurdWait(t)
  <2>1. Start(t, "wait") \/ Start(t, "hwait")
    BY <1>4 DEF Wait, HurdWait
  <2>2. pc[t] = "held" /\ word' = 0 /\ Goto(t, IF word # 1 THEN "wuwake" ELSE "register")
    BY <2>1 DEF Start
  <2>3. CASE word = 1
    BY <2>2, <2>3
  <2>4. CASE word # 1
    BY <2>2, <2>4
  <2> QED BY <2>3, <2>4
<1>5. CASE Register(t) \/ HurdRegister(t)
  BY <1>5 DEF Register, HurdRegister, Enlist
<1>6. CASE Interrupted(t) \/ Uncount(t) \/ Unwind(t) \/ HurdEnd(t)
  BY <1>6 DEF Interrupted, Uncount, Unwind, HurdEnd, Waited
<1>7. CASE UnwindWake(t) \/ HookWake(t)
  BY <1>7 DEF UnwindWake, HookWake, WakeAllOnSeq, Back
<1>8. CASE Hook(t) \/ HurdRefused(t) \/ (\E u \in HurdThreads : HurdCancel(t, u))
  BY <1>8 DEF Hook, HurdRefused, HurdCancel
<1>9. CASE Signal(t) \/ Broadcast(t)
  BY <1>9 DEF Signal, Broadcast
<1>10. CASE SignalWake(t)
  BY <1>10 DEF SignalWake, Back, OnSeq
<1>11. CASE BroadcastWake(t)
  BY <1>11 DEF BroadcastWake, Back, OnSeq, WakeAllOnSeq
<1> QED BY <1>1, <1>2, <1>3, <1>4, <1>5, <1>6, <1>7, <1>8, <1>9, <1>10, <1>11,
          <1>12, <1>13 DEF Act, Step

LEMMA QueueStep ==
  ASSUME TypeOK, WaitersCall, QueuedOnMutexAreWoken, NEW t \in Threads, Act(t)
  PROVE  QueuedOnMutexAreWoken'
<1>1. \A u \in Threads \ {t} : WillWake(u) => WillWake(u)'
  BY PcStep DEF Roused, WillWake
<1>2. dropped \in BOOLEAN /\ (dropped' = dropped \/ dropped' = (dropped \/ (OnMutex # {} /\ word # 2)))
  BY FlagStep DEF TypeOK
<1>3. dropped => dropped'
  BY <1>2
<1> QED BY <1>1, <1>3, QueueMove DEF QueuedOnMutexAreWoken

-----------------------------------------------------------------------------

\* The rest of the types.
LEMMA SignalStateStep ==
  ASSUME TypeOK, NEW t \in Threads, Act(t)
  PROVE  /\ cancel' \in [HurdThreads -> BOOLEAN]
         /\ locker' \in [HurdThreads -> Threads \cup {Free}]
         /\ leaked' \in 0..MaxLeaks[shared]
<1> USE DEF TypeOK, condition, history, sigstate, LockState, UnlockState
<1>1. CASE Lock(t) \/ Relock(t) \/ LockSwap(t)
  BY <1>1 DEF Lock, Relock, Cas, LockSwap
<1>2. CASE LockWait(t) \/ StoreTwo(t) \/ Unlock(t) \/ CondWait(t) \/ Timeout(t) \/ Cancel(t)
  BY <1>2 DEF LockWait, StoreTwo, Unlock, CondWait, Timeout, Cancel
<1>3. CASE UnlockWake(t) \/ WaitUnlockWake(t)
  BY <1>3 DEF UnlockWake, WaitUnlockWake
<1>4. CASE Wait(t) \/ HurdWait(t)
  BY <1>4 DEF Wait, HurdWait, Start
<1>5. CASE Register(t) \/ HurdRegister(t)
  BY <1>5 DEF Register, HurdRegister, Enlist
<1>6. CASE Interrupted(t)
  <2>1. MaxLeaks[shared] \in Nat
    BY CondAssumption
  <2> QED BY <1>6, <2>1 DEF Interrupted
<1>7. CASE Uncount(t) \/ Unwind(t) \/ HurdEnd(t)
  BY <1>7 DEF Uncount, Unwind, HurdEnd
<1>8. CASE UnwindWake(t) \/ HookWake(t)
  BY <1>8 DEF UnwindWake, HookWake
<1>9. CASE Hook(t) \/ HurdRefused(t)
  BY <1>9 DEF Hook, HurdRefused
<1>10. CASE \E u \in HurdThreads : HurdCancel(t, u)
  BY <1>10 DEF HurdCancel
<1>11. CASE Signal(t) \/ Broadcast(t) \/ SignalWake(t) \/ BroadcastWake(t)
  BY <1>11 DEF Signal, Broadcast, SignalWake, BroadcastWake
<1> QED BY <1>1, <1>2, <1>3, <1>4, <1>5, <1>6, <1>7, <1>8, <1>9, <1>10, <1>11 DEF Act, Step

LEMMA InitIInv == Init => IInv
<1> SUFFICES ASSUME Init PROVE IInv
  OBVIOUS
<1>1. /\ Registered = {} /\ Hooks = {} /\ OnSeq = {} /\ OnMutex = {}
      /\ shared \in BOOLEAN /\ MaxNotify[shared] \in Nat /\ MaxLeaks[shared] \in Nat
  BY CondAssumption DEF Init, Registered, Hooks, OnSeq, OnMutex
<1>2. TypeOK
  <2>1. saved \in BOOLEAN /\ dropped \in BOOLEAN
    BY DEF Init
  <2>2. 0 \in 0..MaxNotify[shared] /\ 0 \in 0..MaxLeaks[shared]
    BY <1>1
  <2>3. seq \in 0..MaxNotify[shared] /\ told \in 0..MaxNotify[shared]
        /\ leaked \in 0..MaxLeaks[shared] /\ nw \in Nat /\ word \in 0..2
    BY <2>2 DEF Init
  <2>4. mine \in [Threads -> 0..MaxNotify[shared]]
    BY <2>2 DEF Init
  <2>5. /\ pc \in [Threads -> PCs] /\ call \in [Threads -> Calls]
        /\ own \in [Threads -> BOOLEAN] /\ cancel \in [HurdThreads -> BOOLEAN]
        /\ locker \in [HurdThreads -> Threads \cup {Free}]
    BY DEF Init, PCs, Calls
  <2> QED BY <1>1, <2>1, <2>3, <2>4, <2>5 DEF TypeOK
<1>3. Bounded /\ WaitersCounted
  BY <1>1, FS_EmptySet DEF Init, Bounded, WaitersCounted
<1>4. OwnersHold /\ MutualExclusion /\ WaitersCall
  BY DEF Init, OwnersHold, MutualExclusion, WaitersCall, Waiting, WaitPCs
<1>5. told <= seq
  BY DEF Init
<1> QED BY <1>1, <1>2, <1>3, <1>4, <1>5 DEF IInv, TellReachesRegistered, QueuedOnMutexAreWoken

LEMMA ActIInv == ASSUME IInv, NEW t \in Threads, Act(t) PROVE IInv'
<1>1. TypeOK /\ Bounded /\ OwnersHold /\ MutualExclusion /\ WaitersCall /\ WaitersCounted
      /\ told <= seq /\ TellReachesRegistered /\ QueuedOnMutexAreWoken
  BY DEF IInv
<1>2. shared' = shared /\ shared \in BOOLEAN
  BY <1>1, SequenceMove DEF TypeOK
<1>3. word' \in 0..2
  BY <1>1, MutexMove
<1>4. TypeOK'
  <2>1. saved' \in BOOLEAN /\ dropped' \in BOOLEAN
    BY <1>1, FlagStep DEF TypeOK
  <2> QED BY <1>1, <1>2, <1>3, <2>1, PcStep, WaitersStep, BoundStep, MutexStep, NoticeStep, CallStep,
             SignalStateStep DEF TypeOK
<1> QED BY <1>1, <1>4, BoundStep, MutexStep, WaitersStep, NoticeStep, CallStep, QueueStep
       DEF IInv

LEMMA NextIInv == IInv /\ [Next]_vars => IInv'
<1> SUFFICES ASSUME IInv, [Next]_vars PROVE IInv'
  OBVIOUS
<1>1. CASE UNCHANGED vars
  BY <1>1 DEF vars, condition, sigstate, history, IInv, TypeOK, Bounded, Hooks, OwnersHold,
              MutualExclusion, WaitersCall, Waiting, WaitersCounted, Registered, TellReachesRegistered, OnSeq,
              QueuedOnMutexAreWoken, OnMutex, WillWake
<1>2. CASE Next
  BY <1>2, ActIInv DEF Next, Act
<1> QED BY <1>1, <1>2

\* Whatever is cancelled, interrupted or timed out, the sequence keeps its bound.
THEOREM TypeCorrect == Spec => []TypeOK
  BY InitIInv, NextIInv, PTL DEF Spec, IInv

\* pthread_cond_signal, _broadcast and _destroy: nw counts the registered waiters,
\* and for ever those whose wait was interrupted.
THEOREM WaitersTheorem == Spec => []WaitersCounted
  BY InitIInv, NextIInv, PTL DEF Spec, IInv

\* pthread_cond_broadcast, the cleanup handler and the hook: a waiter registered
\* before the notice does not stay asleep on the sequence.
THEOREM NoticeTheorem == Spec => []TellReachesRegistered
  BY InitIInv, NextIInv, PTL DEF Spec, IInv

\* __pthread_mutex_cond_lock: its unconditional store keeps the mutex exclusive, and
\* strands no thread that a broadcast requeued.
THEOREM RelockTheorem == Spec => []RelockingIsSound
<1>1. IInv => RelockingIsSound
  BY DEF IInv, RelockingIsSound
<1> QED BY <1>1, InitIInv, NextIInv, PTL DEF Spec
=============================================================================
