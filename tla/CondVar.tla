------------------------------ MODULE CondVar ------------------------------
(***************************************************************************)
(* pthread/cond.c: one condition variable used with one mutex, a private   *)
(* PTHREAD_MUTEX_NORMAL whose lock word is the low-level lock of module    *)
(* LowLevelLock (its plain test and its exchange are one step here).       *)
(*                                                                         *)
(* The word __seq_nw is the wakeup sequence seq (lo) and the number of     *)
(* waiters nw (hi).  Waiters sleep in gsync on seq (pc "csleep"); a        *)
(* broadcast wakes one and requeues the others to the mutex ("rsleep"),    *)
(* where they sleep with the threads that lock it ("msleep").              *)
(*                                                                         *)
(* pthread_cond_wait is a pthread_cond_timedwait that is never timed out.  *)
(*                                                                         *)
(* pthread_hurd_cond_wait_np (call "hwait") is no cancellation point; the  *)
(* C library's hurd_thread_cancel makes it return EINTR instead, without   *)
(* the mutex.  locker is the lock of each thread's signal state, under     *)
(* which its cancel flag and its cancel_hook are changed.                  *)
(*                                                                         *)
(* own, told, leaked and dropped are history: who owns the mutex, the      *)
(* sequence of the last notice to every waiter, the waits interrupted, and *)
(* whether an EINTR left threads queued on a mutex not marked contended.   *)
(***************************************************************************)
EXTENDS Naturals, FiniteSets

CONSTANTS Threads,      \* the threads that use the condition variable
          HurdThreads,  \* those that call pthread_hurd_cond_wait_np
          Cancellable,  \* those that are cancelled
          Shareds,      \* values of GSYNC_SHARED in its __flags
          MaxNotify,    \* bounds, of a private and of a shared one: signals,
                        \* broadcasts and hooks called,
          MaxLeaks      \* and interrupted waits

Free == "free"

ASSUME CondAssumption == /\ IsFiniteSet(Threads) /\ HurdThreads \cup Cancellable \subseteq Threads
                         /\ Free \notin Threads
                         /\ Shareds \subseteq BOOLEAN
                         /\ MaxNotify \in [BOOLEAN -> Nat] /\ MaxLeaks \in [BOOLEAN -> Nat]

VARIABLES shared, saved,          \* __flags, and __mutex # NULL
          seq, nw,                \* __seq_nw
          word,                   \* __lock of the mutex
          pc, call, mine,         \* of each thread: its next step, its call, sw.lo
          cancel, locker,         \* the signal state of each of HurdThreads
          own, told, leaked, dropped

condition == <<shared, saved, seq, nw>>
sigstate  == <<cancel, locker>>
history   == <<own, told, leaked, dropped>>
vars == <<condition, word, pc, call, mine, sigstate, history>>

\* "lock" to "msleep" are lll_lock, from its start only at the end of a wait, and
\* "store2" the end of __pthread_mutex_cond_lock; "uwake" and "wuwake" are between the halves of
\* lll_unlock; "register" to "woken" are the wait, "unwind" and "xwake" its
\* cleanup handler; "hend" is the end of an interruptible wait; the last are
\* the notifications and the hook that hurd_thread_cancel calls.
MutexPCs  == {"lock", "swap", "mwait", "msleep", "store2", "uwake", "wuwake"}
WaitPCs   == {"register", "cwait", "csleep", "rsleep", "woken", "unwind", "xwake", "hend"}
NotifyPCs == {"swake", "bcast", "hook", "hwake"}
PCs == {"out", "held", "exited"} \cup MutexPCs \cup WaitPCs \cup NotifyPCs

Calls == {"none", "wait", "hwait", "exit"}

TypeOK == /\ shared \in BOOLEAN /\ saved \in BOOLEAN
          /\ seq \in 0..MaxNotify[shared] /\ nw \in Nat
          /\ word \in 0..2
          /\ pc \in [Threads -> PCs]
          /\ call \in [Threads -> Calls]
          /\ mine \in [Threads -> 0..MaxNotify[shared]]
          /\ own \in [Threads -> BOOLEAN]
          /\ told \in 0..MaxNotify[shared]
          /\ cancel \in [HurdThreads -> BOOLEAN]
          /\ locker \in [HurdThreads -> Threads \cup {Free}]
          /\ leaked \in 0..MaxLeaks[shared] /\ dropped \in BOOLEAN

\* pthread_cond_init
Init == /\ shared \in Shareds /\ saved = FALSE
        /\ seq = 0 /\ nw = 0 /\ word = 0
        /\ pc = [t \in Threads |-> "out"]
        /\ call = [t \in Threads |-> "none"]
        /\ mine = [t \in Threads |-> 0]
        /\ own = [t \in Threads |-> FALSE]
        /\ cancel = [t \in HurdThreads |-> FALSE]
        /\ locker = [t \in HurdThreads |-> Free]
        /\ told = 0 /\ leaked = 0 /\ dropped = FALSE

-----------------------------------------------------------------------------

Goto(t, l) == pc' = [pc EXCEPT ![t] = l]
Own(t, o)  == own' = [own EXCEPT ![t] = o]
Forget(t)  == mine' = [mine EXCEPT ![t] = 0]    \* sw is dead

\* Where a call that keeps the mutex returns to.
Back(t) == IF own[t] THEN "held" ELSE "out"

Hooks   == {t \in Threads : pc[t] = "hook"}    \* they will raise the sequence
OnSeq   == {t \in Threads : pc[t] = "csleep"}
OnMutex == {t \in Threads : pc[t] \in {"msleep", "rsleep"}}

\* The bound on the sequence.
MayRaise == seq + Cardinality(Hooks) < MaxNotify[shared]

\* Where gsync_wait returns to.
Woken(l) == IF l = "msleep" THEN "swap" ELSE "woken"

\* gsync_wake of one of the threads queued on the mutex, if any.
WakeOneOnMutex(t, l) ==
  \/ OnMutex = {} /\ Goto(t, l)
  \/ \E u \in OnMutex : pc' = [pc EXCEPT ![t] = l, ![u] = Woken(pc[u])]

\* gsync_wake of everybody queued on seq.
WakeAllOnSeq(t, l) ==
  pc' = [u \in Threads |-> IF u = t THEN l ELSE IF pc[u] = "csleep" THEN "woken" ELSE pc[u]]

-----------------------------------------------------------------------------
\* The mutex.

\* A thread that waited goes on in __pthread_mutex_cond_lock.
Acquired(t) == Own(t, TRUE) /\ Goto(t, IF call[t] = "none" THEN "held" ELSE "store2")

\* The fast path of lll_lock.
Cas(t) == /\ \/ word = 0 /\ word' = 1 /\ Acquired(t)
             \/ word # 0 /\ Goto(t, "swap") /\ UNCHANGED <<word, own>>
          /\ UNCHANGED <<condition, call, mine, told, leaked, dropped, sigstate>>

\* pthread_mutex_lock, and the same called at the end of a wait.
Lock(t)   == pc[t] = "out" /\ Cas(t)
Relock(t) == pc[t] = "lock" /\ Cas(t)

LockSwap(t) == /\ pc[t] = "swap"
               /\ word' = 2
               /\ \/ word = 0 /\ Acquired(t)
                  \/ word # 0 /\ Goto(t, "mwait") /\ UNCHANGED own
               /\ UNCHANGED <<condition, call, mine, told, leaked, dropped, sigstate>>

LockWait(t) == /\ pc[t] = "mwait"
               /\ Goto(t, IF word = 2 THEN "msleep" ELSE "swap")
               /\ UNCHANGED <<condition, word, call, mine, sigstate, history>>

RelockAsUncontended(t) == /\ pc[t] = "store2"
                          /\ Goto(t, "held")
                          /\ call' = [call EXCEPT ![t] = IF @ = "exit" THEN @ ELSE "none"]
                          /\ UNCHANGED <<condition, word, mine, own, told, leaked, dropped, sigstate>>

\* __pthread_mutex_cond_lock marks the mutex contended; the wait returns.
StoreTwo(t) == /\ pc[t] = "store2"
               /\ word' = 2
               /\ Goto(t, "held")
               /\ call' = [call EXCEPT ![t] = IF @ = "exit" THEN @ ELSE "none"]
               /\ UNCHANGED <<condition, mine, own, told, leaked, dropped, sigstate>>

\* pthread_mutex_unlock, of a cancelled thread by its own cleanup handlers.
Unlock(t) == /\ pc[t] = "held"
             /\ word' = 0 /\ Own(t, FALSE)
             /\ Goto(t, IF word # 1 THEN "uwake" ELSE IF call[t] = "exit" THEN "exited" ELSE "out")
             /\ UNCHANGED <<condition, call, mine, told, leaked, dropped, sigstate>>

UnlockWake(t) == /\ pc[t] = "uwake"
                 /\ WakeOneOnMutex(t, IF call[t] = "exit" THEN "exited" ELSE "out")
                 /\ UNCHANGED <<condition, word, call, mine, sigstate, history>>

-----------------------------------------------------------------------------
\* pthread_cond_wait and pthread_cond_timedwait.

\* The mutex is remembered, unless the condition is shared, and then unlocked.
Start(t, c) == /\ pc[t] = "held" /\ call[t] = "none"
               /\ call' = [call EXCEPT ![t] = c]
               /\ saved' = (saved \/ ~ shared)
               /\ word' = 0 /\ Own(t, FALSE)
               /\ Goto(t, IF word # 1 THEN "wuwake" ELSE "register")
               /\ UNCHANGED <<shared, seq, nw, mine, cancel, told, leaked, dropped>>

Wait(t) == Start(t, "wait") /\ UNCHANGED locker

WaitUnlockWake(t) == /\ pc[t] = "wuwake"
                     /\ WakeOneOnMutex(t, "register")
                     /\ UNCHANGED <<condition, word, call, mine, sigstate, history>>

\* cc.sw = atomic_addx_hi (+1)
Enlist(t, c) == /\ pc[t] = "register" /\ call[t] = c
                /\ nw' = nw + 1
                /\ mine' = [mine EXCEPT ![t] = seq]
                /\ Goto(t, "cwait")
                /\ UNCHANGED <<shared, saved, seq, word, call, cancel, history>>

\* The cleanup handler is pushed.
Register(t) == Enlist(t, "wait") /\ UNCHANGED locker

\* Where a thread goes on when its wait is over.
Waited(t) == IF call[t] = "hwait" THEN "hend" ELSE "lock"

\* gsync_wait on seq returns at once if it changed.
CondWait(t) == /\ pc[t] = "cwait"
               /\ Goto(t, IF seq = mine[t] THEN "csleep" ELSE "woken")
               /\ UNCHANGED <<condition, word, call, mine, sigstate, history>>

\* KERN_TIMEDOUT, before the sleep or in it, requeued or not.
Timeout(t) == /\ pc[t] \in {"cwait", "csleep", "rsleep"}
              /\ Goto(t, "woken")
              /\ UNCHANGED <<condition, word, call, mine, sigstate, history>>

\* KERN_INTERRUPTED: in a wait "continue" goes to the condition of
\* do ... while (0), past the decrement of nw; lll_lock ignores it.
Interrupted(t) ==
  \/ /\ pc[t] \in {"csleep", "rsleep"} /\ leaked < MaxLeaks[shared]
     /\ leaked' = leaked + 1
     /\ Goto(t, Waited(t)) /\ Forget(t)
     /\ UNCHANGED <<condition, word, call, own, told, dropped, sigstate>>
  \/ /\ pc[t] = "msleep"
     /\ Goto(t, "swap")
     /\ UNCHANGED <<condition, word, call, mine, sigstate, history>>

TimedOutKeepsItsPlace(t) == /\ pc[t] = "woken"
                            /\ nw' = IF seq = mine[t] THEN nw ELSE nw - 1
                            /\ Goto(t, Waited(t)) /\ Forget(t)
                            /\ UNCHANGED <<shared, saved, seq, word, call, sigstate, history>>

\* atomic_add (&nw, -1); the mutex is locked next.
Uncount(t) == /\ pc[t] = "woken"
              /\ nw' = nw - 1
              /\ Goto(t, Waited(t)) /\ Forget(t)
              /\ UNCHANGED <<shared, saved, seq, word, call, sigstate, history>>

\* pthread_cancel of a thread in the cancellation point, even one that the
\* kernel has just woken.
Cancel(t) == /\ t \in Cancellable
             /\ pc[t] \in {"cwait", "csleep", "rsleep", "woken"} /\ call[t] = "wait"
             /\ call' = [call EXCEPT ![t] = "exit"]
             /\ Goto(t, "unwind")
             /\ UNCHANGED <<condition, word, mine, sigstate, history>>

UnwindTellsNobody(t) == /\ pc[t] = "unwind"
                        /\ nw' = nw - 1
                        /\ told' = IF seq # mine[t] THEN seq ELSE told
                        /\ Goto(t, "lock") /\ Forget(t)
                        /\ UNCHANGED <<shared, saved, seq, word, call, own, leaked, dropped, sigstate>>

\* cleanup: if the sequence has changed, the thread may have taken a wakeup that
\* was meant for another, and tells everybody.
Unwind(t) == /\ pc[t] = "unwind"
             /\ nw' = nw - 1
             /\ \/ seq # mine[t] /\ told' = seq /\ Goto(t, "xwake")
                \/ seq = mine[t] /\ UNCHANGED told /\ Goto(t, "lock")
             /\ Forget(t)
             /\ UNCHANGED <<shared, saved, seq, word, call, own, leaked, dropped, sigstate>>

UnwindWake(t) == /\ pc[t] = "xwake"
                 /\ WakeAllOnSeq(t, "lock")
                 /\ UNCHANGED <<condition, word, call, mine, sigstate, history>>

-----------------------------------------------------------------------------
\* pthread_hurd_cond_wait_np and pthread_hurd_cond_timedwait_np.

Hooked(t) == call[t] = "hwait" /\ pc[t] \in {"cwait", "csleep", "rsleep", "woken", "hend"}

LockState(t, u) == locker[u] = Free /\ locker' = [locker EXCEPT ![u] = t]
UnlockState(u)  == locker' = [locker EXCEPT ![u] = Free]

\* Cancelled before the call: EINTR, with the mutex.
HurdRefused(t) == /\ t \in HurdThreads /\ pc[t] = "held" /\ call[t] = "none"
                  /\ locker[t] = Free /\ cancel[t]
                  /\ cancel' = [cancel EXCEPT ![t] = FALSE]
                  /\ UNCHANGED <<condition, word, pc, call, mine, locker, history>>

\* The signal state stays locked from the test of cancel until the hook is set.
HurdWait(t) == /\ t \in HurdThreads /\ ~ cancel[t] /\ LockState(t, t)
               /\ Start(t, "hwait")

HurdRegister(t) == Enlist(t, "hwait") /\ UnlockState(t)

\* The hook is cleared and cancel tested and reset: EINTR without the mutex, or
\* the mutex is locked.
HurdEnd(t) ==
  /\ pc[t] = "hend" /\ locker[t] = Free
  /\ \/ /\ cancel[t] /\ cancel' = [cancel EXCEPT ![t] = FALSE]
        /\ dropped' = (dropped \/ (OnMutex # {} /\ word # 2))
        /\ Goto(t, "out") /\ call' = [call EXCEPT ![t] = "none"]
     \/ /\ ~ cancel[t]
        /\ Goto(t, "lock")
        /\ UNCHANGED <<cancel, dropped, call>>
  /\ UNCHANGED <<condition, word, mine, locker, own, told, leaked>>

\* hurd_thread_cancel of u, with u's signal state locked: cancel is set, and the hook,
\* if there is one, called.
HurdCancel(t, u) ==
  /\ pc[t] \in {"held", "out"} /\ call[t] = "none" /\ t # u
  /\ \/ /\ Hooked(u) /\ MayRaise
        /\ LockState(t, u) /\ Goto(t, "hook")
     \/ /\ ~ Hooked(u) /\ locker[u] = Free
        /\ UNCHANGED <<locker, pc>>
  /\ cancel' = [cancel EXCEPT ![u] = TRUE]
  /\ UNCHANGED <<condition, word, call, mine, history>>

\* cancel_self: the sequence is raised, and everybody on it is woken.
Hook(t) == /\ pc[t] = "hook"
           /\ seq' = seq + 1 /\ told' = seq + 1
           /\ Goto(t, "hwake")
           /\ UNCHANGED <<shared, saved, nw, word, call, mine, sigstate, own, leaked, dropped>>

HookWake(t) == /\ pc[t] = "hwake"
               /\ WakeAllOnSeq(t, Back(t))
               /\ \E u \in HurdThreads : locker[u] = t /\ UnlockState(u)
               /\ UNCHANGED <<condition, word, call, mine, cancel, history>>

-----------------------------------------------------------------------------
\* pthread_cond_signal and pthread_cond_broadcast, with the mutex or without.

\* atomic_addx_lo (+1): only if there are waiters are they woken.
Signal(t) == /\ pc[t] \in {"held", "out"} /\ call[t] = "none" /\ MayRaise
             /\ seq' = seq + 1
             /\ Goto(t, IF nw > 0 THEN "swake" ELSE pc[t])
             /\ UNCHANGED <<shared, saved, nw, word, call, mine, sigstate, history>>

SignalWake(t) == /\ pc[t] = "swake"
                 /\ \/ OnSeq = {} /\ Goto(t, Back(t))
                    \/ \E u \in OnSeq : pc' = [pc EXCEPT ![t] = Back(t), ![u] = "woken"]
                 /\ UNCHANGED <<condition, word, call, mine, sigstate, history>>

Broadcast(t) == /\ pc[t] \in {"held", "out"} /\ call[t] = "none" /\ MayRaise
                /\ seq' = seq + 1 /\ told' = seq + 1
                /\ Goto(t, IF nw > 0 THEN "bcast" ELSE pc[t])
                /\ UNCHANGED <<shared, saved, nw, word, call, mine, own, leaked, dropped, sigstate>>

RequeueWakesNobody(t) ==
  /\ pc[t] = "bcast"
  /\ pc' = [v \in Threads |-> IF v = t THEN Back(t) ELSE IF pc[v] = "csleep" THEN "rsleep" ELSE pc[v]]
  /\ UNCHANGED <<condition, word, call, mine, sigstate, history>>

\* If a mutex was remembered, lll_requeue: one is woken, the others queue for
\* the mutex; else lll_wake of all.
BroadcastWake(t) ==
  /\ pc[t] = "bcast"
  /\ \/ /\ saved
        /\ \E u \in OnSeq :
             pc' = [v \in Threads |-> IF v = t THEN Back(t)
                                      ELSE IF v = u THEN "woken"
                                      ELSE IF pc[v] = "csleep" THEN "rsleep" ELSE pc[v]]
     \/ /\ saved => OnSeq = {}
        /\ WakeAllOnSeq(t, Back(t))
  /\ UNCHANGED <<condition, word, call, mine, sigstate, history>>

-----------------------------------------------------------------------------

\* The steps the code takes by itself, once called.
Step(t) == \/ Relock(t) \/ LockSwap(t) \/ LockWait(t) \/ StoreTwo(t) \/ UnlockWake(t)
           \/ WaitUnlockWake(t) \/ Register(t) \/ CondWait(t) \/ Uncount(t)
           \/ Unwind(t) \/ UnwindWake(t) \/ SignalWake(t) \/ BroadcastWake(t)
           \/ HurdRegister(t) \/ HurdEnd(t) \/ Hook(t) \/ HookWake(t)

Next == \E t \in Threads : \/ Lock(t) \/ Wait(t) \/ Signal(t) \/ Broadcast(t)
                           \/ Step(t) \/ Unlock(t)
                           \/ Timeout(t) \/ Interrupted(t) \/ Cancel(t)
                           \/ HurdRefused(t) \/ HurdWait(t)
                           \/ \E u \in HurdThreads : HurdCancel(t, u)

Spec == Init /\ [][Next]_vars

\* Running threads run on and owners unlock in the end; nobody has to lock, wait
\* or notify, and no sleeper is ever timed out or interrupted by fairness alone.
FairSpec == Spec /\ \A t \in Threads : WF_vars(Step(t)) /\ WF_vars(Unlock(t))

-----------------------------------------------------------------------------

Registered == {t \in Threads : pc[t] \in {"cwait", "csleep", "rsleep", "woken", "unwind"}}

\* pthread_cond_wait returns, and a cancelled waiter runs the rest of its
\* handlers, owning the mutex, and alone; the lock word is nonzero exactly while
\* somebody owns it.
MutualExclusion == /\ \A t, u \in Threads : own[t] /\ own[u] => t = u
                   /\ word # 0 <=> \E t \in Threads : own[t]

\* pthread_cond_signal and _broadcast skip the wake when nw is zero, and
\* pthread_cond_destroy is EBUSY when it is not: nw counts the registered waiters,
\* whether they are notified, time out or are cancelled, and for ever those
\* whose wait was interrupted.
WaitersCounted == nw = Cardinality(Registered) + leaked

\* pthread_cond_broadcast, the cleanup handler of a cancelled waiter and the hook of
\* an interrupted one, which may be that waiter itself: a waiter that registered
\* before the sequence was raised for all does not stay asleep on it, unless the wake
\* is still on its way.
TellReachesRegistered ==
  (\E t \in OnSeq : mine[t] < told) => \E u \in Threads : pc[u] \in {"bcast", "xwake", "hwake"}

\* Somebody will look at the mutex again with the slow path of lll_lock, or
\* mark it contended, or wake a thread queued on it.
WillWake(t) == pc[t] \in {"uwake", "wuwake", "swap", "mwait", "store2",
                           "woken", "unwind", "xwake", "hend", "lock"}

\* cond.c:99, "at some points a thread is unconditionally woken during the
\* release": waiters that a broadcast moved to the queue of the mutex, which never
\* marked it contended themselves, are not left there by an unlock that finds
\* the word 1.  An interruptible wait that ends with EINTR does leave them there: it
\* may have had the one wake-up, and does not lock the mutex.
QueuedOnMutexAreWoken == \/ OnMutex = {} \/ word = 2 \/ dropped
                         \/ \E t \in Threads : WillWake(t)

\* The unconditional store of __pthread_mutex_cond_lock, into a word that other threads
\* lock and unlock: it never takes or gives away the lock, and forgets nobody.
RelockingIsSound == MutualExclusion /\ QueuedOnMutexAreWoken

NewCalls == \E t \in Threads : Lock(t) \/ Wait(t) \/ HurdWait(t)

\* t is in no call, or asleep on the sequence of a condition and not told.
AtRest(t) == pc[t] \in {"out", "exited"} \/ (pc[t] = "csleep" /\ mine[t] >= told)

\* Once no thread locks or waits any more, every registered waiter that a broadcast
\* was for, and every thread queued on the mutex, gets the mutex, or EINTR, and
\* unlocks it: nobody stays queued, or tries for ever, unless an EINTR left threads
\* queued.
DueWaitersReturn == \/ []<><<NewCalls>>_vars
                    \/ <>[](dropped \/ \A t \in Threads : AtRest(t))
=============================================================================
