-------------------------------- MODULE Mutex --------------------------------
(***************************************************************************)
(* The mutexes of pthread/mutex.c, of every type, private or shared,       *)
(* robust or not.  Under the robust ones is RobustLock, step by step; the  *)
(* lll_lock under the others is one step that takes a free word and        *)
(* another that frees it, as LowLevelLock implements AbstractLock.  Each   *)
(* access to the fields that say who the owner is is a step.               *)
(***************************************************************************)
EXTENDS RobustLock

CONSTANTS id,           \* the id of each thread, unique in its process only
          NotRecoverable, \* NOTRECOVERABLE_ID
          Home,         \* the process of a private mutex
          Kinds,        \* the mutexes that are initialised
          Locking,      \* the calls with which each thread locks
          MaxCnt        \* bound: the largest __cnt

VARIABLES kind,         \* __type and __flags
          owner_id,     \* __owner_id
          shpid,        \* __shpid
          cnt,          \* __cnt
          hold,         \* history: the locks each thread owes an unlock
          damaged,      \* history: an owner died, and nothing was repaired
          stale,        \* history: threads whose first look at the owner is out of date
          torn          \* history: one of them concluded that it was the owner

mutexVars == <<owner_id, shpid, cnt, hold, damaged>>
history == <<stale, torn>>
vars == <<lockVars, kind, mutexVars, history>>

Types == {"normal", "recursive", "errorcheck"}

ASSUME MutexAssumption ==
  /\ MaxCnt \in Nat \ {0} /\ NotRecoverable \in Nat \ {0}
  /\ Kinds \subseteq [type : Types, shared : BOOLEAN, robust : BOOLEAN]
  /\ Locking \in [Threads -> SUBSET {"lock", "timed", "try"}]
  /\ id \in [Threads -> Nat \ {0, NotRecoverable}]
  /\ \A t, u \in Threads : t # u /\ pid[t] = pid[u] => id[t] # id[u]

\* pthread_mutex_init: a task-local mutex is never robust.
Init == /\ LockInit
        /\ \E k \in Kinds : kind = [k EXCEPT !.robust = @ /\ k.shared]
        /\ pc = [t \in Threads |-> "out"]
        /\ op = [t \in Threads |-> "unlock"]
        /\ owner_id = 0 /\ shpid = NoPid /\ cnt = 0
        /\ hold = [t \in Threads |-> 0] /\ damaged = FALSE
        /\ stale = {} /\ torn = FALSE

-----------------------------------------------------------------------------

Is(type) == kind.type = type

\* Only its own process can use a private mutex.
Users == {t \in Threads : kind.shared \/ pid[t] = Home}

\* What a program may ask: a normal mutex checks nothing.
Legal(t, o) == Is("normal") => (o = "unlock") = (hold[t] > 0)

Enter(t, o) == /\ Legal(t, o)
               /\ op' = [op EXCEPT ![t] = o]
               /\ Goto(t, "out", IF kind.robust \/ ~Is("normal") THEN "owner"
                                 ELSE IF o = "unlock" THEN "give" ELSE "take")
               /\ UNCHANGED <<alive, word, mutexVars>>

\* The caller is not the owner: EPERM, or on to the lock.
NotOwned(t, l) == /\ Goto(t, l, IF op[t] = "unlock" THEN "out"
                                ELSE IF ~kind.robust THEN "take"
                                ELSE IF op[t] = "try" THEN "try" ELSE "first")
                  /\ UNCHANGED mutexVars

Relock(t, l) == /\ IF Is("recursive") /\ cnt < MaxCnt
                   THEN cnt' = cnt + 1 /\ hold' = [hold EXCEPT ![t] = @ + 1]
                   ELSE UNCHANGED <<cnt, hold>>
                /\ Goto(t, l, "out")
                /\ UNCHANGED <<owner_id, shpid, damaged>>

UnlockAtOnce(t, l) == /\ hold' = [hold EXCEPT ![t] = @ - 1]
                      /\ UNCHANGED cnt /\ Goto(t, l, IF kind.robust THEN "mark" ELSE "clear")
                      /\ UNCHANGED <<owner_id, shpid, damaged>>

\* An owner unlocks: a recursive or robust mutex counts down first.
Unlock(t, l) == LET last == cnt = 1 \/ (Is("errorcheck") /\ ~kind.robust)
                IN /\ hold' = [hold EXCEPT ![t] = IF @ = 0 THEN 0 ELSE @ - 1]
                   /\ cnt' = IF cnt = 0 THEN 0 ELSE cnt - 1
                   /\ Goto(t, l, IF ~last THEN "out" ELSE IF kind.robust THEN "mark" ELSE "clear")
                   /\ UNCHANGED <<owner_id, shpid, damaged>>

\* The caller is the owner: it unlocks, or it counts up (EAGAIN at the limit)
\* or is told EDEADLK.  A robust normal mutex goes on to deadlock.
Owned(t, l) == IF op[t] = "unlock" THEN Unlock(t, l)
               ELSE IF Is("normal") THEN NotOwned(t, l) ELSE Relock(t, l)

\* pthread_mutex_timedlock of an error-checking mutex compares ids only.
ComparesPid(t) == kind.robust \/ (kind.shared /\ ~(Is("errorcheck") /\ Timed(t)))

\* The pid compared is in __shpid, or in the word of a robust mutex.
OwnerPid == IF kind.robust THEN word.pid ELSE shpid

\* mtx_owned_p and the head of ROBUST_LOCK: first the owner's id ...
OwnerId(t) == /\ IF kind.robust /\ owner_id = NotRecoverable
                 THEN Goto(t, "owner", "out") /\ UNCHANGED mutexVars
                 ELSE IF owner_id # id[t] THEN NotOwned(t, "owner")
                 ELSE IF ComparesPid(t) THEN Goto(t, "owner", "pid") /\ UNCHANGED mutexVars
                 ELSE Owned(t, "owner")
              /\ UNCHANGED <<alive, word, op>>

\* ... then its process.
OwnerProcess(t) == /\ IF OwnerPid = pid[t] THEN Owned(t, "pid") ELSE NotOwned(t, "pid")
                   /\ UNCHANGED <<alive, word, op>>

\* lll_lock, lll_trylock and lll_abstimed_lock.
Take(t) == /\ \/ /\ word = Free /\ word' = Taken(t, FALSE)
                 /\ \/ Is("normal") /\ Goto(t, "take", "out") /\ hold' = [hold EXCEPT ![t] = 1]
                    \/ ~Is("normal") /\ Goto(t, "take", "setid") /\ UNCHANGED hold
              \/ /\ word # Free /\ op[t] # "lock"
                 /\ Goto(t, "take", "out") /\ UNCHANGED <<word, hold>>
           /\ UNCHANGED <<alive, op, owner_id, shpid, cnt, damaged>>

Return(t, l) == Goto(t, l, "out") /\ cnt' = 1 /\ hold' = [hold EXCEPT ![t] = 1]

\* mtx_set_owner, and __cnt.
SetId(t) == /\ owner_id' = id[t]
            /\ IF kind.shared THEN Goto(t, "setid", "setpid") /\ UNCHANGED <<cnt, hold>>
               ELSE Return(t, "setid")
            /\ UNCHANGED <<alive, word, op, shpid, damaged>>

SetPid(t) == /\ shpid' = pid[t] /\ Return(t, "setpid")
             /\ UNCHANGED <<alive, word, op, owner_id, damaged>>

\* __owner_id = __shpid = 0, and lll_unlock.
Clear(t) == /\ shpid' = NoPid /\ Goto(t, "clear", "clearid")
            /\ UNCHANGED <<alive, word, op, owner_id, cnt, hold, damaged>>

ClearId(t) == /\ owner_id' = 0 /\ Goto(t, "clearid", "give")
              /\ UNCHANGED <<alive, word, op, shpid, cnt, hold, damaged>>

Give(t) == /\ word' = Free /\ Goto(t, "give", "out")
           /\ hold' = [hold EXCEPT ![t] = 0]
           /\ UNCHANGED <<alive, op, owner_id, shpid, cnt, damaged>>

\* The end of ROBUST_LOCK.  A mutex that became unrecoverable while the
\* thread waited is refused, but its word stays taken.
Recover(t) == /\ \/ /\ owner_id = NotRecoverable
                    /\ \/ Goto(t, "got", "out") \/ Goto(t, "gotdead", "out")
                    /\ UNCHANGED <<owner_id, cnt, hold>>
                 \/ /\ owner_id # NotRecoverable /\ owner_id' = id[t]
                    /\ \/ Return(t, "got")
                       \/ Goto(t, "gotdead", "flag") /\ cnt' = 1 /\ UNCHANGED hold
              /\ UNCHANGED <<alive, word, op, shpid, damaged>>

\* lock = lock | LLL_DEAD_OWNER: a read, and a store of what was read.
ReadFlags(t) == /\ Move(t, "flag", "setflag", word)
                /\ UNCHANGED <<alive, word, op, mutexVars>>

DropsFlag(t) == /\ word' = val[t] /\ Return(t, "setflag")
                /\ UNCHANGED <<alive, op, owner_id, shpid, damaged>>

SetFlag(t) == /\ word' = [val[t] EXCEPT !.dead = TRUE] /\ Return(t, "setflag")
              /\ UNCHANGED <<alive, op, owner_id, shpid, damaged>>

\* The last robust unlock of an inconsistent mutex makes it unrecoverable.
Mark(t) == /\ owner_id' = IF word.dead THEN NotRecoverable ELSE 0
           /\ Goto(t, "mark", "release")
           /\ UNCHANGED <<alive, word, op, shpid, cnt, hold, damaged>>

\* pthread_mutex_consistent, by an owner that did not lock again: a waiter
\* that sets LLL_WAITERS in between makes it fail with EINVAL.
Consistent(t) == /\ kind.robust /\ hold[t] = 1 /\ word.dead
                 /\ Move(t, "out", "repair", word)
                 /\ UNCHANGED <<alive, word, op, mutexVars>>

Repair(t) == /\ \/ /\ word = val[t] /\ word' = Taken(t, TRUE)
                   /\ owner_id' = id[t] /\ cnt' = 1 /\ damaged' = FALSE
                \/ word # val[t] /\ UNCHANGED <<word, owner_id, cnt, damaged>>
             /\ Goto(t, "repair", "out")
             /\ UNCHANGED <<alive, op, shpid, hold>>

\* pthread_mutex_transfer_np by an owner, to a thread that is not in a call.
Transfer(t, u) == /\ pc[t] = "out" /\ pc[u] = "out" /\ pid[t] = pid[u] /\ t # u
                  /\ hold[t] > 0 /\ hold[u] = 0
                  /\ IF Is("normal") /\ ~kind.robust THEN UNCHANGED owner_id
                     ELSE owner_id = id[t] /\ owner_id' = id[u]
                  /\ hold' = [hold EXCEPT ![t] = 0, ![u] = hold[t]]
                  /\ UNCHANGED <<lockVars, shpid, cnt, damaged>>

\* A process that uses a robust mutex dies.
Crash(p) == /\ kind.robust /\ alive # {p} /\ Die(p)
            /\ damaged' = (damaged \/ \E t \in Threads : pid[t] = p /\ hold[t] > 0)
            /\ hold' = [t \in Threads |-> IF pid[t] = p THEN 0 ELSE hold[t]]
            /\ UNCHANGED <<owner_id, shpid, cnt>>

-----------------------------------------------------------------------------

\* t is about to conclude, from its last look, that it is the owner or is not.
SaysOwned(t) == \/ pc[t] = "pid" /\ OwnerPid = pid[t]
                \/ pc[t] = "owner" /\ owner_id = id[t] /\ ~ComparesPid(t)

SaysNotOwned(t) == \/ pc[t] = "pid" /\ OwnerPid # pid[t]
                   \/ pc[t] = "owner" /\ owner_id \notin {id[t], NotRecoverable}

\* The id and the process a thread compares may be those of two owners: the
\* fields were written between its two looks, or a thread has taken a dead
\* owner's word and not stored its own id yet.
Unsettled(t) == \/ t \in stale
                \/ \E u \in Threads : pc[u] = "gotdead"

History == /\ stale' = {t \in Threads :
                         /\ pc[t] = "pid" /\ pc'[t] = "pid"
                         /\ t \in stale \/ <<owner_id, OwnerPid>> # <<owner_id', OwnerPid'>>}
           /\ torn' = (torn \/ \E t \in Threads :
                         pc[t] = "pid" /\ pc'[t] # "pid" /\ SaysOwned(t) /\ Unsettled(t))

Step(t) == \/ LockStep(t) /\ UNCHANGED mutexVars
           \/ OwnerId(t) \/ OwnerProcess(t) \/ Take(t) \/ SetId(t) \/ SetPid(t)
           \/ Clear(t) \/ ClearId(t) \/ Give(t)
           \/ Recover(t) \/ ReadFlags(t) \/ SetFlag(t) \/ Mark(t) \/ Repair(t)

Call(t) == \/ \E o \in Locking[t] \cup {"unlock"} : Enter(t, o)
           \/ Consistent(t)
           \/ \E u \in Users : Transfer(t, u)

Next == /\ \/ \E t \in Users : \/ Step(t) \/ Call(t)
                               \/ (Expired(t) \/ Interrupted(t)) /\ UNCHANGED mutexVars
           \/ \E p \in Pids : Crash(p)
        /\ UNCHANGED kind
        /\ History

Spec == Init /\ [][Next]_vars

\* Running threads run on, a bounded sleep ends, and an owner that lives
\* unlocks; nobody has to call, die, be interrupted or meet a deadline.
Fairness == \A t \in Threads :
              /\ WF_vars(Step(t) /\ UNCHANGED kind /\ History)
              /\ WF_vars(hold[t] > 0 /\ Enter(t, "unlock") /\ UNCHANGED kind /\ History)

FairSpec == Spec /\ Fairness

-----------------------------------------------------------------------------

Holders == {t \in Threads : hold[t] > 0}

\* Whatever the type, one thread at most owns the mutex, and the word, the
\* owner fields and the recursion count describe it: the hazard is the order
\* of the plain accesses around the lock word.  (A torn look at the owner of
\* a shared mutex breaks this, as ids are unique in a process only.)
OwnerIsRecorded ==
  ~torn => \A t \in Holders :
    /\ Holders = {t}
    /\ word.pid = pid[t]
    /\ (Is("normal") /\ ~kind.robust) \/ owner_id = id[t]
    /\ kind.shared /\ ~kind.robust /\ ~Is("normal") => shpid = pid[t]
    /\ (Is("recursive") \/ kind.robust) => cnt = hold[t]

\* Unless what it looked at is unsettled, a thread is told that it owns the
\* mutex (it relocks, unlocks or gets EDEADLK) only if it does, and that it
\* does not (EPERM, or a lock it would deadlock on) only if it does not.
\* (pthread_mutex_timedlock may answer EDEADLK to a namesake of the owner.)
VerdictsAreRight ==
  ~torn => \A t \in Threads :
    /\ SaysOwned(t) /\ ~Unsettled(t) /\ (ComparesPid(t) \/ ~kind.shared) => hold[t] > 0
    /\ SaysNotOwned(t) => hold[t] = 0

\* Who owns the mutex is on record, and everybody is told right.
OwnershipIsKnown == OwnerIsRecorded /\ VerdictsAreRight

\* While what a dead owner left is not repaired, no thread gets the mutex
\* without EOWNERDEAD, and the word or the owner says so at every moment,
\* through takeovers, further deaths and unlocks.
DamageIsTold ==
  ~torn /\ damaged =>
    /\ \/ word.dead \/ owner_id = NotRecoverable \/ OwnerDied(word)
       \/ \E t \in Threads : pc[t] \in {"gotdead", "flag", "setflag"}
    /\ \A t \in Threads : pc[t] = "got" => owner_id = NotRecoverable

\* Any call but the unlock that an owner owes, and the repair.
NewCalls == \E t \in Threads : \/ \E o \in Locking[t] : Enter(t, o)
                               \/ hold[t] = 0 /\ Enter(t, "unlock")
                               \/ \E u \in Threads : Transfer(t, u)

Inside(t) == pc[t] \notin {"out", "dead"}

\* A thread that was refused an unrecoverable mutex has kept its word.
Leaked == /\ owner_id = NotRecoverable /\ word.pid \in alive
          /\ \A t \in Threads : pc[t] \notin {"got", "gotdead", "release"}

\* Whoever dies, once there are no new calls every survivor's calls end:
\* polling makes up for the wake-up that a dead owner, or a lost LLL_WAITERS,
\* never sends.  (Unless somebody keeps the word of an unrecoverable mutex.)
SurvivorsReturn == \/ []<><<NewCalls>>_vars
                   \/ <>[](Leaked \/ \A t \in Threads : ~Inside(t))

=============================================================================
