------------------------------- MODULE RwLock -------------------------------
(***************************************************************************)
(* pthread/rwlock.c: one read-write lock.  The two 64-bit words are the    *)
(* four fields spid, qwr, oid and nrd; oid and nrd are loaded and          *)
(* compare-exchanged together.  Readers sleep in gsync on the address of   *)
(* oid (pc "rasleep"), writers on the address of qwr ("wasleep"), both     *)
(* comparing oid, the writers also qwr.                                    *)
(*                                                                         *)
(* Ownership (own) is a history variable: what a thread got from its last  *)
(* successful call.  A thread that owns the lock for reading makes no call *)
(* but pthread_rwlock_unlock.  The field seen of a frame is another: the   *)
(* writers that owned the lock at the loads of rwl_owned_p.                *)
(***************************************************************************)
EXTENDS Naturals, FiniteSets

CONSTANTS Threads,      \* the threads that use the lock
          Calls,        \* the kinds of calls each of them makes
          tid,          \* PTHREAD_SELF->id of each thread
          pid,          \* getpid () of each thread
          IdMask,       \* PTHREAD_ID_MASK
          Shared        \* is GSYNC_SHARED set in __flags?

ReadCalls  == {"rd", "tryrd", "timedrd"}
WriteCalls == {"wr", "trywr", "timedwr"}
AllCalls   == ReadCalls \cup WriteCalls

\* RWLOCK_UNOWNED and RWLOCK_RO; a thread id is a nonzero value of at most
\* IdMask.  RWLOCK_RO is 1U << 31, a bit outside the mask; the first
\* value outside of it stands for it, since TLC's integers have 32 bits.
UNOWNED == 0
RO == IdMask + 1

\* Thread ids are unique in a process, and process ids are positive.  A
\* private lock is used by the threads of one process.
ASSUME RwAssumption ==
  /\ IsFiniteSet(Threads)
  /\ Calls \in [Threads -> SUBSET AllCalls]
  /\ IdMask \in Nat
  /\ tid \in [Threads -> 1..IdMask]
  /\ pid \in [Threads -> Nat \ {0}]
  /\ \A t, u \in Threads : tid[t] = tid[u] /\ pid[t] = pid[u] => t = u
  /\ Shared \in BOOLEAN
  /\ ~ Shared => \A t, u \in Threads : pid[t] = pid[u]

VARIABLES spid, qwr, oid, nrd,  \* the fields of the lock
          pc,                   \* the next step of each thread
          frame,                \* the call each thread is in, and what it loaded
          own                   \* what each thread owns: "none", "read", "write"

lock == <<spid, qwr, oid, nrd>>
vars == <<lock, pc, frame, own>>

\* After "owned" and "pid" (rwl_owned_p), a reader goes through the "r.." and a
\* writer through the "w.." locations; "bcast" is a wake of all readers,
\* "wake" of one writer, the "u.." locations are pthread_rwlock_unlock, and
\* "edeadlk" is the return of EDEADLK.
ReadPCs  == {"rload", "rcas", "rcount", "rwait", "rasleep", "rdec", "rgiveup"}
WritePCs == {"wload", "wcas", "wcount", "wwait", "wasleep", "wdec", "wgiveup", "wcheck", "wsetown"}
UnlockPCs == {"urelease", "uqwr", "unrd", "ucas", "ulast"}
PCs == {"out", "owned", "pid", "bcast", "wake", "edeadlk"} \cup ReadPCs \cup WritePCs \cup UnlockPCs

\* Outside any call, and in pthread_rwlock_unlock, the call is "none"; the other
\* fields are what the call loaded into its locals tmp, owner and nw, and seen.
NoFrame == [call |-> "none", oid |-> UNOWNED, nrd |-> 0, qwr |-> 0, seen |-> {}]

Ids == {tid[t] : t \in Threads}

Frames == [call : AllCalls \cup {"none"}, oid : Ids \cup {UNOWNED, RO}, nrd : Nat, qwr : Nat,
           seen : SUBSET Threads]

TypeOK == /\ spid \in {pid[t] : t \in Threads} \cup {0}
          /\ qwr \in Nat /\ nrd \in Nat
          /\ oid \in Ids \cup {UNOWNED, RO}
          /\ pc \in [Threads -> PCs]
          /\ frame \in [Threads -> Frames]
          /\ own \in [Threads -> {"none", "read", "write"}]

\* pthread_rwlock_init: every field is 0.
Init == /\ spid = 0 /\ qwr = 0 /\ oid = UNOWNED /\ nrd = 0
        /\ pc = [t \in Threads |-> "out"]
        /\ frame = [t \in Threads |-> NoFrame]
        /\ own = [t \in Threads |-> "none"]

-----------------------------------------------------------------------------

Goto(t, l) == pc' = [pc EXCEPT ![t] = l]
Own(t, o)  == own' = [own EXCEPT ![t] = o]

Load(t, o, n, w) ==
  frame' = [frame EXCEPT ![t] = [call |-> frame[t].call, oid |-> o, nrd |-> n, qwr |-> w,
                                 seen |-> {}]]

\* What a call loaded is dead once it loops or returns, and forgotten.
Forget(t) == Load(t, UNOWNED, 0, 0)
Pop(t)    == frame' = [frame EXCEPT ![t] = NoFrame]

Return(t) == Goto(t, "out") /\ Pop(t)

Timed(t) == frame[t].call \in {"timedrd", "timedwr"}

\* (oid & PTHREAD_ID_MASK) == 0
NoWriter(o) == o \in {UNOWNED, RO}

\* A call other than unlock: trywrlock loads oid first, the others begin with
\* rwl_owned_p.
Enter(t) == /\ pc[t] = "out" /\ own[t] \in {"none", "write"}
            /\ \E c \in Calls[t] : /\ frame' = [frame EXCEPT ![t].call = c]
                                   /\ Goto(t, IF c = "trywr" THEN "wload" ELSE "owned")
            /\ UNCHANGED <<lock, own>>

Readers == {t \in Threads : own[t] = "read"}
Writers == {t \in Threads : own[t] = "write"}

Saw(t, owners) == frame' = [frame EXCEPT ![t].seen = owners]

\* rwl_owned_p was false.
Proceed(t) == \/ /\ frame[t].call \in ReadCalls
                 /\ Goto(t, "rload") /\ Saw(t, {})
              \/ /\ frame[t].call \in {"wr", "timedwr"}
                 /\ Goto(t, "wload") /\ Saw(t, {})
              \/ /\ frame[t].call = "trywr"
                 /\ \/ frame[t].oid = UNOWNED /\ Goto(t, "wcas") /\ Saw(t, {})
                    \/ frame[t].oid # UNOWNED /\ Return(t)     \* EBUSY

OwnedByIdAlone(t) == /\ pc[t] = "owned"
                     /\ \/ oid # tid[t] /\ Proceed(t)
                        \/ oid = tid[t] /\ Goto(t, "edeadlk") /\ Saw(t, Writers)
                     /\ UNCHANGED <<lock, own>>

\* rwl_owned_p, the owner id.
OwnedOid(t) == /\ pc[t] = "owned"
               /\ \/ oid # tid[t] /\ Proceed(t)
                  \/ oid = tid[t] /\ Goto(t, IF Shared THEN "pid" ELSE "edeadlk")
                                  /\ Saw(t, Writers)
               /\ UNCHANGED <<lock, own>>

\* rwl_owned_p, the owner's process: a second, separate load.
OwnedPid(t) == /\ pc[t] = "pid"
               /\ \/ spid # pid[t] /\ Proceed(t)
                  \/ spid = pid[t] /\ Goto(t, "edeadlk")
                                   /\ Saw(t, frame[t].seen \cup Writers)
               /\ UNCHANGED <<lock, own>>

Deadlk(t) == /\ pc[t] = "edeadlk"
             /\ Return(t)
             /\ UNCHANGED <<lock, own>>

-----------------------------------------------------------------------------
\* The loops of rdlock, tryrdlock and timedrdlock.

\* atomic_loadx.  Under a writer tryrdlock returns EBUSY, and timedrdlock may
\* find its tv_nsec invalid (EINVAL).
ReadLoad(t) == /\ pc[t] = "rload"
               /\ \/ NoWriter(oid) /\ Goto(t, "rcas") /\ Load(t, oid, nrd, 0)
                  \/ ~ NoWriter(oid) /\ frame[t].call # "tryrd"
                     /\ Goto(t, "rcount") /\ Load(t, oid, 0, 0)
                  \/ ~ NoWriter(oid) /\ frame[t].call \in {"tryrd", "timedrd"} /\ Return(t)
               /\ UNCHANGED <<lock, own>>

\* catomic_casx_bool of both fields; on success, if the lock was unowned and
\* readers were queued, they are woken before the call returns.
ReadCas(t) ==
  /\ pc[t] = "rcas"
  /\ IF oid = frame[t].oid /\ nrd = frame[t].nrd
     THEN /\ oid' = RO /\ nrd' = nrd + 1
          /\ Own(t, "read")
          /\ \/ oid = UNOWNED /\ nrd > 0 /\ Goto(t, "bcast") /\ UNCHANGED frame
             \/ ~ (oid = UNOWNED /\ nrd > 0) /\ Return(t)
     ELSE Goto(t, "rload") /\ UNCHANGED <<oid, nrd, frame, own>>
  /\ UNCHANGED <<spid, qwr>>

\* atomic_add (&nrd, +1): queued readers are counted with the owners.
ReadCount(t) == /\ pc[t] = "rcount"
                /\ nrd' = nrd + 1
                /\ Goto(t, "rwait")
                /\ UNCHANGED <<spid, qwr, oid, frame, own>>

\* lll_wait or lll_abstimed_wait on oid.
ReadWait(t) == /\ pc[t] = "rwait"
               /\ Goto(t, IF oid = frame[t].oid THEN "rasleep" ELSE "rdec")
               /\ UNCHANGED <<lock, frame, own>>

TimedOutReadStaysCounted(t) == /\ \/ pc[t] = "rdec" /\ Goto(t, "rload") /\ Forget(t) /\ nrd' = nrd - 1
                                  \/ pc[t] = "rgiveup" /\ Return(t) /\ UNCHANGED nrd
                               /\ UNCHANGED <<spid, qwr, oid, own>>

\* atomic_add (&nrd, -1), after which the call loops or returns ETIMEDOUT.
ReadUncount(t) == /\ \/ pc[t] = "rdec" /\ Goto(t, "rload") /\ Forget(t)
                     \/ pc[t] = "rgiveup" /\ Return(t)
                  /\ nrd' = nrd - 1
                  /\ UNCHANGED <<spid, qwr, oid, own>>

-----------------------------------------------------------------------------
\* The loops of wrlock and timedwrlock, and trywrlock.

\* atomic_load of oid; timedwrlock may find its tv_nsec invalid (EINVAL).
WriteLoad(t) ==
  /\ pc[t] = "wload"
  /\ LET Loaded == Load(t, oid, 0, 0)
     IN  \/ frame[t].call = "trywr" /\ Goto(t, "owned") /\ Loaded
         \/ frame[t].call # "trywr" /\ oid = UNOWNED /\ Goto(t, "wcas") /\ Loaded
         \/ frame[t].call # "trywr" /\ oid # UNOWNED /\ Goto(t, "wcount") /\ Loaded
         \/ frame[t].call = "timedwr" /\ oid # UNOWNED /\ Return(t)
  /\ UNCHANGED <<lock, own>>

WriteCasOverReaders(t) ==
  /\ pc[t] = "wcas"
  /\ \/ NoWriter(oid) /\ oid' = tid[t] /\ Own(t, "write") /\ Return(t)
     \/ ~ NoWriter(oid) /\ Goto(t, "wload") /\ UNCHANGED <<oid, own, frame>>
  /\ UNCHANGED <<spid, qwr, nrd>>

\* atomic_cas_bool (&oid, UNOWNED, self_id), leaving nrd alone; rwl_setown
\* follows for a shared lock.  A failed trywrlock returns EBUSY.
WriteCas(t) == /\ pc[t] = "wcas"
               /\ \/ /\ oid = UNOWNED
                     /\ oid' = tid[t]
                     /\ Own(t, "write")
                     /\ IF Shared THEN Goto(t, "wsetown") /\ UNCHANGED frame ELSE Return(t)
                  \/ /\ oid # UNOWNED
                     /\ UNCHANGED <<oid, own>>
                     /\ IF frame[t].call = "trywr" THEN Return(t) ELSE Goto(t, "wload") /\ UNCHANGED frame
               /\ UNCHANGED <<spid, qwr, nrd>>

\* rwl_setown
WriteSetOwn(t) == /\ pc[t] = "wsetown"
                  /\ spid' = pid[t]
                  /\ Return(t)
                  /\ UNCHANGED <<qwr, oid, nrd, own>>

\* nw = atomic_add (&qwr, +1)
WriteCount(t) == /\ pc[t] = "wcount"
                 /\ qwr' = qwr + 1
                 /\ Load(t, frame[t].oid, 0, qwr + 1)
                 /\ Goto(t, "wwait")
                 /\ UNCHANGED <<spid, oid, nrd, own>>

\* lll_xwait or lll_abstimed_xwait on qwr and oid.
WriteWait(t) ==
  /\ pc[t] = "wwait"
  /\ Goto(t, IF qwr = frame[t].qwr /\ oid = frame[t].oid THEN "wasleep" ELSE "wdec")
  /\ UNCHANGED <<lock, frame, own>>

\* nw = atomic_add (&qwr, -1), after which the call loops or gives up.
WriteUncount(t) ==
  /\ \/ pc[t] = "wdec" /\ Goto(t, "wload") /\ Forget(t)
     \/ pc[t] = "wgiveup" /\ Goto(t, "wcheck") /\ Load(t, UNOWNED, 0, qwr)
  /\ qwr' = qwr - 1
  /\ UNCHANGED <<spid, oid, nrd, own>>

\* timedwrlock timed out; the last writer queued on an unowned lock wakes the
\* readers, for the wakeup may have been destined for it.  ETIMEDOUT.
WriteCheck(t) ==
  /\ pc[t] = "wcheck"
  /\ IF frame[t].qwr = 1 /\ nrd > 0 /\ oid = UNOWNED
     THEN Goto(t, "bcast") /\ UNCHANGED frame
     ELSE Return(t)
  /\ UNCHANGED <<lock, own>>

-----------------------------------------------------------------------------
\* The kernel: timeouts, interruptions and wakeups.

\* compute_reltime < 0 before the wait, or KERN_TIMEDOUT from it.
Timeout(t) == /\ Timed(t)
              /\ \/ pc[t] \in {"rwait", "rasleep"} /\ Goto(t, "rgiveup")
                 \/ pc[t] \in {"wwait", "wasleep"} /\ Goto(t, "wgiveup")
              /\ UNCHANGED <<lock, frame, own>>

\* KERN_INTERRUPTED: the loops ignore it.
Interrupted(t) == /\ \/ pc[t] = "rasleep" /\ Goto(t, "rdec")
                     \/ pc[t] = "wasleep" /\ Goto(t, "wdec")
                  /\ UNCHANGED <<lock, frame, own>>

\* lll_wake on oid with GSYNC_BROADCAST, and the call returns.
WakeReaders(t) == /\ pc[t] = "bcast"
                  /\ pc' = [u \in Threads |-> IF u = t THEN "out"
                                              ELSE IF pc[u] = "rasleep" THEN "rdec" ELSE pc[u]]
                  /\ Pop(t)
                  /\ UNCHANGED <<lock, own>>

SleepingWriters == {t \in Threads : pc[t] = "wasleep"}

\* lll_wake of one thread on qwr, and the call returns.
WakeWriter(t) == /\ pc[t] = "wake"
                 /\ \/ SleepingWriters = {} /\ Goto(t, "out")
                    \/ \E u \in SleepingWriters : pc' = [pc EXCEPT ![t] = "out", ![u] = "wdec"]
                 /\ UNCHANGED <<lock, frame, own>>

-----------------------------------------------------------------------------
\* pthread_rwlock_unlock, by an owner.

\* The writer's unlock: rwl_spid = 0,
UnlockWriter(t) == /\ pc[t] = "out" /\ own[t] = "write"
                   /\ spid' = 0
                   /\ Goto(t, "urelease")
                   /\ UNCHANGED <<qwr, oid, nrd, frame, own>>

\* then oid = RWLOCK_UNOWNED,
UnlockRelease(t) == /\ pc[t] = "urelease"
                    /\ oid' = UNOWNED
                    /\ Own(t, "none")
                    /\ Goto(t, "uqwr")
                    /\ UNCHANGED <<spid, qwr, nrd, frame>>

UnlockForgetsReaders(t) == /\ pc[t] = "uqwr"
                           /\ Goto(t, IF qwr > 0 THEN "wake" ELSE "out")
                           /\ UNCHANGED <<lock, frame, own>>

\* then a queued writer is woken if qwr > 0,
UnlockQwr(t) == /\ pc[t] = "uqwr"
                /\ Goto(t, IF qwr > 0 THEN "wake" ELSE "unrd")
                /\ UNCHANGED <<lock, frame, own>>

\* else the queued readers if nrd > 0.
UnlockNrd(t) == /\ pc[t] = "unrd"
                /\ Goto(t, IF nrd > 0 THEN "bcast" ELSE "out")
                /\ UNCHANGED <<lock, frame, own>>

\* A reader's unlock loads both fields,
UnlockReader(t) == /\ pc[t] = "out" /\ own[t] = "read"
                   /\ Load(t, oid, nrd, 0)
                   /\ Goto(t, "ucas")
                   /\ UNCHANGED <<lock, own>>

\* and exchanges them for one reader less, loading again on failure.
UnlockCas(t) ==
  /\ pc[t] = "ucas"
  /\ IF oid = frame[t].oid /\ nrd = frame[t].nrd
     THEN /\ oid' = IF nrd = 1 THEN UNOWNED ELSE oid
          /\ nrd' = nrd - 1
          /\ Own(t, "none")
          /\ Pop(t)
          /\ Goto(t, IF nrd = 1 THEN "ulast" ELSE "out")
     ELSE /\ Load(t, oid, nrd, 0)
          /\ UNCHANGED <<oid, nrd, pc, own>>
  /\ UNCHANGED <<spid, qwr>>

LastReaderWakesNobody(t) == /\ pc[t] = "ulast"
                            /\ Goto(t, "out")
                            /\ UNCHANGED <<lock, frame, own>>

\* The last reader wakes a queued writer, if any.
UnlockLast(t) == /\ pc[t] = "ulast"
                 /\ Goto(t, IF qwr > 0 THEN "wake" ELSE "out")
                 /\ UNCHANGED <<lock, frame, own>>

-----------------------------------------------------------------------------

ReadStep(t) == ReadLoad(t) \/ ReadCas(t) \/ ReadCount(t) \/ ReadWait(t) \/ ReadUncount(t)

WriteStep(t) == \/ WriteLoad(t) \/ WriteCas(t) \/ WriteSetOwn(t) \/ WriteCount(t)
                \/ WriteWait(t) \/ WriteUncount(t) \/ WriteCheck(t)

UnlockStep(t) == UnlockRelease(t) \/ UnlockQwr(t) \/ UnlockNrd(t) \/ UnlockCas(t) \/ UnlockLast(t)

Step(t) == \/ OwnedOid(t) \/ OwnedPid(t) \/ Deadlk(t)
           \/ ReadStep(t) \/ WriteStep(t) \/ UnlockStep(t)
           \/ WakeReaders(t) \/ WakeWriter(t)

Unlock(t) == UnlockWriter(t) \/ UnlockReader(t)

Next == \E t \in Threads : \/ Enter(t) \/ Step(t) \/ Unlock(t)
                           \/ Timeout(t) \/ Interrupted(t)

Spec == Init /\ [][Next]_vars

\* Running threads run on and owners unlock; nothing else is forced.
Fairness == \A t \in Threads : WF_vars(Step(t)) /\ WF_vars(Unlock(t))

FairSpec == Spec /\ Fairness

-----------------------------------------------------------------------------

QueuedReaders == {t \in Threads : pc[t] \in {"rwait", "rasleep", "rdec", "rgiveup"}}
QueuedWriters == {t \in Threads : pc[t] \in {"wwait", "wasleep", "wdec", "wgiveup"}}

\* rdlock, wrlock and their variants: a writer owns the lock alone.
Exclusion == /\ \A t, u \in Writers : t = u
             /\ Writers # {} => Readers = {}

\* nrd counts the owning and the queued readers together, and qwr the queued
\* writers, however their additions and exchanges interleave; oid says who owns.
CountsAreExact == /\ nrd = Cardinality(Readers) + Cardinality(QueuedReaders)
                  /\ qwr = Cardinality(QueuedWriters)
                  /\ \A t \in Writers : oid = tid[t]
                  /\ Readers # {} => oid = RO

Sleepers == {t \in Threads : pc[t] \in {"rasleep", "wasleep"}}

\* rdlock and wrlock: no thread is left asleep when nobody owns the lock and
\* nobody else is on its way to take, leave or signal it.
NobodyStranded ==
  \/ Sleepers = {}
  \/ \E t \in Threads : own[t] # "none" \/ pc[t] \notin {"out", "rasleep", "wasleep"}

\* A timedrdlock that times out after the last owner saw it counted leaves the
\* lock RWLOCK_RO, with no reader that could unlock it.
Abandoned == oid = RO /\ nrd = 0

\* NobodyStranded, but for the sleepers on a lock that a timedrdlock abandoned.
NobodyElseStranded == NobodyStranded \/ Abandoned

\* The loads of rwl_owned_p met two owners: it read the id of one of them and
\* the process of another, and what it compares is the identity of neither.
Torn(t) == \E u, v \in frame[t].seen : u # v

\* rwl_owned_p (rwlock.c:114, "Test that a read-write lock is owned by a
\* particular thread"): EDEADLK is returned to the writer that owns the lock
\* only, though threads of other processes have its id, and though spid is set
\* after oid and reset before it.  The code fails this for a torn look, and the
\* property excuses that look only.
EdeadlkOnlyToTheOwner ==
  \A t \in Threads : pc[t] = "edeadlk" => own[t] = "write" \/ Torn(t)

NewCalls == \E t \in Threads : Enter(t)

\* Once no new calls are made, every call of rdlock, wrlock and their variants
\* and of unlock returns in the end, unless a timedrdlock left the lock abandoned
\* for good.
CallsReturn == \/ []<><<NewCalls>>_vars
               \/ <>[](Abandoned \/ \A t \in Threads : pc[t] = "out")
=============================================================================
