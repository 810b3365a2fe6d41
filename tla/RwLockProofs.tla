---------------------------- MODULE RwLockProofs ----------------------------
(***************************************************************************)
(* For every finite set of threads, private or shared: the reader and      *)
(* writer counts of the lock are exact, and a writer excludes everybody    *)
(* else.  The two are inductive only together: the last reader's unlock    *)
(* (nrd = 1) frees the lock because no other owner can hide behind a       *)
(* count that queued readers share.  From them follows that no sleeper is  *)
(* stranded.                                                               *)
(***************************************************************************)
EXTENDS RwLock, FiniteSetTheorems, TLAPS

\* What the program counter of a thread says of what it owns and has loaded.
PcInv == \A t \in Threads :
           /\ own[t] = "read" => pc[t] \in {"out", "bcast", "ucas"}
           /\ pc[t] \in {"urelease", "wsetown"} => own[t] = "write"
           /\ pc[t] = "ucas" => own[t] = "read"
           /\ pc[t] = "rcas" => NoWriter(frame[t].oid)

\* A writer's id in oid belongs to a thread that owns the lock for writing.
OwnerInv == oid \notin {UNOWNED, RO} => \E t \in Writers : oid = tid[t]

IInv == TypeOK /\ PcInv /\ OwnerInv /\ Exclusion /\ CountsAreExact

\* The steps that change neither an owner, nor a queue, nor oid, nrd and qwr.
Quiet(t) == \/ Enter(t) \/ OwnedOid(t) \/ OwnedPid(t) \/ Deadlk(t)
            \/ ReadLoad(t) \/ ReadWait(t)
            \/ WriteLoad(t) \/ WriteSetOwn(t) \/ WriteWait(t) \/ WriteCheck(t)
            \/ Timeout(t) \/ Interrupted(t) \/ WakeReaders(t) \/ WakeWriter(t)
            \/ UnlockWriter(t) \/ UnlockQwr(t) \/ UnlockNrd(t)
            \/ UnlockReader(t) \/ UnlockLast(t)

\* A thread id is neither RWLOCK_UNOWNED nor RWLOCK_RO.
LEMMA IdsAreNoSpecialValues ==
  ASSUME NEW t \in Threads PROVE tid[t] \notin {UNOWNED, RO} /\ tid[t] \in Ids
  BY RwAssumption DEF UNOWNED, RO, Ids

\* Subsets of Threads are finite, and gain and lose one element at a time.
LEMMA Counting ==
  ASSUME NEW S \in SUBSET Threads
  PROVE  /\ Cardinality(S) \in Nat
         /\ Cardinality(S) = 0 <=> S = {}
         /\ \A t \in Threads \ S : Cardinality(S \cup {t}) = Cardinality(S) + 1
         /\ \A t \in S : Cardinality(S \ {t}) = Cardinality(S) - 1
<1>1. IsFiniteSet(S)
  BY RwAssumption, FS_Subset
<1> QED BY <1>1, FS_CardinalityType, FS_EmptySet, FS_AddElement, FS_RemoveElement

\* Calling, loading and returning keep the frames in their type.
LEMMA FrameTypes ==
  ASSUME TypeOK, NEW t \in Threads
  PROVE  /\ Pop(t) => frame' \in [Threads -> Frames]
         /\ \A o \in Ids \cup {UNOWNED, RO}, n, w \in Nat :
              Load(t, o, n, w) => frame' \in [Threads -> Frames]
         /\ \A c \in Calls[t] :
              frame' = [frame EXCEPT ![t].call = c] => frame' \in [Threads -> Frames]
         /\ \A S \in SUBSET Threads : Saw(t, S) => frame' \in [Threads -> Frames]
<1>1. NoFrame \in Frames /\ frame[t] \in Frames
  BY DEF TypeOK, NoFrame, Frames
<1>2. Pop(t) => frame' \in [Threads -> Frames]
  BY <1>1 DEF TypeOK, Pop
<1>3. ASSUME NEW o \in Ids \cup {UNOWNED, RO}, NEW n \in Nat, NEW w \in Nat, Load(t, o, n, w)
      PROVE  frame' \in [Threads -> Frames]
  <2>1. [call |-> frame[t].call, oid |-> o, nrd |-> n, qwr |-> w, seen |-> {}] \in Frames
    BY <1>1 DEF Frames
  <2> QED BY <1>3, <2>1 DEF TypeOK, Load
<1>4. ASSUME NEW c \in Calls[t], frame' = [frame EXCEPT ![t].call = c]
      PROVE  frame' \in [Threads -> Frames]
  <2>1. c \in AllCalls
    BY <1>4, RwAssumption
  <2>2. [frame[t] EXCEPT !.call = c] \in Frames
    BY <1>1, <2>1 DEF Frames
  <2> QED BY <1>4, <2>2 DEF TypeOK
<1>5. ASSUME NEW S \in SUBSET Threads, Saw(t, S) PROVE frame' \in [Threads -> Frames]
  <2>1. [frame[t] EXCEPT !.seen = S] \in Frames
    BY <1>1 DEF Frames
  <2> QED BY <1>5, <2>1 DEF TypeOK, Saw
<1> QED BY <1>2, <1>3, <1>4, <1>5

\* The quiet steps keep the types.
LEMMA QuietTypes ==
  ASSUME TypeOK, NEW t \in Threads, Quiet(t) PROVE TypeOK'
<1> DEFINE PcType == pc' \in [Threads -> PCs]
           FrameType == frame' \in [Threads -> Frames]
<1> SUFFICES PcType /\ FrameType /\ spid' \in {pid[u] : u \in Threads} \cup {0}
             /\ UNCHANGED <<oid, qwr, nrd, own>>
  BY DEF TypeOK
<1>a. \A l \in PCs : Goto(t, l) => PcType
  BY DEF TypeOK, Goto
<1>b. \A o \in Ids \cup {UNOWNED, RO}, n, w \in Nat : Load(t, o, n, w) => FrameType
  BY FrameTypes
<1>c. UNCHANGED frame \/ Pop(t) => FrameType
  BY FrameTypes DEF TypeOK
<1>d. Return(t) => PcType /\ FrameType
  BY <1>a, <1>c DEF Return, PCs
<1>s. \A S \in SUBSET Threads : Saw(t, S) => FrameType
  BY FrameTypes
<1>w. Writers \in SUBSET Threads /\ frame[t].seen \in SUBSET Threads
  BY DEF TypeOK, Frames, Writers
<1>e. oid \in Ids \cup {UNOWNED, RO} /\ 0 \in Nat /\ nrd \in Nat /\ qwr \in Nat /\ UNOWNED \in Ids \cup {UNOWNED, RO}
  BY DEF TypeOK
<1> USE DEF lock
<1>p. UNCHANGED spid => spid' \in {pid[u] : u \in Threads} \cup {0}
  BY DEF TypeOK
<1>1. CASE Enter(t)
  BY <1>1, <1>a, <1>p, FrameTypes DEF Enter, PCs, WritePCs
<1>2. Proceed(t) => PcType /\ FrameType
  BY <1>a, <1>d, <1>s DEF Proceed, PCs, ReadPCs, WritePCs
<1>3. CASE OwnedOid(t)
  BY <1>2, <1>3, <1>a, <1>p, <1>s, <1>w DEF OwnedOid, PCs
<1>4. CASE OwnedPid(t)
  BY <1>2, <1>4, <1>a, <1>p, <1>s, <1>w DEF OwnedPid, PCs
<1>5. CASE Deadlk(t)
  BY <1>5, <1>d, <1>p DEF Deadlk
<1>6. CASE ReadLoad(t)
  BY <1>6, <1>a, <1>b, <1>d, <1>e, <1>p DEF ReadLoad, PCs, ReadPCs
<1>7. CASE WriteLoad(t)
  BY <1>7, <1>a, <1>b, <1>d, <1>e, <1>p DEF WriteLoad, PCs, WritePCs
<1>8. CASE WriteSetOwn(t)
  BY <1>8, <1>d DEF WriteSetOwn
<1>9. CASE ReadWait(t) \/ WriteWait(t) \/ Interrupted(t) \/ Timeout(t)
  BY <1>9, <1>a, <1>c, <1>p DEF ReadWait, WriteWait, Interrupted, Timeout, PCs, ReadPCs, WritePCs
<1>10. CASE WriteCheck(t)
  BY <1>10, <1>a, <1>c, <1>d, <1>p DEF WriteCheck, PCs
<1>11. CASE WakeReaders(t)
  BY <1>11, <1>c, <1>p DEF WakeReaders, TypeOK, PCs, ReadPCs
<1>12. CASE WakeWriter(t)
  BY <1>12, <1>a, <1>c, <1>p DEF WakeWriter, SleepingWriters, TypeOK, PCs, WritePCs
<1>13. CASE UnlockWriter(t)
  BY <1>13, <1>a, <1>c DEF UnlockWriter, PCs, UnlockPCs
<1>14. CASE UnlockReader(t)
  BY <1>14, <1>a, <1>b, <1>e, <1>p DEF UnlockReader, PCs, UnlockPCs
<1>15. CASE UnlockQwr(t) \/ UnlockNrd(t) \/ UnlockLast(t)
  BY <1>15, <1>a, <1>c, <1>p DEF UnlockQwr, UnlockNrd, UnlockLast, PCs, UnlockPCs
<1> QED BY <1>1, <1>3, <1>4, <1>5, <1>6, <1>7, <1>8, <1>9, <1>10, <1>11, <1>12, <1>13,
           <1>14, <1>15 DEF Quiet

\* The quiet steps neither change an owner nor move a thread into or out of a
\* queue.
LEMMA QuietQueues ==
  ASSUME TypeOK, NEW t \in Threads, Quiet(t)
  PROVE  /\ UNCHANGED <<oid, nrd, qwr, own, Readers, Writers>>
         /\ UNCHANGED <<QueuedReaders, QueuedWriters>>
<1>1. UNCHANGED <<oid, nrd, qwr, own>>
  BY DEF Quiet, lock, Enter, OwnedOid, OwnedPid, Deadlk, ReadLoad, ReadWait, WriteLoad,
         WriteSetOwn, WriteWait, WriteCheck, Timeout, Interrupted, WakeReaders, WakeWriter,
         UnlockWriter, UnlockQwr, UnlockNrd, UnlockReader, UnlockLast
<1>2. UNCHANGED <<Readers, Writers>>
  BY <1>1 DEF Readers, Writers
<1>3. UNCHANGED <<QueuedReaders, QueuedWriters>>
  <2> USE DEF QueuedReaders, QueuedWriters, TypeOK, Goto, Return
  <2>1. CASE Enter(t) \/ OwnedOid(t) \/ OwnedPid(t) \/ Deadlk(t)
    BY <2>1 DEF Enter, OwnedOid, OwnedPid, Deadlk, Proceed
  <2>2. CASE ReadLoad(t) \/ ReadWait(t)
    BY <2>2 DEF ReadLoad, ReadWait
  <2>3. CASE WriteLoad(t) \/ WriteSetOwn(t) \/ WriteWait(t) \/ WriteCheck(t)
    BY <2>3 DEF WriteLoad, WriteSetOwn, WriteWait, WriteCheck
  <2>4. CASE Timeout(t) \/ Interrupted(t)
    BY <2>4 DEF Timeout, Interrupted
  <2>5. CASE WakeReaders(t)
    BY <2>5 DEF WakeReaders
  <2>6. CASE WakeWriter(t)
    BY <2>6 DEF WakeWriter, SleepingWriters
  <2>7. CASE UnlockWriter(t) \/ UnlockQwr(t) \/ UnlockNrd(t) \/ UnlockReader(t) \/ UnlockLast(t)
    BY <2>7 DEF UnlockWriter, UnlockQwr, UnlockNrd, UnlockReader, UnlockLast
  <2> QED BY <2>1, <2>2, <2>3, <2>4, <2>5, <2>6, <2>7 DEF Quiet
<1> QED BY <1>1, <1>2, <1>3

\* The quiet steps keep what the program counters say.
LEMMA QuietPcInv ==
  ASSUME TypeOK, PcInv, NEW t \in Threads, Quiet(t) PROVE PcInv'
<1> USE DEF PcInv, TypeOK, Goto, Return
<1>0. UNCHANGED own
  BY QuietQueues
<1>1. CASE Enter(t)
  BY <1>0, <1>1 DEF Enter
<1>2. CASE OwnedOid(t) \/ OwnedPid(t) \/ Deadlk(t)
  BY <1>0, <1>2 DEF OwnedOid, OwnedPid, Deadlk, Proceed, Pop, Saw
<1>3. CASE ReadLoad(t)
  BY <1>0, <1>3 DEF ReadLoad, Load, Pop
<1>4. CASE WriteLoad(t)
  BY <1>0, <1>4 DEF WriteLoad, Load, Pop
<1>5. CASE ReadWait(t) \/ WriteWait(t) \/ Timeout(t) \/ Interrupted(t)
  BY <1>0, <1>5 DEF ReadWait, WriteWait, Timeout, Interrupted
<1>6. CASE WriteSetOwn(t) \/ WriteCheck(t)
  BY <1>0, <1>6 DEF WriteSetOwn, WriteCheck, Pop
<1>7. CASE WakeReaders(t)
  BY <1>0, <1>7 DEF WakeReaders, Pop
<1>8. CASE WakeWriter(t)
  BY <1>0, <1>8 DEF WakeWriter, SleepingWriters
<1>9. CASE UnlockReader(t)
  BY <1>0, <1>9 DEF UnlockReader, Load
<1>10. CASE UnlockWriter(t) \/ UnlockQwr(t) \/ UnlockNrd(t) \/ UnlockLast(t)
  BY <1>0, <1>10 DEF UnlockWriter, UnlockQwr, UnlockNrd, UnlockLast
<1> QED BY <1>1, <1>2, <1>3, <1>4, <1>5, <1>6, <1>7, <1>8, <1>9, <1>10 DEF Quiet

LEMMA QuietStep == ASSUME IInv, NEW t \in Threads, Quiet(t) PROVE IInv'
  BY QuietTypes, QuietQueues, QuietPcInv DEF IInv, OwnerInv, Exclusion, CountsAreExact

-----------------------------------------------------------------------------

\* The three ways the counts change.
LEMMA CountsBound ==
  ASSUME IInv
  PROVE  /\ Readers \in SUBSET Threads /\ QueuedReaders \in SUBSET Threads
         /\ QueuedWriters \in SUBSET Threads /\ Writers \in SUBSET Threads
         /\ Cardinality(Readers) \in Nat /\ Cardinality(QueuedReaders) \in Nat
         /\ Cardinality(QueuedWriters) \in Nat
         /\ nrd = Cardinality(Readers) + Cardinality(QueuedReaders)
         /\ qwr = Cardinality(QueuedWriters)
  BY Counting DEF IInv, CountsAreExact, Readers, Writers, QueuedReaders, QueuedWriters

LEMMA ReadCasStep == ASSUME IInv, NEW t \in Threads, ReadCas(t) PROVE IInv'
<1> USE DEF IInv
<1>1. CASE ~ (oid = frame[t].oid /\ nrd = frame[t].nrd)
  <2>1. UNCHANGED <<lock, frame, own>> /\ Goto(t, "rload") /\ pc[t] = "rcas"
    BY <1>1 DEF ReadCas, lock
  <2>2. TypeOK' /\ PcInv'
    BY <2>1 DEF TypeOK, PcInv, Goto, PCs, ReadPCs, lock
  <2>3. UNCHANGED <<Readers, Writers, QueuedReaders, QueuedWriters>>
    BY <2>1 DEF TypeOK, Goto, Readers, Writers, QueuedReaders, QueuedWriters
  <2> QED BY <2>1, <2>2, <2>3 DEF lock, OwnerInv, Exclusion, CountsAreExact
<1>2. CASE oid = frame[t].oid /\ nrd = frame[t].nrd
  <2>1. /\ oid' = RO /\ nrd' = nrd + 1 /\ UNCHANGED <<spid, qwr>>
        /\ own' = [own EXCEPT ![t] = "read"]
        /\ pc[t] = "rcas"
        /\ \/ Goto(t, "bcast") /\ UNCHANGED frame
           \/ Goto(t, "out") /\ Pop(t)
    BY <1>2 DEF ReadCas, Own, Return
  <2>2. oid \in {UNOWNED, RO} /\ own[t] # "read"
    BY <1>2, <2>1 DEF PcInv, NoWriter
  <2>3. Writers = {}
    BY <2>2, IdsAreNoSpecialValues DEF CountsAreExact, Writers
  <2>4. TypeOK'
    BY <2>1, FrameTypes DEF TypeOK, Goto, PCs
  <2>5. PcInv'
    BY <2>1 DEF TypeOK, PcInv, Goto, Pop
  <2>6. /\ Readers' = Readers \cup {t} /\ t \notin Readers
        /\ Writers' = {} /\ UNCHANGED <<QueuedReaders, QueuedWriters>>
    BY <2>1, <2>2, <2>3 DEF TypeOK, Goto, Readers, Writers, QueuedReaders, QueuedWriters
  <2>7. Cardinality(Readers') = Cardinality(Readers) + 1
    BY <2>6, Counting, CountsBound
  <2>8. CountsAreExact'
    <3>1. nrd' = Cardinality(Readers') + Cardinality(QueuedReaders')
      BY <2>1, <2>6, <2>7, CountsBound
    <3> QED BY <2>1, <2>6, <3>1 DEF CountsAreExact
  <2> QED BY <2>1, <2>4, <2>5, <2>6, <2>8 DEF OwnerInv, Exclusion
<1> QED BY <1>1, <1>2

LEMMA ReadCountStep == ASSUME IInv, NEW t \in Threads, ReadCount(t) PROVE IInv'
<1> USE DEF IInv
<1>1. /\ nrd' = nrd + 1 /\ UNCHANGED <<spid, qwr, oid, frame, own>>
      /\ pc[t] = "rcount" /\ Goto(t, "rwait")
  BY DEF ReadCount
<1>2. TypeOK' /\ PcInv'
  BY <1>1 DEF TypeOK, PcInv, Goto, PCs, ReadPCs
<1>3. /\ QueuedReaders' = QueuedReaders \cup {t} /\ t \notin QueuedReaders
      /\ UNCHANGED <<Readers, Writers, QueuedWriters>>
  BY <1>1 DEF TypeOK, Goto, Readers, Writers, QueuedReaders, QueuedWriters
<1>4. Cardinality(QueuedReaders') = Cardinality(QueuedReaders) + 1
  BY <1>3, Counting, CountsBound
<1>5. nrd' = Cardinality(Readers') + Cardinality(QueuedReaders')
  BY <1>1, <1>3, <1>4, CountsBound
<1> QED BY <1>1, <1>2, <1>3, <1>5 DEF OwnerInv, Exclusion, CountsAreExact

LEMMA ReadUncountStep == ASSUME IInv, NEW t \in Threads, ReadUncount(t) PROVE IInv'
<1> USE DEF IInv
<1>1. /\ nrd' = nrd - 1 /\ UNCHANGED <<spid, qwr, oid, own>>
      /\ pc[t] \in {"rdec", "rgiveup"}
      /\ \/ Goto(t, "rload") /\ Load(t, UNOWNED, 0, 0)
         \/ Goto(t, "out") /\ Pop(t)
  BY DEF ReadUncount, Return, Forget
<1>2. /\ QueuedReaders' = QueuedReaders \ {t} /\ t \in QueuedReaders
      /\ UNCHANGED <<Readers, Writers, QueuedWriters>>
  BY <1>1 DEF TypeOK, Goto, Readers, Writers, QueuedReaders, QueuedWriters
<1>3. Cardinality(QueuedReaders') = Cardinality(QueuedReaders) - 1
  BY <1>2, Counting, CountsBound
<1>4. Cardinality(QueuedReaders') \in Nat
  BY <1>2, Counting, CountsBound
<1>5. nrd' = Cardinality(Readers') + Cardinality(QueuedReaders')
  BY <1>1, <1>2, <1>3, CountsBound
<1>6. nrd' \in Nat
  BY <1>2, <1>4, <1>5, CountsBound
<1>7. frame' \in [Threads -> Frames]
  BY <1>1, FrameTypes
<1>8. TypeOK'
  BY <1>1, <1>6, <1>7 DEF TypeOK, Goto, PCs, ReadPCs
<1>9. PcInv'
  BY <1>1 DEF TypeOK, PcInv, Goto, Load, Pop
<1> QED BY <1>1, <1>2, <1>5, <1>8, <1>9 DEF OwnerInv, Exclusion, CountsAreExact

LEMMA WriteCasStep == ASSUME IInv, NEW t \in Threads, WriteCas(t) PROVE IInv'
<1> USE DEF IInv
<1>1. /\ pc[t] = "wcas" /\ UNCHANGED <<spid, qwr, nrd>>
      /\ \/ Goto(t, "wsetown") /\ UNCHANGED frame /\ oid = UNOWNED
         \/ Goto(t, "out") /\ Pop(t)
         \/ Goto(t, "wload") /\ UNCHANGED frame
  BY DEF WriteCas, Return
<1>2. frame' \in [Threads -> Frames]
  BY <1>1, FrameTypes DEF TypeOK
<1>3. pc' \in [Threads -> PCs]
  BY <1>1 DEF TypeOK, Goto, PCs, WritePCs
<1>4. UNCHANGED <<QueuedReaders, QueuedWriters>>
  BY <1>1 DEF TypeOK, Goto, QueuedReaders, QueuedWriters
<1>5. CASE oid = UNOWNED
  <2>1. oid' = tid[t] /\ own' = [own EXCEPT ![t] = "write"]
    BY <1>5 DEF WriteCas, Own
  <2>2. Writers = {} /\ Readers = {}
    BY <1>5, IdsAreNoSpecialValues, RwAssumption DEF CountsAreExact, Writers, UNOWNED, RO
  <2>3. Writers' = {t} /\ Readers' = {}
    BY <2>1, <2>2 DEF TypeOK, Writers, Readers
  <2>4. TypeOK'
    BY <1>1, <1>2, <1>3, <2>1, IdsAreNoSpecialValues DEF TypeOK
  <2>5. PcInv'
    BY <1>1, <2>1, <2>2 DEF TypeOK, PcInv, Goto, Pop, Readers
  <2>6. nrd' = Cardinality(Readers') + Cardinality(QueuedReaders')
    BY <1>1, <1>4, <2>2, <2>3, CountsBound
  <2> QED BY <1>1, <1>4, <2>1, <2>3, <2>4, <2>5, <2>6 DEF OwnerInv, Exclusion, CountsAreExact
<1>6. CASE oid # UNOWNED
  <2>1. /\ UNCHANGED <<oid, own>>
        /\ \/ Goto(t, "out") /\ Pop(t)
           \/ Goto(t, "wload") /\ UNCHANGED frame
    BY <1>6 DEF WriteCas, Return
  <2>2. TypeOK'
    BY <1>1, <1>2, <1>3, <2>1 DEF TypeOK
  <2>3. PcInv'
    BY <1>1, <2>1 DEF TypeOK, PcInv, Goto, Pop
  <2>4. UNCHANGED <<Readers, Writers>>
    BY <2>1 DEF Readers, Writers
  <2> QED BY <1>1, <1>4, <2>1, <2>2, <2>3, <2>4 DEF OwnerInv, Exclusion, CountsAreExact
<1> QED BY <1>5, <1>6

LEMMA WriteCountStep == ASSUME IInv, NEW t \in Threads, WriteCount(t) PROVE IInv'
<1> USE DEF IInv
<1>1. /\ qwr' = qwr + 1 /\ UNCHANGED <<spid, oid, nrd, own>>
      /\ pc[t] = "wcount" /\ Goto(t, "wwait") /\ Load(t, frame[t].oid, 0, qwr + 1)
  BY DEF WriteCount
<1>2. frame[t].oid \in Ids \cup {UNOWNED, RO} /\ qwr + 1 \in Nat
  BY DEF TypeOK, Frames
<1>3. frame' \in [Threads -> Frames]
  BY <1>1, <1>2, FrameTypes
<1>4. TypeOK' /\ PcInv'
  BY <1>1, <1>2, <1>3 DEF TypeOK, PcInv, Goto, Load, PCs, WritePCs
<1>5. /\ QueuedWriters' = QueuedWriters \cup {t} /\ t \notin QueuedWriters
      /\ UNCHANGED <<Readers, Writers, QueuedReaders>>
  BY <1>1 DEF TypeOK, Goto, Readers, Writers, QueuedReaders, QueuedWriters
<1>6. qwr' = Cardinality(QueuedWriters')
  BY <1>1, <1>5, Counting, CountsBound
<1> QED BY <1>1, <1>4, <1>5, <1>6 DEF OwnerInv, Exclusion, CountsAreExact

LEMMA WriteUncountStep == ASSUME IInv, NEW t \in Threads, WriteUncount(t) PROVE IInv'
<1> USE DEF IInv
<1>1. /\ qwr' = qwr - 1 /\ UNCHANGED <<spid, oid, nrd, own>>
      /\ pc[t] \in {"wdec", "wgiveup"}
      /\ \/ Goto(t, "wload") /\ Load(t, UNOWNED, 0, 0)
         \/ Goto(t, "wcheck") /\ Load(t, UNOWNED, 0, qwr)
  BY DEF WriteUncount, Forget
<1>2. /\ QueuedWriters' = QueuedWriters \ {t} /\ t \in QueuedWriters
      /\ UNCHANGED <<Readers, Writers, QueuedReaders>>
  BY <1>1 DEF TypeOK, Goto, Readers, Writers, QueuedReaders, QueuedWriters
<1>3. qwr' = Cardinality(QueuedWriters') /\ qwr' \in Nat
  <2>1. Cardinality(QueuedWriters') = Cardinality(QueuedWriters) - 1
    BY <1>2, Counting, CountsBound
  <2>2. Cardinality(QueuedWriters') \in Nat
    BY <1>2, Counting, CountsBound
  <2> QED BY <1>1, <2>1, <2>2, CountsBound
<1>4. qwr \in Nat
  BY DEF TypeOK
<1>5. frame' \in [Threads -> Frames]
  BY <1>1, <1>4, FrameTypes
<1>6. TypeOK' /\ PcInv'
  BY <1>1, <1>3, <1>5 DEF TypeOK, PcInv, Goto, Load, PCs, WritePCs
<1> QED BY <1>1, <1>2, <1>3, <1>6 DEF OwnerInv, Exclusion, CountsAreExact

LEMMA UnlockReleaseStep == ASSUME IInv, NEW t \in Threads, UnlockRelease(t) PROVE IInv'
<1> USE DEF IInv
<1>1. /\ oid' = UNOWNED /\ own' = [own EXCEPT ![t] = "none"]
      /\ pc[t] = "urelease" /\ Goto(t, "uqwr")
      /\ UNCHANGED <<spid, qwr, nrd, frame>>
  BY DEF UnlockRelease, Own
<1>2. own[t] = "write" /\ Writers = {t} /\ Readers = {}
  BY <1>1 DEF PcInv, Exclusion, Writers
<1>3. TypeOK' /\ PcInv'
  BY <1>1 DEF TypeOK, PcInv, Goto, PCs, UnlockPCs
<1>4. Writers' = {} /\ Readers' = {} /\ UNCHANGED <<QueuedReaders, QueuedWriters>>
  BY <1>1, <1>2 DEF TypeOK, Goto, Readers, Writers, QueuedReaders, QueuedWriters
<1>5. nrd' = Cardinality(Readers') + Cardinality(QueuedReaders')
  BY <1>1, <1>2, <1>4, CountsBound
<1> QED BY <1>1, <1>3, <1>4, <1>5 DEF OwnerInv, Exclusion, CountsAreExact

LEMMA UnlockCasStep == ASSUME IInv, NEW t \in Threads, UnlockCas(t) PROVE IInv'
<1> USE DEF IInv
<1>1. pc[t] = "ucas" /\ own[t] = "read" /\ t \in Readers /\ oid = RO
  BY DEF UnlockCas, PcInv, Readers, CountsAreExact
<1>2. Writers = {}
  BY <1>1 DEF Exclusion
<1>3. CASE oid = frame[t].oid /\ nrd = frame[t].nrd
  <2>1. /\ oid' = IF nrd = 1 THEN UNOWNED ELSE oid
        /\ nrd' = nrd - 1 /\ UNCHANGED <<spid, qwr>>
        /\ own' = [own EXCEPT ![t] = "none"]
        /\ Pop(t) /\ (Goto(t, "ulast") \/ Goto(t, "out"))
    BY <1>3 DEF UnlockCas, Own
  <2>2. /\ Readers' = Readers \ {t} /\ Writers' = {}
        /\ UNCHANGED <<QueuedReaders, QueuedWriters>>
    BY <1>1, <1>2, <2>1 DEF TypeOK, Goto, Readers, Writers, QueuedReaders, QueuedWriters
  <2>3. Cardinality(Readers') = Cardinality(Readers) - 1 /\ Cardinality(Readers') \in Nat
    BY <1>1, <2>2, Counting, CountsBound
  <2>4. nrd' = Cardinality(Readers') + Cardinality(QueuedReaders') /\ nrd' \in Nat
    BY <2>1, <2>2, <2>3, CountsBound
  <2>5. nrd = 1 => Readers' = {}
    <3>1. nrd = 1 => Cardinality(Readers') = 0
      BY <2>3, CountsBound
    <3> QED BY <3>1, <2>2, Counting, CountsBound
  <2>6. TypeOK'
    BY <2>1, <2>4, FrameTypes DEF TypeOK, Goto, PCs, UnlockPCs
  <2>7. PcInv'
    BY <2>1 DEF TypeOK, PcInv, Goto, Pop
  <2> QED BY <1>1, <2>1, <2>2, <2>4, <2>5, <2>6, <2>7 DEF OwnerInv, Exclusion, CountsAreExact
<1>4. CASE ~ (oid = frame[t].oid /\ nrd = frame[t].nrd)
  <2>1. UNCHANGED <<lock, pc, own>> /\ Load(t, oid, nrd, 0)
    BY <1>4 DEF UnlockCas, lock
  <2>2. frame' \in [Threads -> Frames]
    BY <2>1, FrameTypes DEF TypeOK
  <2>3. TypeOK' /\ PcInv'
    BY <1>1, <2>1, <2>2 DEF TypeOK, PcInv, Load, lock
  <2>4. UNCHANGED <<Readers, Writers, QueuedReaders, QueuedWriters>>
    BY <2>1 DEF Readers, Writers, QueuedReaders, QueuedWriters
  <2> QED BY <2>1, <2>3, <2>4 DEF lock, OwnerInv, Exclusion, CountsAreExact
<1> QED BY <1>3, <1>4

-----------------------------------------------------------------------------

LEMMA InitIInv == Init => IInv
<1> SUFFICES ASSUME Init PROVE IInv
  OBVIOUS
<1>1. TypeOK /\ PcInv
  BY DEF Init, TypeOK, PcInv, PCs, Frames, NoFrame
<1>2. Readers = {} /\ Writers = {} /\ QueuedReaders = {} /\ QueuedWriters = {}
  BY DEF Init, Readers, Writers, QueuedReaders, QueuedWriters
<1> QED BY <1>1, <1>2, FS_EmptySet DEF Init, IInv, OwnerInv, Exclusion, CountsAreExact

LEMMA NextIInv == IInv /\ [Next]_vars => IInv'
<1> SUFFICES ASSUME IInv, [Next]_vars PROVE IInv'
  OBVIOUS
<1>1. ASSUME NEW t \in Threads, Quiet(t) PROVE IInv'
  BY <1>1, QuietStep
<1>2. ASSUME NEW t \in Threads, ReadCas(t) \/ ReadCount(t) \/ ReadUncount(t) PROVE IInv'
  BY <1>2, ReadCasStep, ReadCountStep, ReadUncountStep
<1>3. ASSUME NEW t \in Threads, WriteCas(t) \/ WriteCount(t) \/ WriteUncount(t) PROVE IInv'
  BY <1>3, WriteCasStep, WriteCountStep, WriteUncountStep
<1>4. ASSUME NEW t \in Threads, UnlockRelease(t) \/ UnlockCas(t) PROVE IInv'
  BY <1>4, UnlockReleaseStep, UnlockCasStep
<1>5. CASE UNCHANGED vars
  BY <1>5 DEF vars, lock, IInv, TypeOK, PcInv, OwnerInv, Exclusion, CountsAreExact,
              Readers, Writers, QueuedReaders, QueuedWriters
<1> QED BY <1>1, <1>2, <1>3, <1>4, <1>5
        DEF Next, Step, Unlock, ReadStep, WriteStep, UnlockStep, Quiet

\* Every step of RwLock keeps the fields and the locals in their types: in
\* particular, no atomic_add (-1) takes nrd or qwr below 0.
THEOREM TypeCorrect == Spec => []TypeOK
  BY InitIInv, NextIInv, PTL DEF Spec, IInv

\* rdlock and wrlock: a writer owns the lock alone.
THEOREM ExclusionTheorem == Spec => []Exclusion
  BY InitIInv, NextIInv, PTL DEF Spec, IInv

\* nrd and qwr count the owning and queued readers and the queued writers.
THEOREM CountsTheorem == Spec => []CountsAreExact
  BY InitIInv, NextIInv, PTL DEF Spec, IInv

\* spid is the process of the writer that owns the lock, while it is not 0; and
\* a look at it has read the id of a writer that had the caller's.
LookInv == /\ spid # 0 => \E u \in Writers : spid = pid[u]
           /\ \A t \in Threads : pc[t] = "urelease" => spid = 0
           /\ \A t \in Threads : pc[t] = "pid" => \E u \in frame[t].seen : tid[u] = tid[t]

EInv == LookInv /\ EdeadlkOnlyToTheOwner

\* The steps of rwl_owned_p.
LEMMA LookStep ==
  ASSUME IInv, EInv, NEW t \in Threads, OwnedOid(t) \/ OwnedPid(t) PROVE EInv'
<1> USE DEF IInv, TypeOK, Goto, Saw
<1>0. /\ UNCHANGED <<lock, own, Writers>>
      /\ \A u \in Threads : u # t => pc'[u] = pc[u] /\ frame'[u] = frame[u]
  BY DEF OwnedOid, OwnedPid, Proceed, Return, Pop, Writers
<1>1. CASE pc'[t] \notin {"pid", "edeadlk", "urelease"}
  BY <1>0, <1>1 DEF EInv, LookInv, EdeadlkOnlyToTheOwner, Torn, lock
<1>2. CASE pc'[t] \in {"pid", "edeadlk", "urelease"}
  <2>1. pc'[t] # "urelease"
    BY DEF OwnedOid, OwnedPid, Proceed, Return
  <2>2. CASE OwnedOid(t)
    <3>1. oid = tid[t] /\ frame'[t].seen = Writers
      BY <1>2, <2>2 DEF OwnedOid, Proceed, Return, Frames
    <3>2. pc'[t] = IF Shared THEN "pid" ELSE "edeadlk"
      BY <1>2, <2>2, <3>1 DEF OwnedOid, Proceed, Return
    <3>3. PICK u \in Writers : tid[u] = tid[t]
      BY <3>1, IdsAreNoSpecialValues DEF OwnerInv
    <3>4. ~ Shared => own[t] = "write"
      BY <3>3, RwAssumption DEF Writers
    <3>5. LookInv'
      BY <1>0, <2>1, <3>1, <3>3 DEF EInv, LookInv, lock
    <3> QED BY <1>0, <3>2, <3>4, <3>5 DEF EInv, EdeadlkOnlyToTheOwner, Torn
  <2>3. CASE OwnedPid(t)
    <3>1. /\ pc[t] = "pid" /\ spid = pid[t] /\ pc'[t] = "edeadlk"
          /\ frame'[t].seen = frame[t].seen \cup Writers
      BY <1>2, <2>3 DEF OwnedPid, Proceed, Return, Frames
    <3>2. PICK u \in Writers : pid[u] = pid[t]
      BY <3>1, RwAssumption DEF EInv, LookInv
    <3>3. PICK v \in frame[t].seen : tid[v] = tid[t]
      BY <3>1 DEF EInv, LookInv
    <3>4. u \in frame'[t].seen /\ v \in frame'[t].seen /\ v \in Threads
      BY <3>1 DEF Frames
    <3>5. u = v => own[t] = "write"
      BY <3>2, <3>3, <3>4, RwAssumption DEF Writers
    <3>6. own'[t] = "write" \/ Torn(t)'
      BY <1>0, <3>4, <3>5 DEF Torn
    <3>7. LookInv'
      BY <1>0, <2>1, <3>1 DEF EInv, LookInv, lock
    <3> QED BY <1>0, <3>6, <3>7 DEF EInv, EdeadlkOnlyToTheOwner, Torn
  <2> QED BY <2>2, <2>3
<1> QED BY <1>1, <1>2

\* The steps that change spid or the writers.
LEMMA OwnerStep ==
  ASSUME IInv, EInv, NEW t \in Threads,
         \/ ReadCas(t) \/ WriteCas(t) \/ WriteSetOwn(t)
         \/ UnlockWriter(t) \/ UnlockRelease(t) \/ UnlockCas(t)
  PROVE  EInv'
<1> USE DEF IInv, TypeOK, PcInv, Goto, Own
<1>0. \A u \in Threads : u # t => /\ pc'[u] = pc[u] /\ frame'[u] = frame[u]
                                  /\ own'[u] = own[u]
  BY DEF ReadCas, WriteCas, WriteSetOwn, UnlockWriter, UnlockRelease, UnlockCas, Return, Pop, Load
<1>1. pc'[t] \notin {"pid", "edeadlk"}
  BY DEF ReadCas, WriteCas, WriteSetOwn, UnlockWriter, UnlockRelease, UnlockCas, Return
<1>2. EdeadlkOnlyToTheOwner'
  BY <1>0, <1>1 DEF EInv, EdeadlkOnlyToTheOwner, Torn
<1>3. \A u \in Threads : pc'[u] = "pid" => \E v \in frame'[u].seen : tid[v] = tid[u]
  BY <1>0, <1>1 DEF EInv, LookInv
<1>4. ASSUME ReadCas(t) \/ WriteCas(t) \/ UnlockCas(t) PROVE LookInv'
  <2>1. UNCHANGED spid /\ pc'[t] # "urelease"
    BY <1>4 DEF ReadCas, WriteCas, UnlockCas, Return
  <2>2. Writers \subseteq Writers'
    <3>1. CASE ReadCas(t)
      BY <3>1, IdsAreNoSpecialValues DEF ReadCas, Writers, CountsAreExact, NoWriter
    <3>2. CASE WriteCas(t)
      BY <3>2 DEF WriteCas, Writers
    <3>3. CASE UnlockCas(t)
      BY <3>3 DEF UnlockCas, Writers
    <3> QED BY <1>4, <3>1, <3>2, <3>3
  <2> QED BY <1>0, <1>3, <2>1, <2>2 DEF EInv, LookInv
<1>5. CASE WriteSetOwn(t)
  <2>1. spid' = pid[t] /\ UNCHANGED own /\ pc[t] = "wsetown" /\ pc'[t] = "out"
    BY <1>5 DEF WriteSetOwn, Return
  <2>2. \A u \in Threads : pc'[u] # "urelease"
    BY <1>0, <2>1 DEF Exclusion, Writers
  <2>3. t \in Writers'
    BY <2>1 DEF Writers
  <2> QED BY <1>2, <1>3, <2>1, <2>2, <2>3 DEF EInv, LookInv
<1>6. CASE UnlockWriter(t)
  BY <1>2, <1>3, <1>6 DEF UnlockWriter, EInv, LookInv
<1>7. CASE UnlockRelease(t)
  BY <1>0, <1>2, <1>3, <1>7 DEF UnlockRelease, EInv, LookInv
<1> QED BY <1>2, <1>4, <1>5, <1>6, <1>7 DEF EInv

\* The other steps change neither, look at nothing and return no EDEADLK.
LEMMA BlindStep ==
  ASSUME IInv, EInv, NEW t \in Threads,
         \/ Enter(t) \/ Deadlk(t) \/ ReadLoad(t) \/ ReadCount(t) \/ ReadWait(t) \/ ReadUncount(t)
         \/ WriteLoad(t) \/ WriteCount(t) \/ WriteWait(t) \/ WriteUncount(t) \/ WriteCheck(t)
         \/ UnlockQwr(t) \/ UnlockNrd(t) \/ UnlockReader(t) \/ UnlockLast(t)
         \/ WakeReaders(t) \/ WakeWriter(t) \/ Timeout(t) \/ Interrupted(t)
  PROVE  EInv'
<1> USE DEF IInv, TypeOK, Goto
<1>1. UNCHANGED <<spid, own, Writers>>
  BY DEF Enter, Deadlk, ReadLoad, ReadCount, ReadWait, ReadUncount, WriteLoad, WriteCount,
         WriteWait, WriteUncount, WriteCheck, UnlockQwr, UnlockNrd, UnlockReader, UnlockLast,
         WakeReaders, WakeWriter, Timeout, Interrupted, lock, Writers
<1>2. \A u \in Threads : u # t => frame'[u] = frame[u]
  BY DEF Enter, Deadlk, ReadLoad, ReadCount, ReadWait, ReadUncount, WriteLoad, WriteCount,
         WriteWait, WriteUncount, WriteCheck, UnlockQwr, UnlockNrd, UnlockReader, UnlockLast,
         WakeReaders, WakeWriter, Timeout, Interrupted, Return, Pop, Load, Forget
<1>3. \A u \in Threads : pc'[u] \in {"pid", "edeadlk", "urelease"} => u # t /\ pc'[u] = pc[u]
  <2>1. CASE Enter(t) \/ Deadlk(t) \/ Timeout(t) \/ Interrupted(t)
    BY <2>1 DEF Enter, Deadlk, Return, Timeout, Interrupted
  <2>2. CASE ReadLoad(t) \/ ReadCount(t) \/ ReadWait(t) \/ ReadUncount(t)
    BY <2>2 DEF ReadLoad, ReadCount, ReadWait, ReadUncount, Return
  <2>3. CASE \/ WriteLoad(t) \/ WriteCount(t) \/ WriteWait(t) \/ WriteUncount(t) \/ WriteCheck(t)
    BY <2>3 DEF WriteLoad, WriteCount, WriteWait, WriteUncount, WriteCheck, Return
  <2>4. CASE UnlockQwr(t) \/ UnlockNrd(t) \/ UnlockReader(t) \/ UnlockLast(t)
    BY <2>4 DEF UnlockQwr, UnlockNrd, UnlockReader, UnlockLast
  <2>5. CASE WakeReaders(t)
    BY <2>5 DEF WakeReaders
  <2>6. CASE WakeWriter(t)
    BY <2>6 DEF WakeWriter, SleepingWriters
  <2> QED BY <2>1, <2>2, <2>3, <2>4, <2>5, <2>6
<1> QED BY <1>1, <1>2, <1>3 DEF EInv, LookInv, EdeadlkOnlyToTheOwner, Torn

\* rwl_owned_p is right, private lock or shared, whenever its two loads met one
\* owner: EDEADLK is then returned to the thread that owns the lock for writing.
\* The pair of thread id and process id is a thread's alone, and spid is never
\* left over from an earlier owner.
THEOREM EdeadlkTheorem == Spec => []EdeadlkOnlyToTheOwner
<1>1. Init => EInv
  BY DEF Init, EInv, LookInv, EdeadlkOnlyToTheOwner
<1>2. IInv /\ EInv /\ [Next]_vars => EInv'
  <2> SUFFICES ASSUME IInv, EInv, [Next]_vars PROVE EInv'
    OBVIOUS
  <2>1. CASE UNCHANGED vars
    BY <2>1 DEF vars, lock, EInv, LookInv, EdeadlkOnlyToTheOwner, Torn, Writers
  <2> QED BY <2>1, LookStep, OwnerStep, BlindStep
          DEF Next, Step, Unlock, ReadStep, WriteStep, UnlockStep
<1>3. EInv => EdeadlkOnlyToTheOwner
  BY DEF EInv
<1> QED BY <1>1, <1>2, <1>3, InitIInv, NextIInv, PTL DEF Spec

-----------------------------------------------------------------------------
(***************************************************************************)
(* No sleeper is stranded.  Who sleeps on a free lock is owed a wakeup by  *)
(* a thread that can be named from its program counter: the one that has   *)
(* freed the lock, the one that was woken to take it, or, for a reader,    *)
(* a queued writer, for pthread_rwlock_unlock wakes no reader while qwr is *)
(* not 0, and a timedwrlock that gives up passes the wakeup on.            *)
(***************************************************************************)

\* The locations of a writer between its load of oid and its next one.
QueuePCs == {"wcount", "wwait", "wasleep", "wdec", "wgiveup", "wcheck"}

\* What a thread in a loop has loaded: it sleeps only on a lock that it saw taken,
\* a reader on one that it saw taken by a writer.
FrameInv == \A t \in Threads :
              /\ pc[t] \in {"rcount", "rwait", "rasleep"} => ~ NoWriter(frame[t].oid)
              /\ pc[t] \in {"wcount", "wwait", "wasleep"} => frame[t].oid # UNOWNED
              /\ pc[t] \in QueuePCs => frame[t].call # "trywr"

\* t will take an unowned lock for writing.
Takes(t) == \/ pc[t] \in {"wdec", "wcas"}
            \/ pc[t] = "wload" /\ frame[t].call # "trywr"

\* t will wake a writer that sleeps, or take the lock.
CallsWriter(t) == Takes(t) \/ pc[t] \in {"uqwr", "ulast", "wake"}

\* t will wake the readers, or take the lock, or see that the last writer gives up.
CallsReaders(t) == \/ Takes(t) \/ pc[t] \in {"uqwr", "unrd", "bcast"}
                   \/ t \in QueuedWriters
                   \/ pc[t] = "wcheck" /\ frame[t].qwr = 1

SleepingReaders == {t \in Threads : pc[t] = "rasleep"}

\* Readers asleep on a lock that readers own are about to be woken; and nobody
\* sleeps on an unowned lock without a thread that does something about it.
ReadersCalled == oid = RO /\ SleepingReaders # {} => \E t \in Threads : pc[t] = "bcast"
WritersSeen   == oid = UNOWNED /\ SleepingWriters # {} => \E t \in Threads : CallsWriter(t)
ReadersSeen   == oid = UNOWNED /\ SleepingReaders # {} => \E t \in Threads : CallsReaders(t)

QInv == FrameInv /\ ReadersCalled /\ WritersSeen /\ ReadersSeen

\* The steps of t, and what one of them may do to the program counter of u # t.
Act(t) == Enter(t) \/ Step(t) \/ Unlock(t) \/ Timeout(t) \/ Interrupted(t)

Roused(u) == \/ pc'[u] = pc[u]
             \/ pc[u] = "rasleep" /\ pc'[u] = "rdec"
             \/ pc[u] = "wasleep" /\ pc'[u] = "wdec"

\* A step of t does no more to another thread than wake it from its sleep.
LEMMA OthersStep ==
  ASSUME TypeOK, NEW t \in Threads, Act(t)
  PROVE  \A u \in Threads \ {t} : Roused(u) /\ frame'[u] = frame[u]
<1> USE DEF TypeOK, Goto, Load, Forget, Pop, Return, Roused
<1>1. CASE Enter(t)
  BY <1>1 DEF Enter
<1>2. CASE OwnedOid(t) \/ OwnedPid(t) \/ Deadlk(t)
  BY <1>2 DEF OwnedOid, OwnedPid, Deadlk, Proceed, Saw
<1>3. CASE ReadLoad(t) \/ ReadCas(t)
  BY <1>3 DEF ReadLoad, ReadCas
<1>4. CASE ReadCount(t) \/ ReadWait(t) \/ ReadUncount(t)
  BY <1>4 DEF ReadCount, ReadWait, ReadUncount
<1>5. CASE WriteLoad(t) \/ WriteCas(t) \/ WriteSetOwn(t)
  BY <1>5 DEF WriteLoad, WriteCas, WriteSetOwn
<1>6. CASE WriteCount(t) \/ WriteWait(t)
  BY <1>6 DEF WriteCount, WriteWait
<1>7. CASE WriteUncount(t) \/ WriteCheck(t)
  BY <1>7 DEF WriteUncount, WriteCheck
<1>8. CASE Timeout(t) \/ Interrupted(t)
  BY <1>8 DEF Timeout, Interrupted
<1>9. CASE WakeReaders(t)
  BY <1>9 DEF WakeReaders
<1>10. CASE WakeWriter(t)
  BY <1>10 DEF WakeWriter, SleepingWriters
<1>11. CASE UnlockWriter(t) \/ UnlockRelease(t) \/ UnlockQwr(t)
  BY <1>11 DEF UnlockWriter, UnlockRelease, UnlockQwr
<1>12. CASE UnlockNrd(t) \/ UnlockLast(t)
  BY <1>12 DEF UnlockNrd, UnlockLast
<1>13. CASE UnlockReader(t) \/ UnlockCas(t)
  BY <1>13 DEF UnlockReader, UnlockCas
<1> QED BY <1>1, <1>2, <1>3, <1>4, <1>5, <1>6, <1>7, <1>8, <1>9, <1>10, <1>11, <1>12, <1>13
       DEF Act, Step, Unlock, ReadStep, WriteStep, UnlockStep

\* A thread sleeps only on a lock that it has seen taken.
LEMMA FrameStep == ASSUME TypeOK, FrameInv, NEW t \in Threads, Act(t) PROVE FrameInv'
<1> SUFFICES /\ pc'[t] \in {"rcount", "rwait", "rasleep"} => ~ NoWriter(frame'[t].oid)
             /\ pc'[t] \in {"wcount", "wwait", "wasleep"} => frame'[t].oid # UNOWNED
             /\ pc'[t] \in QueuePCs => frame'[t].call # "trywr"
  BY OthersStep DEF FrameInv, Roused, QueuePCs
<1>0. frame \in [Threads -> Frames] /\ frame[t] \in Frames
  BY DEF TypeOK
<1> USE <1>0 DEF TypeOK, FrameInv, QueuePCs, Goto, Load, Forget, Pop, Return, Frames
<1>1. CASE Enter(t)
  BY <1>1 DEF Enter
<1>2. CASE OwnedOid(t) \/ OwnedPid(t) \/ Deadlk(t)
  BY <1>2 DEF OwnedOid, OwnedPid, Deadlk, Proceed, Saw
<1>3. CASE ReadLoad(t) \/ ReadCas(t)
  BY <1>3 DEF ReadLoad, ReadCas
<1>4. CASE ReadCount(t) \/ ReadWait(t) \/ ReadUncount(t)
  BY <1>4 DEF ReadCount, ReadWait, ReadUncount
<1>5. CASE WriteLoad(t) \/ WriteCas(t) \/ WriteSetOwn(t)
  BY <1>5 DEF WriteLoad, WriteCas, WriteSetOwn
<1>6. CASE WriteCount(t) \/ WriteWait(t)
  BY <1>6 DEF WriteCount, WriteWait
<1>7. CASE WriteUncount(t) \/ WriteCheck(t)
  BY <1>7 DEF WriteUncount, WriteCheck
<1>8. CASE Timeout(t) \/ Interrupted(t)
  BY <1>8 DEF Timeout, Interrupted
<1>9. CASE WakeReaders(t)
  BY <1>9 DEF WakeReaders
<1>10. CASE WakeWriter(t)
  BY <1>10 DEF WakeWriter, SleepingWriters
<1>11. CASE UnlockWriter(t) \/ UnlockRelease(t) \/ UnlockQwr(t)
  BY <1>11 DEF UnlockWriter, UnlockRelease, UnlockQwr
<1>12. CASE UnlockNrd(t) \/ UnlockLast(t)
  BY <1>12 DEF UnlockNrd, UnlockLast
<1>13. CASE UnlockReader(t) \/ UnlockCas(t)
  BY <1>13 DEF UnlockReader, UnlockCas
<1> QED BY <1>1, <1>2, <1>3, <1>4, <1>5, <1>6, <1>7, <1>8, <1>9, <1>10, <1>11, <1>12, <1>13
       DEF Act, Step, Unlock, ReadStep, WriteStep, UnlockStep

\* The counts say when a queue is empty.
LEMMA EmptyQueues ==
  ASSUME IInv
  PROVE  /\ nrd = 0 => \A u \in Threads : pc[u] # "rasleep" /\ own[u] # "read"
         /\ qwr = 0 => QueuedWriters = {}
         /\ qwr > 0 => QueuedWriters # {}
         /\ \A t \in QueuedWriters : qwr # 1 => QueuedWriters \ {t} # {}
<1>1. nrd = 0 => Readers = {} /\ QueuedReaders = {}
  <2>1. nrd = 0 => Cardinality(Readers) = 0 /\ Cardinality(QueuedReaders) = 0
    BY CountsBound
  <2> QED BY <2>1, Counting, CountsBound
<1>2. qwr = 0 <=> QueuedWriters = {}
  BY Counting, CountsBound
<1>3. ASSUME NEW t \in QueuedWriters, qwr # 1 PROVE QueuedWriters \ {t} # {}
  <2>1. Cardinality(QueuedWriters \ {t}) # 0 /\ QueuedWriters \ {t} \in SUBSET Threads
    BY <1>3, Counting, CountsBound
  <2> QED BY <2>1, Counting
<1>4. qwr \in Nat
  BY CountsBound
<1> QED BY <1>1, <1>2, <1>3, <1>4 DEF Readers, QueuedReaders

\* oid becomes RWLOCK_RO by a reader's exchange only, which wakes the sleeping
\* readers if nrd counted any; readers queue only under a writer.
LEMMA ReadersCalledStep ==
  ASSUME IInv, FrameInv, ReadersCalled, NEW t \in Threads, Act(t) PROVE ReadersCalled'
<1> SUFFICES ASSUME oid' = RO, NEW r \in Threads, pc'[r] = "rasleep"
             PROVE  \E u \in Threads : pc'[u] = "bcast"
  BY DEF ReadersCalled, SleepingReaders
<1>0. TypeOK
  BY DEF IInv
<1>p. PcInv
  BY DEF IInv
<1>a. \/ pc'[t] = "bcast"
      \/ oid = RO /\ pc'[t] # "rasleep" /\ pc[t] # "bcast"
      \/ \A u \in Threads : pc'[u] # "rasleep"
  <2> USE <1>0 DEF TypeOK, FrameInv, QueuePCs, Goto, Load, Forget, Pop, Return, lock, NoWriter
  <2>0. frame \in [Threads -> Frames] /\ frame[t] \in Frames /\ nrd \in Nat /\ RO # UNOWNED
    BY RwAssumption DEF RO, UNOWNED
  <2>1. CASE Enter(t)
    BY <2>1 DEF Enter
  <2>2. CASE OwnedOid(t) \/ OwnedPid(t) \/ Deadlk(t)
    BY <2>2 DEF OwnedOid, OwnedPid, Deadlk, Proceed
  <2>3. CASE ReadLoad(t) \/ ReadCas(t)
    <3>1. CASE ReadLoad(t)
      BY <3>1 DEF ReadLoad
    <3>2. CASE ReadCas(t)
      BY <2>0, <3>2, EmptyQueues, <1>p DEF ReadCas, PcInv
    <3> QED BY <2>3, <3>1, <3>2
  <2>4. CASE ReadCount(t) \/ ReadWait(t) \/ ReadUncount(t)
    BY <2>4 DEF ReadCount, ReadWait, ReadUncount
  <2>5. CASE WriteLoad(t)
    BY <2>5, <2>0, IdsAreNoSpecialValues DEF WriteLoad
  <2>6. CASE WriteCas(t) \/ WriteSetOwn(t)
    BY <2>6, <2>0, IdsAreNoSpecialValues DEF WriteCas, WriteSetOwn
  <2>7. CASE WriteCount(t) \/ WriteWait(t)
    BY <2>7 DEF WriteCount, WriteWait
  <2>8. CASE WriteUncount(t) \/ WriteCheck(t)
    BY <2>8 DEF WriteUncount, WriteCheck
  <2>9. CASE Timeout(t) \/ Interrupted(t)
    BY <2>9 DEF Timeout, Interrupted
  <2>10. CASE WakeReaders(t)
    BY <2>10 DEF WakeReaders
  <2>11. CASE WakeWriter(t)
    BY <2>11 DEF WakeWriter, SleepingWriters
  <2>12. CASE UnlockWriter(t) \/ UnlockRelease(t) \/ UnlockQwr(t)
    BY <2>12, <2>0 DEF UnlockWriter, UnlockRelease, UnlockQwr
  <2>13. CASE UnlockNrd(t) \/ UnlockLast(t)
    BY <2>13 DEF UnlockNrd, UnlockLast
  <2>14. CASE UnlockReader(t) \/ UnlockCas(t)
    BY <2>14, <2>0 DEF UnlockReader, UnlockCas
  <2> QED BY <2>1, <2>2, <2>3, <2>4, <2>5, <2>6, <2>7, <2>8, <2>9, <2>10, <2>11,
         <2>12, <2>13, <2>14
          DEF Act, Step, Unlock, ReadStep, WriteStep, UnlockStep
<1>b. r # t => pc[r] = "rasleep"
  BY <1>0, OthersStep DEF Roused
<1>c. \A u \in Threads \ {t} : pc[u] = "bcast" => pc'[u] = "bcast"
  BY <1>0, OthersStep DEF Roused
<1> QED BY <1>a, <1>b, <1>c DEF ReadersCalled, SleepingReaders

\* A writer stays asleep on a free lock only while another thread calls one:
\* whoever stops doing so has taken the lock, or woken a writer, or found qwr = 0.
LEMMA WritersSeenStep ==
  ASSUME IInv, FrameInv, WritersSeen, NEW t \in Threads, Act(t) PROVE WritersSeen'
<1> SUFFICES ASSUME oid' = UNOWNED, NEW w \in Threads, pc'[w] = "wasleep"
             PROVE  \E u \in Threads : CallsWriter(u)'
  BY DEF WritersSeen, SleepingWriters
<1>0. TypeOK
  BY DEF IInv
<1>a. \/ CallsWriter(t)'
      \/ oid = UNOWNED /\ pc'[t] # "wasleep" /\ ~ CallsWriter(t)
      \/ \A u \in Threads : pc'[u] # "wasleep"
      \/ \E u \in Threads \ {t} : pc'[u] = "wdec"
  <2> USE <1>0 DEF TypeOK, FrameInv, QueuePCs, Goto, Load, Forget, Pop, Return, lock,
                   CallsWriter, Takes
  <2>0. /\ frame \in [Threads -> Frames] /\ frame[t] \in Frames /\ nrd \in Nat /\ RO # UNOWNED
        /\ tid[t] # UNOWNED
    BY RwAssumption, IdsAreNoSpecialValues DEF RO, UNOWNED
  <2>z. qwr \in Nat /\ (qwr = 0 => \A u \in Threads : pc[u] # "wasleep")
    BY EmptyQueues DEF QueuedWriters
  <2>1. CASE Enter(t)
    BY <2>0, <2>1 DEF Enter
  <2>2. CASE OwnedOid(t) \/ OwnedPid(t) \/ Deadlk(t)
    BY <2>0, <2>2 DEF OwnedOid, OwnedPid, Deadlk, Proceed
  <2>3. CASE ReadLoad(t) \/ ReadCas(t)
    BY <2>0, <2>3 DEF ReadLoad, ReadCas
  <2>4. CASE ReadCount(t) \/ ReadWait(t) \/ ReadUncount(t)
    BY <2>0, <2>4 DEF ReadCount, ReadWait, ReadUncount
  <2>5. CASE WriteLoad(t)
    BY <2>5, <2>0, IdsAreNoSpecialValues DEF WriteLoad, Frames, AllCalls
  <2>6. CASE WriteCas(t) \/ WriteSetOwn(t)
    BY <2>0, <2>6 DEF WriteCas, WriteSetOwn
  <2>7. CASE WriteCount(t) \/ WriteWait(t)
    BY <2>0, <2>7 DEF WriteCount, WriteWait
  <2>8. CASE WriteUncount(t) \/ WriteCheck(t)
    BY <2>0, <2>8 DEF WriteUncount, WriteCheck
  <2>9. CASE Timeout(t) \/ Interrupted(t)
    BY <2>0, <2>9 DEF Timeout, Interrupted
  <2>10. CASE WakeReaders(t)
    BY <2>0, <2>10 DEF WakeReaders
  <2>11. CASE WakeWriter(t)
    BY <2>0, <2>11 DEF WakeWriter, SleepingWriters
  <2>12. CASE UnlockWriter(t) \/ UnlockRelease(t) \/ UnlockQwr(t)
    BY <2>12, <2>0, <2>z DEF UnlockWriter, UnlockRelease, UnlockQwr
  <2>13. CASE UnlockNrd(t) \/ UnlockLast(t)
    BY <2>13, <2>z DEF UnlockNrd, UnlockLast
  <2>14. CASE UnlockReader(t) \/ UnlockCas(t)
    BY <2>0, <2>14 DEF UnlockReader, UnlockCas
  <2> QED BY <2>1, <2>2, <2>3, <2>4, <2>5, <2>6, <2>7, <2>8, <2>9, <2>10, <2>11,
         <2>12, <2>13, <2>14
          DEF Act, Step, Unlock, ReadStep, WriteStep, UnlockStep
<1>b. w # t => pc[w] = "wasleep"
  BY <1>0, OthersStep DEF Roused
<1>c. \A u \in Threads \ {t} : CallsWriter(u) => CallsWriter(u)'
  BY <1>0, OthersStep DEF Roused, CallsWriter, Takes
<1>d. \A u \in Threads : pc'[u] = "wdec" => CallsWriter(u)'
  BY DEF CallsWriter, Takes
<1> QED BY <1>a, <1>b, <1>c, <1>d DEF WritersSeen, SleepingWriters

\* The same after a step.
LEMMA EmptiedQueue ==
  ASSUME IInv' PROVE nrd' = 0 => \A u \in Threads : pc'[u] # "rasleep"
<1>1. /\ Cardinality(Readers)' \in Nat /\ Cardinality(QueuedReaders)' \in Nat
      /\ nrd' = Cardinality(Readers)' + Cardinality(QueuedReaders)'
      /\ QueuedReaders' \in SUBSET Threads
  BY Counting DEF IInv, CountsAreExact, Readers, QueuedReaders
<1>2. nrd' = 0 => QueuedReaders' = {}
  BY <1>1, Counting
<1> QED BY <1>2 DEF QueuedReaders

\* The same for readers; the unlock that wakes a writer leaves them to the
\* writers still queued, the last of which wakes them when it gives up.
LEMMA ReadersSeenStep ==
  ASSUME IInv, IInv', FrameInv, ReadersSeen, NEW t \in Threads, Act(t) PROVE ReadersSeen'
<1> SUFFICES ASSUME oid' = UNOWNED, NEW r \in Threads, pc'[r] = "rasleep"
             PROVE  \E u \in Threads : CallsReaders(u)'
  BY DEF ReadersSeen, SleepingReaders
<1>0. TypeOK
  BY DEF IInv
<1>c. \A u \in Threads \ {t} : CallsReaders(u) => CallsReaders(u)'
  BY <1>0, OthersStep DEF Roused, CallsReaders, Takes, QueuedWriters
<1>d. \A u \in QueuedWriters \ {t} : CallsReaders(u)'
  BY <1>c DEF CallsReaders, QueuedWriters
<1>a. \/ CallsReaders(t)'
      \/ oid = UNOWNED /\ pc'[t] # "rasleep" /\ ~ CallsReaders(t)
      \/ \A u \in Threads : pc'[u] # "rasleep"
      \/ QueuedWriters \ {t} # {}
  <2> USE <1>0 DEF TypeOK, FrameInv, QueuePCs, Goto, Load, Forget, Pop, Return, lock,
                   CallsReaders, Takes, QueuedWriters
  <2>0. /\ frame \in [Threads -> Frames] /\ frame[t] \in Frames /\ nrd \in Nat /\ RO # UNOWNED
        /\ tid[t] # UNOWNED
    BY RwAssumption, IdsAreNoSpecialValues DEF RO, UNOWNED
  <2>z. nrd \in Nat /\ (nrd = 0 => \A u \in Threads : pc[u] # "rasleep")
    BY EmptyQueues
  <2>y. nrd' = 0 => \A u \in Threads : pc'[u] # "rasleep"
    BY EmptiedQueue
  <2>1. CASE Enter(t)
    BY <2>0, <2>1 DEF Enter
  <2>2. CASE OwnedOid(t) \/ OwnedPid(t) \/ Deadlk(t)
    BY <2>0, <2>2 DEF OwnedOid, OwnedPid, Deadlk, Proceed
  <2>3. CASE ReadLoad(t) \/ ReadCas(t)
    BY <2>0, <2>3 DEF ReadLoad, ReadCas
  <2>4. CASE ReadCount(t) \/ ReadWait(t) \/ ReadUncount(t)
    BY <2>4, <2>0 DEF ReadCount, ReadWait, ReadUncount, NoWriter
  <2>5. CASE WriteLoad(t)
    BY <2>5, <2>0, IdsAreNoSpecialValues DEF WriteLoad, Frames, AllCalls
  <2>6. CASE WriteCas(t) \/ WriteSetOwn(t)
    BY <2>0, <2>6 DEF WriteCas, WriteSetOwn
  <2>7. CASE WriteCount(t) \/ WriteWait(t)
    BY <2>0, <2>7 DEF WriteCount, WriteWait
  <2>8. CASE WriteUncount(t) \/ WriteCheck(t)
    <3>1. CASE WriteCheck(t)
      BY <2>0, <2>z, <3>1 DEF WriteCheck
    <3>2. CASE pc[t] = "wdec" /\ WriteUncount(t)
      BY <2>0, <3>2 DEF WriteUncount
    <3>3. CASE pc[t] = "wgiveup" /\ WriteUncount(t)
      <4>1. pc'[t] = "wcheck" /\ frame'[t].qwr = qwr /\ t \in QueuedWriters
        BY <2>0, <3>3 DEF WriteUncount
      <4>2. qwr # 1 => QueuedWriters \ {t} # {}
        BY <4>1, EmptyQueues
      <4> QED BY <4>1, <4>2
    <3> QED BY <2>8, <3>1, <3>2, <3>3 DEF WriteUncount
  <2>9. CASE Timeout(t) \/ Interrupted(t)
    BY <2>0, <2>9 DEF Timeout, Interrupted
  <2>10. CASE WakeReaders(t)
    BY <2>0, <2>10 DEF WakeReaders
  <2>11. CASE WakeWriter(t)
    BY <2>0, <2>11 DEF WakeWriter, SleepingWriters
  <2>12. CASE UnlockWriter(t) \/ UnlockRelease(t) \/ UnlockQwr(t)
    <3>1. CASE UnlockWriter(t) \/ UnlockRelease(t)
      BY <2>0, <3>1 DEF UnlockWriter, UnlockRelease
    <3>2. CASE UnlockQwr(t)
      <4>1. pc[t] = "uqwr" /\ pc'[t] \in {"wake", "unrd"} /\ (pc'[t] = "wake" => qwr > 0)
        BY <3>2 DEF UnlockQwr
      <4>2. qwr > 0 => QueuedWriters \ {t} # {}
        BY <4>1, EmptyQueues
      <4> QED BY <4>1, <4>2
    <3> QED BY <2>12, <3>1, <3>2
  <2>13. CASE UnlockNrd(t) \/ UnlockLast(t)
    BY <2>13, <2>0, <2>z DEF UnlockNrd, UnlockLast
  <2>14. CASE UnlockReader(t) \/ UnlockCas(t)
    BY <2>14, <2>0, <2>y DEF UnlockReader, UnlockCas
  <2> QED BY <2>1, <2>2, <2>3, <2>4, <2>5, <2>6, <2>7, <2>8, <2>9, <2>10, <2>11,
         <2>12, <2>13, <2>14
          DEF Act, Step, Unlock, ReadStep, WriteStep, UnlockStep
<1>b. r # t => pc[r] = "rasleep"
  BY <1>0, OthersStep DEF Roused
<1> QED BY <1>a, <1>b, <1>c, <1>d DEF ReadersSeen, SleepingReaders, QueuedWriters

LEMMA InitQInv == Init => QInv
  BY DEF Init, QInv, FrameInv, QueuePCs, ReadersCalled, WritersSeen, ReadersSeen,
         SleepingReaders, SleepingWriters

LEMMA NextQInv == IInv /\ QInv /\ [Next]_vars => QInv'
<1> SUFFICES ASSUME IInv, QInv, [Next]_vars PROVE QInv'
  OBVIOUS
<1>1. ASSUME NEW t \in Threads, Act(t) PROVE QInv'
  <2>1. TypeOK
    BY DEF IInv
  <2>2. IInv'
    BY NextIInv
  <2> QED BY <1>1, <2>1, <2>2, FrameStep, ReadersCalledStep, WritersSeenStep, ReadersSeenStep DEF QInv
<1>2. CASE UNCHANGED vars
  BY <1>2 DEF vars, lock, QInv, FrameInv, ReadersCalled, WritersSeen, ReadersSeen, SleepingReaders,
              SleepingWriters, CallsWriter, CallsReaders, Takes, QueuedWriters
<1> QED BY <1>1, <1>2 DEF Next, Act

\* rdlock and wrlock: no thread is left asleep when nobody owns the lock and
\* nobody else is on its way to take, leave or signal it, but for the sleepers
\* on a lock that a timedrdlock abandoned.
THEOREM StrandedTheorem == Spec => []NobodyElseStranded
<1>1. IInv /\ QInv => NobodyElseStranded
  <2> SUFFICES ASSUME IInv, QInv, NEW s \in Threads, pc[s] \in {"rasleep", "wasleep"},
                      \A u \in Threads : own[u] = "none" /\ pc[u] \in {"out", "rasleep", "wasleep"}
               PROVE  Abandoned
    BY DEF NobodyElseStranded, NobodyStranded, Sleepers, IInv, TypeOK
  <2>1. oid \in {UNOWNED, RO}
    BY DEF IInv, OwnerInv, Writers
  <2>2. CASE oid = UNOWNED
    <3>1. SleepingWriters = {}
      BY <2>2 DEF QInv, WritersSeen, CallsWriter, Takes
    <3>2. SleepingReaders = {}
      BY <2>2, <3>1 DEF QInv, ReadersSeen, CallsReaders, Takes, QueuedWriters, SleepingWriters
    <3> QED BY <3>1, <3>2 DEF SleepingReaders, SleepingWriters
  <2>3. CASE oid = RO
    <3>1. SleepingReaders = {}
      BY <2>3 DEF QInv, ReadersCalled
    <3>2. Readers = {} /\ QueuedReaders = {}
      BY <3>1 DEF Readers, QueuedReaders, SleepingReaders
    <3>3. nrd = 0
      BY <3>2, FS_EmptySet DEF IInv, CountsAreExact
    <3> QED BY <2>3, <3>3 DEF Abandoned
  <2> QED BY <2>1, <2>2, <2>3
<1> QED BY <1>1, InitIInv, NextIInv, InitQInv, NextQInv, PTL DEF Spec

=============================================================================
