------------------------------ MODULE MutexProofs ------------------------------
(***************************************************************************)
(* For every set of processes and of threads in them, and every kind of    *)
(* mutex: the owner fields and the word describe the one owner and tell    *)
(* each thread that asks whether it is the owner; and a robust mutex says  *)
(* that a dead owner left it, until it is repaired.                        *)
(*                                                                         *)
(* Inv holds as long as no thread took a torn look at the owner for its    *)
(* own (torn).  What makes it inductive: from the step that takes the word *)
(* to the one that frees it a thread is its only keeper (WordInv), alive   *)
(* or named by a word that the next one takes; so the plain fields have    *)
(* one writer, and an id in __owner_id is that of a keeper unless a dead   *)
(* owner left it (OwnerIdInv); and a look at the owner that is not stale   *)
(* still sees the id it saw (LookInv), so that the process it then sees is *)
(* of the same owner, and an id and a process make a thread.               *)
(***************************************************************************)
EXTENDS Mutex, TLAPS

\* The steps of a robust mutex, and of the others.
RobustPCs == {"out", "owner", "pid", "first", "look", "cas", "wait", "asleep", "try", "trycas",
              "got", "gotdead", "flag", "setflag", "mark", "release", "repair", "dead"}
PlainPCs == {"out", "owner", "pid", "take", "setid", "setpid", "clear", "clearid", "give"}

TypeInv == /\ alive \subseteq Pids /\ word \in Words /\ val \in [Threads -> Words]
           /\ pc \in [Threads -> RobustPCs \cup PlainPCs]
           /\ op \in [Threads -> {"lock", "timed", "try", "unlock"}]
           /\ kind \in [type : Types, shared : BOOLEAN, robust : BOOLEAN]
           /\ shpid \in Pids \cup {NoPid} /\ cnt \in Nat /\ hold \in [Threads -> Nat]
           /\ stale \subseteq Threads /\ owner_id \in Nat

\* Between the two ends of a lock or unlock, the thread has the word and owns nothing.
KeepPCs == {"setid", "setpid", "clear", "clearid", "give", "got", "gotdead", "flag", "setflag",
            "mark", "release"}

Keeps(t) == hold[t] > 0 \/ pc[t] \in KeepPCs

\* Which steps a mutex of each kind has, and where the owner may be.
Shape ==
  /\ kind.robust => kind.shared
  /\ ~ kind.robust => alive = Pids
  /\ ~ kind.robust /\ Is("normal") => owner_id = 0 /\ shpid = NoPid
  /\ \A t \in Threads :
       /\ pc[t] \in IF kind.robust THEN RobustPCs ELSE PlainPCs
       /\ ~ kind.robust /\ Is("normal") => pc[t] \in {"out", "take", "give"}
       /\ pc[t] \in {"pid", "setpid"} => kind.shared
       /\ pc[t] # "out" \/ hold[t] > 0 => t \in Users
       /\ pc[t] = "dead" <=> pid[t] \notin alive
       /\ hold[t] > 0 => pc[t] \in {"out", "owner", "pid", "repair"}
                         \/ (Is("normal") /\ ~ kind.robust /\ pc[t] = "give")
       /\ ~ Is("recursive") => hold[t] <= 1
       /\ pc[t] = "repair" => hold[t] = 1
       /\ Is("normal") /\ pc[t] \in {"owner", "pid"} => (op[t] = "unlock" <=> hold[t] > 0)

\* What was read of the word.
ValInv ==
  \A t \in Threads :
    /\ pc[t] \in {"cas", "trycas"} => val[t] = Free \/ OwnerDied(val[t])
    /\ pc[t] = "setflag" => val[t].pid = pid[t]

\* The word names the process of the thread that has it; a living process is named
\* without a reason only in an unrecoverable mutex.
WordInv ==
  /\ \A t, u \in Threads : Keeps(t) /\ Keeps(u) => t = u
  /\ \A t \in Threads : Keeps(t) => word.pid = pid[t]
  /\ word.pid = NoPid => word = Free
  /\ word.pid \in alive => owner_id = NotRecoverable \/ \E t \in Threads : Keeps(t)

\* Between the store of its own id and the store of another, t is on record.
RecordPCs == {"setpid", "clear", "clearid", "flag", "setflag", "mark"}
Recorded(t) == hold[t] > 0 \/ pc[t] \in RecordPCs

OwnerIdInv ==
  /\ \A t \in Threads :
       /\ Recorded(t) /\ ~ (Is("normal") /\ ~ kind.robust) => owner_id = id[t]
       /\ pc[t] \in {"got", "release"} => owner_id \in {0, NotRecoverable}
  /\ \/ owner_id \in {0, NotRecoverable} \/ OwnerDied(word)
     \/ \E t \in Threads : pc[t] = "gotdead" \/ (Recorded(t) /\ owner_id = id[t])

ShpidInv ==
  /\ \A t \in Threads :
       (hold[t] > 0 \/ pc[t] = "clear") /\ kind.shared /\ ~ kind.robust /\ ~ Is("normal")
         => shpid = pid[t]
  /\ ~ kind.robust => shpid = NoPid \/ \E t \in Threads : hold[t] > 0 \/ pc[t] = "clear"

CntInv == \A t \in Threads : hold[t] > 0 /\ (Is("recursive") \/ kind.robust) => cnt = hold[t]

OwnerInv == OwnerIdInv /\ ShpidInv /\ CntInv

\* A first look that is not out of date found the thread's own id.
LookInv == /\ \A t \in stale : pc[t] = "pid"
           /\ \A t \in Threads \ stale : pc[t] = "pid" => owner_id = id[t]

\* A thread that has taken the word of a dead owner says so, up to its store of the flag.
TakenOver == {"gotdead", "flag", "setflag"}

DamageInv ==
  damaged =>
    /\ kind.robust
    /\ \/ word.dead \/ owner_id = NotRecoverable \/ OwnerDied(word)
       \/ \E t \in Threads : pc[t] \in TakenOver
    /\ \A t \in Threads : pc[t] \in {"got", "release"} => owner_id = NotRecoverable

Inv == TypeInv /\ Shape /\ ValInv /\ WordInv /\ OwnerInv /\ LookInv /\ DamageInv

IInv == ~ torn => Inv

-----------------------------------------------------------------------------

\* A step that is not torn follows one that is not, and takes no unsettled look for a verdict.
LEMMA Untorn ==
  ASSUME History, ~ torn'
  PROVE  /\ ~ torn
         /\ \A t \in Threads : pc[t] = "pid" /\ pc'[t] # "pid" /\ SaysOwned(t) => ~ Unsettled(t)
  BY Zenon DEF History

\* Who has the word has its owner bits.
LEMMA OwnerPidIsKnown ==
  ASSUME TypeInv, Shape, WordInv, OwnerInv, NEW t \in Users,
         pc[t] # "dead", owner_id = id[t], ~ Is("normal") \/ kind.robust,
         \A u \in Threads : pc[u] # "gotdead",
         kind.shared => OwnerPid = pid[t]
  PROVE  Recorded(t)
<1>0. t \in Threads
  BY DEF Users
<1>a. /\ id[t] # 0 /\ id[t] # NotRecoverable
      /\ \A u \in Threads : u # t /\ pid[t] = pid[u] => id[t] # id[u]
      /\ pid[t] \in alive /\ pid[t] # NoPid
      /\ \A u \in Threads : Recorded(u) => Keeps(u)
  BY <1>0, MutexAssumption, PidAssumption
     DEF Shape, TypeInv, Recorded, RecordPCs, Keeps, KeepPCs
<1>1. ~ OwnerDied(word)
  BY <1>a DEF OwnerDied, Shape, OwnerPid, TypeInv, Words
<1>2. PICK u \in Threads : Recorded(u) /\ owner_id = id[u]
  BY <1>1, <1>a DEF OwnerInv, OwnerIdInv, ShpidInv, CntInv
<1>3. pid[u] = pid[t]
  <2>1. CASE kind.robust
    BY <2>1, <1>2, <1>a DEF WordInv, Shape, OwnerPid
  <2>2. CASE ~ kind.robust /\ kind.shared
    <3>1. PICK v \in Threads : hold[v] > 0 \/ pc[v] = "clear"
      BY <2>2, <1>a DEF OwnerInv, OwnerIdInv, ShpidInv, CntInv, OwnerPid
    <3>2. v = u
      BY <3>1, <1>2, <1>a DEF WordInv, Recorded, RecordPCs, Keeps, KeepPCs
    <3> QED BY <2>2, <3>1, <3>2 DEF OwnerInv, OwnerIdInv, ShpidInv, CntInv, OwnerPid
  <2>3. CASE ~ kind.robust /\ ~ kind.shared
    BY <2>3, <1>2, <1>0 DEF Shape, Users, Recorded, RecordPCs
  <2> QED BY <2>1, <2>2, <2>3
<1> QED BY <1>2, <1>3, <1>a

\* What comes of a look at the owner: an error, a lock that is tried, the look at the
\* process, one more lock, or one less and the last of them.
Decided(t) ==
  /\ val' = [val EXCEPT ![t] = Free] /\ UNCHANGED <<alive, word, op, owner_id, shpid, damaged>>
  /\ \/ /\ pc[t] \in {"owner", "pid"} /\ pc' = [pc EXCEPT ![t] = "out"] /\ UNCHANGED <<cnt, hold>>
     \/ /\ pc[t] \in {"owner", "pid"} /\ hold[t] = 0 /\ UNCHANGED <<cnt, hold>>
        /\ \E m \in {"take", "try", "first"} : /\ pc' = [pc EXCEPT ![t] = m]
                                               /\ m = "take" <=> ~ kind.robust
     \/ /\ pc[t] = "owner" /\ pc' = [pc EXCEPT ![t] = "pid"] /\ UNCHANGED <<cnt, hold>>
        /\ owner_id = id[t] /\ (kind.shared \/ kind.robust)
     \/ /\ pc[t] \in {"owner", "pid"} /\ pc' = [pc EXCEPT ![t] = "out"]
        /\ hold[t] > 0 /\ Is("recursive")
        /\ cnt' = cnt + 1 /\ hold' = [hold EXCEPT ![t] = @ + 1]
     \/ /\ pc[t] \in {"owner", "pid"} /\ hold[t] > 0
        /\ hold' = [hold EXCEPT ![t] = @ - 1] /\ cnt' = IF cnt = 0 THEN 0 ELSE cnt - 1
        /\ pc' = [pc EXCEPT ![t] = IF hold[t] > 1 THEN "out"
                                   ELSE IF kind.robust THEN "mark" ELSE "clear"]

\* The owner is told so, and nobody else but by an EDEADLK.
LEMMA OwnedStep ==
  ASSUME TypeInv, Shape, OwnerInv, NEW t \in Users, NEW l \in {"owner", "pid"}, Owned(t, l),
         hold[t] > 0 \/ (Is("errorcheck") /\ ~ kind.robust /\ op[t] # "unlock"),
         UNCHANGED <<alive, word, op>>
  PROVE  Decided(t)
<1>0. t \in Threads
  BY DEF Users
<1>1. pc[t] = l /\ val' = [val EXCEPT ![t] = Free]
  BY DEF Owned, Unlock, NotOwned, Relock, Goto, Move
<1>2. CASE op[t] = "unlock"
  <2>1. hold[t] > 0 /\ Unlock(t, l)
    BY <1>2 DEF Owned
  <2>2. (cnt = 1 \/ (Is("errorcheck") /\ ~ kind.robust)) <=> hold[t] = 1
    BY <2>1, <1>0, <1>1 DEF Shape, OwnerInv, OwnerIdInv, ShpidInv, CntInv, TypeInv, Is, Types
  <2>3. /\ pc' = [pc EXCEPT ![t] = IF hold[t] # 1 THEN "out"
                                   ELSE IF kind.robust THEN "mark" ELSE "clear"]
        /\ cnt' = IF cnt = 0 THEN 0 ELSE cnt - 1
        /\ UNCHANGED <<owner_id, shpid, damaged>>
    BY <2>1, <2>2 DEF Unlock, Goto, Move
  <2>4. hold' = [hold EXCEPT ![t] = @ - 1]
    <3>1. hold[t] # 0
      BY <2>1, <1>0 DEF TypeInv
    <3> QED BY <2>1, <3>1 DEF Unlock
  <2>5. (hold[t] # 1) <=> (hold[t] > 1)
    BY <2>1, <1>0 DEF TypeInv
  <2> QED BY <2>1, <2>3, <2>4, <2>5, <1>1 DEF Decided
<1>3. CASE op[t] # "unlock" /\ Is("normal")
  BY <1>3, <1>0, <1>1 DEF Shape, Owned, Is
<1>4. CASE op[t] # "unlock" /\ ~ Is("normal")
  <2>1. Relock(t, l)
    BY <1>4 DEF Owned
  <2>2. CASE Is("recursive") /\ cnt < MaxCnt
    BY <2>1, <2>2, <1>0, <1>1 DEF Relock, Goto, Move, Decided, Is
  <2>3. CASE ~ (Is("recursive") /\ cnt < MaxCnt)
    BY <2>1, <2>3, <1>0, <1>1 DEF Relock, Goto, Move, Decided
  <2> QED BY <2>2, <2>3
<1> QED BY <1>2, <1>3, <1>4

\* Whoever is told that it is not the owner goes on to lock, or is refused.
LEMMA NotOwnedStep ==
  ASSUME NEW t \in Threads, NEW l \in {"owner", "pid"}, NotOwned(t, l), hold[t] = 0,
         UNCHANGED <<alive, word, op>>
  PROVE  Decided(t)
<1>1. CASE op[t] = "unlock"
  BY <1>1 DEF NotOwned, Goto, Move, Decided, mutexVars
<1>2. CASE op[t] # "unlock" /\ ~ kind.robust
  BY <1>2 DEF NotOwned, Goto, Move, Decided, mutexVars
<1>3. CASE op[t] # "unlock" /\ kind.robust
  BY <1>3 DEF NotOwned, Goto, Move, Decided, mutexVars
<1> QED BY <1>1, <1>2, <1>3

\* An owner is on record.
LEMMA HolderIsRecorded ==
  ASSUME TypeInv, Shape, WordInv, OwnerInv, NEW t \in Threads, hold[t] > 0,
         pc[t] \in {"owner", "pid"}
  PROVE  owner_id = id[t] /\ (ComparesPid(t) => OwnerPid = pid[t])
  BY DEF Shape, WordInv, OwnerInv, OwnerIdInv, ShpidInv, CntInv, Recorded, RecordPCs, Keeps,
     ComparesPid, OwnerPid

\* A look that is not torn tells a thread what it is.
LEMMA DecidedStep ==
  ASSUME TypeInv, Shape, WordInv, OwnerInv, LookInv, NEW t \in Users,
         OwnerId(t) \/ OwnerProcess(t),
         pc[t] = "pid" /\ SaysOwned(t) => ~ Unsettled(t)
  PROVE  Decided(t)
<1>0. t \in Threads
  BY DEF Users
<1>d. \A u \in Threads : hold[u] \in Nat
  BY DEF TypeInv
<1>1. CASE OwnerProcess(t)
  <2>0. pc[t] = "pid" /\ UNCHANGED <<alive, word, op>>
    BY <1>1 DEF OwnerProcess, Owned, Unlock, Relock, NotOwned, Goto, Move
  <2>1. CASE OwnerPid = pid[t]
    <3>1. /\ owner_id = id[t]
          /\ \A u \in Threads : pc[u] # "gotdead"
      BY <2>0, <2>1, <1>0 DEF SaysOwned, Unsettled, LookInv
    <3>2. Recorded(t)
      <4>1. kind.shared /\ (~ Is("normal") \/ kind.robust)
        BY <2>0, <1>0 DEF Shape, Is
      <4> QED BY <2>0, <2>1, <4>1, <3>1, OwnerPidIsKnown
    <3>3. hold[t] > 0
      BY <2>0, <3>2, <1>d, <1>0 DEF Recorded, RecordPCs
    <3> QED BY <1>1, <2>0, <2>1, <3>3, OwnedStep DEF OwnerProcess
  <2>2. CASE OwnerPid # pid[t]
    <3>1. hold[t] = 0
      BY <2>0, <2>2, <1>d, <1>0 DEF Shape, WordInv, OwnerInv, OwnerIdInv, ShpidInv, CntInv,
         Recorded, RecordPCs, Keeps, OwnerPid
    <3> QED BY <1>1, <2>0, <2>2, <3>1, <1>0, NotOwnedStep DEF OwnerProcess
  <2> QED BY <2>1, <2>2
<1>2. CASE OwnerId(t)
  <2>0. pc[t] = "owner" /\ UNCHANGED <<alive, word, op>>
    BY <1>2 DEF OwnerId, Owned, Unlock, Relock, NotOwned, Goto, Move
  <2>1. CASE kind.robust /\ owner_id = NotRecoverable
    BY <1>2, <2>0, <2>1 DEF OwnerId, Goto, Move, Decided, mutexVars
  <2>2. CASE ~ (kind.robust /\ owner_id = NotRecoverable) /\ owner_id # id[t]
    <3>1. hold[t] = 0
      BY <2>0, <2>2, <1>d, <1>0, HolderIsRecorded
    <3> QED BY <1>2, <2>0, <2>2, <3>1, <1>0, NotOwnedStep DEF OwnerId
  <2>3. CASE owner_id = id[t] /\ ComparesPid(t) /\ ~ (kind.robust /\ owner_id = NotRecoverable)
    BY <1>2, <2>0, <2>3 DEF OwnerId, Goto, Move, Decided, mutexVars, ComparesPid
  <2>4. CASE owner_id = id[t] /\ ~ ComparesPid(t) /\ ~ (kind.robust /\ owner_id = NotRecoverable)
    <3>1. Owned(t, "owner")
      BY <1>2, <2>4 DEF OwnerId
    <3>2. ~ kind.robust /\ (~ kind.shared \/ (Is("errorcheck") /\ op[t] # "unlock"))
      BY <2>4 DEF ComparesPid, Timed
    <3>3. ~ kind.shared => hold[t] > 0
      <4>1. \A u \in Threads : kind.shared \/ pc[u] # "gotdead"
        BY <3>2 DEF Shape, PlainPCs
      <4>2. ~ Is("normal")
        BY <2>0, <3>2, <1>0 DEF Shape, Is
      <4> QED BY <2>0, <2>4, <3>2, <4>1, <4>2, <1>0, OwnerPidIsKnown DEF Recorded, RecordPCs
    <3> QED BY <2>0, <3>1, <3>2, <3>3, OwnedStep
  <2> QED BY <2>1, <2>2, <2>3, <2>4
<1> QED BY <1>1, <1>2

-----------------------------------------------------------------------------

\* The steps that t takes, the torn looks excepted.
Act(t) == \/ \E o \in Locking[t] \cup {"unlock"} : Enter(t, o)
          \/ Decided(t) \/ Consistent(t)
          \/ \E u \in Users : Transfer(t, u)
          \/ /\ LockStep(t) \/ Expired(t) \/ Interrupted(t)
             /\ UNCHANGED mutexVars
          \/ Take(t) \/ SetId(t) \/ SetPid(t) \/ Clear(t) \/ ClearId(t) \/ Give(t)
          \/ Recover(t) \/ ReadFlags(t) \/ SetFlag(t) \/ Mark(t) \/ Repair(t)


\* A pass that takes the word finds it free or left by a dead owner; another may
\* set LLL_WAITERS in it.
LEMMA PassStep ==
  ASSUME TypeInv, ValInv, NEW t \in Threads, FirstPass(t) \/ Cas(t) \/ TryCas(t)
  PROVE  /\ \A u \in Threads \ {t} : pc'[u] = pc[u]
         /\ pc[t] \in {"first", "cas", "trycas"} /\ alive' = alive
         /\ \/ /\ pc'[t] \in {"look", "wait", "out"}
               /\ word'.pid = word.pid /\ (word.dead => word'.dead) /\ (word = Free => word' = Free)
            \/ pc'[t] = "got" /\ word = Free /\ word' \in {Taken(t, FALSE), Taken(t, TRUE)}
            \/ pc'[t] = "gotdead" /\ OwnerDied(word) /\ word' \in {Taken(t, FALSE), Taken(t, TRUE)}
<1>1. pc \in [Threads -> RobustPCs \cup PlainPCs] /\ word \in Words
  BY DEF TypeInv
<1>2. CASE FirstPass(t)
  <2>1. CASE word = Free /\ word' = Taken(t, FALSE) /\ Goto(t, "first", "got")
    BY <1>1, <1>2, <2>1 DEF FirstPass, Goto, Move
  <2>2. CASE /\ word # Free /\ word' = [word EXCEPT !.waiters = TRUE] /\ Goto(t, "first", "look")
    <3>1. word'.pid = word.pid /\ (word.dead => word'.dead)
      BY <1>1, <2>2 DEF Words
    <3> QED BY <1>1, <1>2, <2>2, <3>1 DEF FirstPass, Goto, Move
  <2> QED BY <1>2, <2>1, <2>2 DEF FirstPass
<1>3. CASE Cas(t)
  <2>1. CASE word = val[t]
    <3>1. pc[t] = "cas" /\ (word = Free \/ OwnerDied(word))
      BY <1>3, <2>1 DEF Cas, Goto, Move, ValInv
    <3> QED BY <1>1, <1>3, <2>1, <3>1 DEF Cas, Goto, Move
  <2>2. CASE word # val[t]
    BY <1>1, <1>3, <2>2 DEF Cas, Goto, Move
  <2> QED BY <2>1, <2>2
<1>4. CASE TryCas(t)
  <2>1. CASE word = val[t]
    <3>1. pc[t] = "trycas" /\ (word = Free \/ OwnerDied(word))
      BY <1>4, <2>1 DEF TryCas, Goto, Move, ValInv
    <3> QED BY <1>1, <1>4, <2>1, <3>1 DEF TryCas, Goto, Move
  <2>2. CASE word # val[t]
    BY <1>1, <1>4, <2>2 DEF TryCas, Goto, Move
  <2> QED BY <2>1, <2>2
<1> QED BY <1>2, <1>3, <1>4

\* A call on a mutex is made of the steps of its kind.
LEMMA ShapeStep ==
  ASSUME Inv, NEW t \in Users, Act(t), UNCHANGED kind
  PROVE  Shape'
<1>0. t \in Threads /\ TypeInv /\ Shape /\ ValInv /\ WordInv /\ LookInv /\ DamageInv
      /\ OwnerIdInv /\ ShpidInv /\ CntInv
  BY DEF Users, Inv, OwnerInv
<1>n. /\ pid \in [Threads -> Pids] /\ NoPid \notin Pids
      /\ id \in [Threads -> Nat \ {0, NotRecoverable}] /\ NotRecoverable \in Nat \ {0}
      /\ \A a, b \in Threads : a # b /\ pid[a] = pid[b] => id[a] # id[b]
      /\ \A a \in Threads : Locking[a] \subseteq {"lock", "timed", "try"}
  BY MutexAssumption, PidAssumption
<1>f. /\ pc \in [Threads -> RobustPCs \cup PlainPCs] /\ val \in [Threads -> Words]
      /\ hold \in [Threads -> Nat]
  BY <1>0 DEF TypeInv
<1> USE <1>0, <1>n DEF TypeInv, Goto, Move, lockVars, mutexVars, Is, RobustPCs, PlainPCs,
        KeepPCs, Types, Words, Free, Taken, OwnerDied, Users
<1>1. CASE \E o \in Locking[t] \cup {"unlock"} : Enter(t, o)
  BY <1>1 DEF Enter, Legal, Shape
<1>2. CASE Decided(t)
  BY <1>2 DEF Decided, Shape
<1>3. CASE \E u \in Users : Transfer(t, u)
  BY <1>3 DEF Transfer, Shape
<1>4. CASE (FirstPass(t) \/ Cas(t) \/ TryCas(t)) /\ UNCHANGED mutexVars
  BY <1>4 DEF FirstPass, Cas, TryCas, Shape
<1>5. CASE (Look(t) \/ Wait(t) \/ SliceOver(t) \/ TryLook(t)) /\ UNCHANGED mutexVars
  BY <1>5 DEF Look, Wait, SliceOver, TryLook, Shape
<1>6. CASE (Expired(t) \/ Interrupted(t)) /\ UNCHANGED mutexVars
  BY <1>6 DEF Expired, Interrupted, Shape
<1>7. CASE Release(t) /\ UNCHANGED mutexVars
  <2>1. /\ pc[t] = "release" /\ UNCHANGED <<alive, kind, op, hold, owner_id, shpid>>
    BY <1>7 DEF Release
  <2>2. CASE pc' = [pc EXCEPT ![t] = "out"]
    BY <2>1, <2>2 DEF Shape
  <2>3. CASE \E s \in Threads : pc[s] = "asleep" /\ pc' = [pc EXCEPT ![t] = "out", ![s] = "look"]
    BY <2>1, <2>3 DEF Shape
  <2> QED BY <1>7, <2>2, <2>3 DEF Release, Sleepers
<1>8. CASE Take(t)
  <2>1. pc[t] = "take" /\ UNCHANGED <<alive, kind, op, owner_id, shpid>> /\ ~ kind.robust
    BY <1>8 DEF Take, Shape
  <2>2. CASE pc' = [pc EXCEPT ![t] = "out"] /\ (UNCHANGED hold \/ hold' = [hold EXCEPT ![t] = 1])
    BY <2>1, <2>2 DEF Shape
  <2>3. CASE pc' = [pc EXCEPT ![t] = "setid"] /\ ~ Is("normal") /\ UNCHANGED hold
    BY <2>1, <2>3 DEF Shape
  <2> QED BY <1>8, <2>2, <2>3 DEF Take
<1>9. CASE SetId(t) \/ SetPid(t)
  BY <1>9 DEF SetId, SetPid, Return, Shape
<1>10. CASE Clear(t) \/ ClearId(t) \/ Give(t)
  BY <1>10 DEF Clear, ClearId, Give, Shape
<1>11. CASE Recover(t)
  BY <1>11 DEF Recover, Return, Shape
<1>12. CASE ReadFlags(t) \/ SetFlag(t)
  BY <1>12 DEF ReadFlags, SetFlag, Return, Shape
<1>13. CASE Mark(t)
  BY <1>13 DEF Mark, Shape
<1>14. CASE Consistent(t) \/ Repair(t)
  BY <1>14 DEF Consistent, Repair, Shape
<1> QED BY <1>1, <1>2, <1>3, <1>4, <1>5, <1>6, <1>7, <1>8, <1>9, <1>10, <1>11, <1>12, <1>13,
           <1>14 DEF Act, LockStep

\* A compare-and-swap that is still to come expects a word that may be taken.
LEMMA ValStep ==
  ASSUME Inv, NEW t \in Users, Act(t), UNCHANGED kind
  PROVE  ValInv'
<1>0. t \in Threads /\ TypeInv /\ Shape /\ ValInv /\ WordInv /\ LookInv /\ DamageInv
      /\ OwnerIdInv /\ ShpidInv /\ CntInv
  BY DEF Users, Inv, OwnerInv
<1>n. /\ pid \in [Threads -> Pids] /\ NoPid \notin Pids
      /\ id \in [Threads -> Nat \ {0, NotRecoverable}] /\ NotRecoverable \in Nat \ {0}
      /\ \A a, b \in Threads : a # b /\ pid[a] = pid[b] => id[a] # id[b]
      /\ \A a \in Threads : Locking[a] \subseteq {"lock", "timed", "try"}
  BY MutexAssumption, PidAssumption
<1>f. /\ pc \in [Threads -> RobustPCs \cup PlainPCs] /\ val \in [Threads -> Words]
      /\ hold \in [Threads -> Nat]
  BY <1>0 DEF TypeInv
<1>s. SUFFICES /\ alive' = alive
               /\ \A u \in Threads :
                    /\ pc'[u] \in {"cas", "trycas"}
                         => \/ pc'[u] = pc[u] /\ val'[u] = val[u]
                            \/ val'[u] = Free \/ OwnerDied(val'[u])
                    /\ pc'[u] = "setflag"
                         => (pc'[u] = pc[u] /\ val'[u] = val[u]) \/ val'[u].pid = pid[u]
  BY <1>0 DEF ValInv, OwnerDied
<1> USE <1>0, <1>f DEF Goto, Move, lockVars, mutexVars
<1>1. CASE \E o \in Locking[t] \cup {"unlock"} : Enter(t, o)
  BY <1>1 DEF Enter, Legal
<1>2. CASE Decided(t)
  BY <1>2 DEF Decided
<1>3. CASE \E u \in Users : Transfer(t, u)
  BY <1>3 DEF Transfer
<1>4. CASE (FirstPass(t) \/ Cas(t) \/ TryCas(t)) /\ UNCHANGED mutexVars
  BY <1>4 DEF FirstPass, Cas, TryCas
<1>5. CASE (Look(t) \/ Wait(t) \/ SliceOver(t) \/ TryLook(t)) /\ UNCHANGED mutexVars
  BY <1>5 DEF Look, Wait, SliceOver, TryLook
<1>6. CASE (Expired(t) \/ Interrupted(t)) /\ UNCHANGED mutexVars
  BY <1>6 DEF Expired, Interrupted
<1>7. CASE Release(t) /\ UNCHANGED mutexVars
  BY <1>7 DEF Release, Sleepers
<1>8. CASE Take(t)
  BY <1>8 DEF Take
<1>9. CASE SetId(t) \/ SetPid(t)
  BY <1>9 DEF SetId, SetPid, Return
<1>10. CASE Clear(t) \/ ClearId(t) \/ Give(t)
  BY <1>10 DEF Clear, ClearId, Give
<1>11. CASE Recover(t)
  BY <1>11 DEF Recover, Return
<1>12. CASE ReadFlags(t) \/ SetFlag(t)
  BY <1>12 DEF ReadFlags, SetFlag, Return, WordInv, Keeps, KeepPCs
<1>13. CASE Mark(t)
  BY <1>13 DEF Mark
<1>14. CASE Consistent(t) \/ Repair(t)
  BY <1>14 DEF Consistent, Repair
<1> QED BY <1>1, <1>2, <1>3, <1>4, <1>5, <1>6, <1>7, <1>8, <1>9, <1>10, <1>11, <1>12, <1>13,
           <1>14 DEF Act, LockStep

\* The word has one keeper at most, and names its process.
LEMMA WordStep ==
  ASSUME Inv, NEW t \in Users, Act(t), UNCHANGED kind
  PROVE  WordInv'
<1>0. t \in Threads /\ TypeInv /\ Shape /\ ValInv /\ WordInv /\ LookInv /\ DamageInv
      /\ OwnerIdInv /\ ShpidInv /\ CntInv
  BY DEF Users, Inv, OwnerInv
<1>n. /\ pid \in [Threads -> Pids] /\ NoPid \notin Pids
      /\ id \in [Threads -> Nat \ {0, NotRecoverable}] /\ NotRecoverable \in Nat \ {0}
      /\ \A a, b \in Threads : a # b /\ pid[a] = pid[b] => id[a] # id[b]
      /\ \A a \in Threads : Locking[a] \subseteq {"lock", "timed", "try"}
  BY MutexAssumption, PidAssumption
<1>f. /\ pc \in [Threads -> RobustPCs \cup PlainPCs] /\ val \in [Threads -> Words]
      /\ hold \in [Threads -> Nat]
  BY <1>0 DEF TypeInv
<1> USE <1>0, <1>f DEF Goto, Move, lockVars, mutexVars
<1>1. CASE \E o \in Locking[t] \cup {"unlock"} : Enter(t, o)
  <2>1. \A u \in Threads : (hold'[u] > 0 \/ pc'[u] \in KeepPCs) <=> Keeps(u)
    BY <1>1 DEF Enter, Legal, Keeps, KeepPCs
  <2>2. /\ alive' = alive /\ word'.pid = word.pid /\ (word = Free => word' = Free)
        /\ (owner_id = NotRecoverable => owner_id' = NotRecoverable) \/ Keeps(t)
    BY <1>1 DEF Enter, Legal, Keeps, KeepPCs, Free, Taken
  <2> QED BY <2>1, <2>2 DEF WordInv, Keeps
<1>2. CASE Decided(t)
  <2>1. \A u \in Threads : (hold'[u] > 0 \/ pc'[u] \in KeepPCs) <=> Keeps(u)
    BY <1>2 DEF Decided, Keeps, KeepPCs, Shape, Is
  <2>2. /\ alive' = alive /\ word'.pid = word.pid /\ (word = Free => word' = Free)
        /\ (owner_id = NotRecoverable => owner_id' = NotRecoverable) \/ Keeps(t)
    BY <1>2 DEF Decided, Keeps, KeepPCs, Free, Taken, ValInv
  <2> QED BY <2>1, <2>2 DEF WordInv, Keeps
<1>3. CASE \E u \in Users : Transfer(t, u)
  <2>1. PICK v \in Users : Transfer(t, v)
    BY <1>3
  <2>2. /\ v \in Threads /\ pid[v] = pid[t] /\ Keeps(t) /\ UNCHANGED <<alive, word>>
        /\ \A u \in Threads : (hold'[u] > 0 \/ pc'[u] \in KeepPCs) => u = v \/ (Keeps(u) /\ u # t)
        /\ hold'[v] > 0
    BY <2>1 DEF Transfer, Users, Keeps, KeepPCs
  <2>3. \A u \in Threads : (hold'[u] > 0 \/ pc'[u] \in KeepPCs) <=> u = v
    BY <2>2 DEF WordInv
  <2> QED BY <2>2, <2>3 DEF WordInv, Keeps
<1>4. CASE (FirstPass(t) \/ Cas(t) \/ TryCas(t)) /\ UNCHANGED mutexVars
  <2>0. UNCHANGED mutexVars
    BY <1>4
  <2>1. CASE pc'[t] \in {"look", "wait", "out"}
    <3>1. \A u \in Threads : (hold'[u] > 0 \/ pc'[u] \in KeepPCs) <=> Keeps(u)
      BY <1>4, <2>0, <2>1, PassStep DEF Keeps, KeepPCs
    <3>2. alive' = alive /\ word'.pid = word.pid /\ (word = Free => word' = Free)
      BY <1>4, <2>1, PassStep
    <3> QED BY <2>0, <3>1, <3>2 DEF WordInv, Keeps
  <2>2. CASE pc'[t] \in {"got", "gotdead"}
    <3>1. (word = Free \/ OwnerDied(word)) /\ word' \in {Taken(t, FALSE), Taken(t, TRUE)}
      BY <1>4, <2>2, PassStep
    <3>2. \A u \in Threads : ~ Keeps(u)
      BY <3>1, <1>n DEF WordInv, Keeps, KeepPCs, Shape, OwnerDied, Free
    <3>3. \A u \in Threads : (hold'[u] > 0 \/ pc'[u] \in KeepPCs) <=> u = t
      BY <1>4, <2>0, <2>2, <3>2, PassStep DEF Keeps, KeepPCs
    <3>4. word'.pid = pid[t] /\ alive' = alive
      BY <1>4, <3>1, PassStep DEF Taken
    <3> QED BY <3>3, <3>4, <1>n DEF WordInv, Keeps
  <2> QED BY <1>4, <2>1, <2>2, PassStep
<1>5. CASE (Look(t) \/ Wait(t) \/ SliceOver(t) \/ TryLook(t)) /\ UNCHANGED mutexVars
  <2>1. \A u \in Threads : (hold'[u] > 0 \/ pc'[u] \in KeepPCs) <=> Keeps(u)
    BY <1>5 DEF Look, Wait, SliceOver, TryLook, Keeps, KeepPCs
  <2>2. /\ alive' = alive /\ word'.pid = word.pid /\ (word = Free => word' = Free)
        /\ (owner_id = NotRecoverable => owner_id' = NotRecoverable) \/ Keeps(t)
    BY <1>5 DEF Look, Wait, SliceOver, TryLook, Keeps, KeepPCs, Free, Taken
  <2> QED BY <2>1, <2>2 DEF WordInv, Keeps
<1>6. CASE (Expired(t) \/ Interrupted(t)) /\ UNCHANGED mutexVars
  <2>1. \A u \in Threads : (hold'[u] > 0 \/ pc'[u] \in KeepPCs) <=> Keeps(u)
    BY <1>6 DEF Expired, Interrupted, Keeps, KeepPCs
  <2>2. /\ alive' = alive /\ word'.pid = word.pid /\ (word = Free => word' = Free)
        /\ (owner_id = NotRecoverable => owner_id' = NotRecoverable) \/ Keeps(t)
    BY <1>6 DEF Expired, Interrupted, Keeps, KeepPCs, Free, Taken
  <2> QED BY <2>1, <2>2 DEF WordInv, Keeps
<1>7. CASE Release(t) /\ UNCHANGED mutexVars
  <2>1. \A u \in Threads : ~ (hold'[u] > 0 \/ pc'[u] \in KeepPCs)
    BY <1>7 DEF Release, Sleepers, WordInv, Keeps, KeepPCs, Shape
  <2>2. word' = Free /\ alive' = alive
    BY <1>7 DEF Release, Sleepers
  <2> QED BY <2>1, <2>2, <1>n DEF WordInv, Keeps, Free, TypeInv
<1>8. CASE Take(t)
  <2>1. CASE word # Free
    <3>1. \A u \in Threads : (hold'[u] > 0 \/ pc'[u] \in KeepPCs) <=> Keeps(u)
      BY <1>8, <2>1 DEF Take, Keeps, KeepPCs
    <3>2. /\ alive' = alive /\ word'.pid = word.pid /\ (word = Free => word' = Free)
          /\ (owner_id = NotRecoverable => owner_id' = NotRecoverable) \/ Keeps(t)
      BY <1>8, <2>1 DEF Take, Keeps, KeepPCs, Free, Taken
    <3> QED BY <3>1, <3>2 DEF WordInv, Keeps
  <2>2. CASE word = Free
    <3>1. word = Free \/ OwnerDied(word)
      BY <1>8, <2>2 DEF Take, ValInv
    <3>2. \A u \in Threads : ~ Keeps(u)
      BY <3>1, <1>n DEF WordInv, Keeps, KeepPCs, Shape, OwnerDied, Free
    <3>3. \A u \in Threads : (hold'[u] > 0 \/ pc'[u] \in KeepPCs) <=> u = t
      BY <1>8, <2>2, <3>2 DEF Take, Keeps, KeepPCs, Return
    <3>4. word'.pid = pid[t] /\ alive' = alive
      BY <1>8, <2>2 DEF Take, Taken
    <3> QED BY <3>3, <3>4, <1>n DEF WordInv, Keeps
  <2> QED BY <2>1, <2>2
<1>9. CASE SetId(t) \/ SetPid(t)
  <2>1. \A u \in Threads : (hold'[u] > 0 \/ pc'[u] \in KeepPCs) <=> Keeps(u)
    BY <1>9 DEF SetId, SetPid, Return, Keeps, KeepPCs
  <2>2. /\ alive' = alive /\ word'.pid = word.pid /\ (word = Free => word' = Free)
        /\ (owner_id = NotRecoverable => owner_id' = NotRecoverable) \/ Keeps(t)
    BY <1>9 DEF SetId, SetPid, Return, Keeps, KeepPCs, Free, Taken
  <2> QED BY <2>1, <2>2 DEF WordInv, Keeps
<1>10. CASE Clear(t) \/ ClearId(t) \/ Give(t)
  <2>1. CASE Clear(t) \/ ClearId(t)
    <3>1. \A u \in Threads : (hold'[u] > 0 \/ pc'[u] \in KeepPCs) <=> Keeps(u)
      BY <2>1 DEF Clear, ClearId, Keeps, KeepPCs
    <3>2. /\ alive' = alive /\ word'.pid = word.pid /\ (word = Free => word' = Free)
          /\ (owner_id = NotRecoverable => owner_id' = NotRecoverable) \/ Keeps(t)
      BY <2>1 DEF Clear, ClearId, Keeps, KeepPCs, Free, Taken
    <3> QED BY <3>1, <3>2 DEF WordInv, Keeps
  <2>2. CASE Give(t)
    <3>1. \A u \in Threads : ~ (hold'[u] > 0 \/ pc'[u] \in KeepPCs)
      BY <2>2 DEF Give, WordInv, Keeps, KeepPCs, Shape
    <3>2. word' = Free /\ alive' = alive
      BY <2>2 DEF Give
    <3> QED BY <3>1, <3>2, <1>n DEF WordInv, Keeps, Free, TypeInv
  <2> QED BY <1>10, <2>1, <2>2
<1>11. CASE Recover(t)
  <2>1. CASE owner_id = NotRecoverable
    <3>1. \A u \in Threads : ~ (hold'[u] > 0 \/ pc'[u] \in KeepPCs)
      BY <1>11, <2>1 DEF Recover, WordInv, Keeps, KeepPCs, Shape
    <3>2. UNCHANGED <<alive, word, owner_id>>
      BY <1>11, <2>1 DEF Recover
    <3> QED BY <2>1, <3>1, <3>2 DEF WordInv, Keeps
  <2>2. CASE owner_id # NotRecoverable
    <3>1. \A u \in Threads : (hold'[u] > 0 \/ pc'[u] \in KeepPCs) <=> Keeps(u)
      BY <1>11, <2>2 DEF Recover, Return, Keeps, KeepPCs
    <3>2. Keeps(t) /\ UNCHANGED <<alive, word>>
      BY <1>11, <2>2 DEF Recover, Return, Keeps, KeepPCs
    <3> QED BY <3>1, <3>2 DEF WordInv, Keeps
  <2> QED BY <2>1, <2>2
<1>12. CASE ReadFlags(t) \/ SetFlag(t)
  <2>1. \A u \in Threads : (hold'[u] > 0 \/ pc'[u] \in KeepPCs) <=> Keeps(u)
    BY <1>12 DEF ReadFlags, SetFlag, Return, Keeps, KeepPCs
  <2>2. Keeps(t) /\ alive' = alive
    <3>1. pc[t] \in {"flag", "setflag"} /\ alive' = alive
      BY <1>12 DEF ReadFlags, SetFlag, Return
    <3> QED BY <3>1 DEF Keeps, KeepPCs
  <2>3. word'.pid = word.pid /\ word # Free
    <3>1. CASE word' = word
      BY <3>1, <2>2, <1>n DEF WordInv, Free
    <3>2. CASE SetFlag(t)
      <4>1. val[t] \in Words /\ val[t].pid = pid[t] /\ word' = [val[t] EXCEPT !.dead = TRUE]
        BY <3>2, <1>f DEF SetFlag, Return, ValInv
      <4>2. word'.pid = pid[t]
        BY <4>1 DEF Words
      <4> QED BY <4>2, <2>2, <1>n DEF WordInv, Free
    <3> QED BY <1>12, <3>1, <3>2 DEF ReadFlags
  <2> QED BY <2>1, <2>2, <2>3 DEF WordInv, Keeps
<1>13. CASE Mark(t)
  <2>1. \A u \in Threads : (hold'[u] > 0 \/ pc'[u] \in KeepPCs) <=> Keeps(u)
    BY <1>13 DEF Mark, Keeps, KeepPCs
  <2>2. /\ alive' = alive /\ word'.pid = word.pid /\ (word = Free => word' = Free)
        /\ (owner_id = NotRecoverable => owner_id' = NotRecoverable) \/ Keeps(t)
    BY <1>13 DEF Mark, Keeps, KeepPCs, Free, Taken
  <2> QED BY <2>1, <2>2 DEF WordInv, Keeps
<1>14. CASE Consistent(t) \/ Repair(t)
  <2>1. \A u \in Threads : (hold'[u] > 0 \/ pc'[u] \in KeepPCs) <=> Keeps(u)
    BY <1>14 DEF Consistent, Repair, Keeps, KeepPCs
  <2>2. alive' = alive /\ (word' = word \/ word' = Taken(t, TRUE))
    BY <1>14 DEF Consistent, Repair
  <2>3. Keeps(t)
    <3>1. hold[t] = 1
      BY <1>14 DEF Consistent, Repair, Shape
    <3> QED BY <3>1 DEF Keeps
  <2>4. word'.pid = word.pid /\ word # Free
    BY <2>2, <2>3, <1>n DEF WordInv, Free, Taken
  <2> QED BY <2>1, <2>2, <2>3, <2>4 DEF WordInv, Keeps
<1> QED BY <1>1, <1>2, <1>3, <1>4, <1>5, <1>6, <1>7, <1>8, <1>9, <1>10, <1>11, <1>12, <1>13,
           <1>14 DEF Act, LockStep

\* Only an owner counts.
LEMMA CntStep ==
  ASSUME Inv, NEW t \in Users, Act(t), UNCHANGED kind
  PROVE  CntInv'
<1>0. t \in Threads /\ TypeInv /\ Shape /\ ValInv /\ WordInv /\ LookInv /\ DamageInv
      /\ OwnerIdInv /\ ShpidInv /\ CntInv
  BY DEF Users, Inv, OwnerInv
<1>n. /\ pid \in [Threads -> Pids] /\ NoPid \notin Pids
      /\ id \in [Threads -> Nat \ {0, NotRecoverable}] /\ NotRecoverable \in Nat \ {0}
      /\ \A a, b \in Threads : a # b /\ pid[a] = pid[b] => id[a] # id[b]
      /\ \A a \in Threads : Locking[a] \subseteq {"lock", "timed", "try"}
  BY MutexAssumption, PidAssumption
<1>f. /\ pc \in [Threads -> RobustPCs \cup PlainPCs] /\ hold \in [Threads -> Nat]
      /\ Keeps(t) => \A u \in Threads \ {t} : hold[u] = 0 /\ pc[u] \notin KeepPCs
  BY <1>0 DEF TypeInv, WordInv, Keeps
<1> USE <1>0, <1>n, <1>f DEF Goto, Move, lockVars, mutexVars
<1>1. CASE \E o \in Locking[t] \cup {"unlock"} : Enter(t, o)
  BY <1>1 DEF Enter, Legal, CntInv, Keeps, KeepPCs, Is, Shape
<1>2. CASE Decided(t)
  BY <1>2 DEF Decided, CntInv, Keeps, KeepPCs, Is, Shape
<1>3. CASE \E u \in Users : Transfer(t, u)
  BY <1>3 DEF Transfer, CntInv, Keeps, KeepPCs, Is, Shape
<1>4. CASE (FirstPass(t) \/ Cas(t) \/ TryCas(t)) /\ UNCHANGED mutexVars
  BY <1>4 DEF CntInv, Is
<1>5. CASE (Look(t) \/ Wait(t) \/ SliceOver(t) \/ TryLook(t)) /\ UNCHANGED mutexVars
  BY <1>5 DEF Look, Wait, SliceOver, TryLook, CntInv, Keeps, KeepPCs, Is, Shape
<1>6. CASE (Expired(t) \/ Interrupted(t)) /\ UNCHANGED mutexVars
  BY <1>6 DEF Expired, Interrupted, CntInv, Keeps, KeepPCs, Is, Shape
<1>7. CASE Release(t) /\ UNCHANGED mutexVars
  BY <1>7 DEF Release, Sleepers, CntInv, Keeps, KeepPCs, Is, Shape
<1>8. CASE Take(t)
  <2>1. \A u \in Threads : hold'[u] = hold[u] \/ (u = t /\ Is("normal") /\ ~ kind.robust)
    BY <1>8 DEF Take, Shape, RobustPCs
  <2>2. UNCHANGED cnt
    BY <1>8 DEF Take
  <2> QED BY <2>1, <2>2 DEF CntInv, Is, Types
<1>9. CASE SetId(t) \/ SetPid(t)
  BY <1>9 DEF SetId, SetPid, Return, CntInv, Keeps, KeepPCs, Is, Shape
<1>10. CASE Clear(t) \/ ClearId(t) \/ Give(t)
  BY <1>10 DEF Clear, ClearId, Give, CntInv, Keeps, KeepPCs, Is, Shape
<1>11. CASE Recover(t)
  BY <1>11 DEF Recover, Return, CntInv, Keeps, KeepPCs, Is, Shape
<1>12. CASE ReadFlags(t) \/ SetFlag(t)
  BY <1>12 DEF ReadFlags, SetFlag, Return, CntInv, Keeps, KeepPCs, Is, Shape
<1>13. CASE Mark(t)
  BY <1>13 DEF Mark, CntInv, Keeps, KeepPCs, Is, Shape
<1>14. CASE Consistent(t) \/ Repair(t)
  <2>1. UNCHANGED hold /\ hold[t] = 1 /\ (cnt' = cnt \/ cnt' = 1)
    BY <1>14 DEF Consistent, Repair, Shape
  <2>2. \A u \in Threads : hold[u] > 0 => u = t
    BY <2>1 DEF Keeps
  <2> QED BY <2>1, <2>2 DEF CntInv, Is
<1> QED BY <1>1, <1>2, <1>3, <1>4, <1>5, <1>6, <1>7, <1>8, <1>9, <1>10, <1>11, <1>12, <1>13,
           <1>14 DEF Act, LockStep

\* __shpid is written by the keeper of the word alone.
LEMMA ShpidStep ==
  ASSUME Inv, NEW t \in Users, Act(t), UNCHANGED kind
  PROVE  ShpidInv'
<1>0. t \in Threads /\ TypeInv /\ Shape /\ ValInv /\ WordInv /\ LookInv /\ DamageInv
      /\ OwnerIdInv /\ ShpidInv /\ CntInv
  BY DEF Users, Inv, OwnerInv
<1>n. /\ pid \in [Threads -> Pids] /\ NoPid \notin Pids
      /\ id \in [Threads -> Nat \ {0, NotRecoverable}] /\ NotRecoverable \in Nat \ {0}
      /\ \A a, b \in Threads : a # b /\ pid[a] = pid[b] => id[a] # id[b]
      /\ \A a \in Threads : Locking[a] \subseteq {"lock", "timed", "try"}
  BY MutexAssumption, PidAssumption
<1>f. /\ pc \in [Threads -> RobustPCs \cup PlainPCs] /\ hold \in [Threads -> Nat]
      /\ Keeps(t) => \A u \in Threads \ {t} : hold[u] = 0 /\ pc[u] \notin KeepPCs
  BY <1>0 DEF TypeInv, WordInv, Keeps
<1> USE <1>0, <1>n, <1>f DEF Goto, Move, lockVars, mutexVars
<1>1. CASE \E o \in Locking[t] \cup {"unlock"} : Enter(t, o)
  BY <1>1 DEF Enter, Legal, ShpidInv, Keeps, KeepPCs, Is, Shape
<1>2. CASE Decided(t)
  <2>0. UNCHANGED shpid /\ \A u \in Threads \ {t} : hold'[u] = hold[u] /\ pc'[u] = pc[u]
    BY <1>2 DEF Decided
  <2>1. CASE kind.robust
    BY <2>1 DEF ShpidInv, Is
  <2>2. CASE ~ kind.robust
    <3>1. (hold'[t] > 0 \/ pc'[t] = "clear") <=> (hold[t] > 0 \/ pc[t] = "clear")
      BY <1>2, <2>2 DEF Decided
    <3> QED BY <2>0, <3>1 DEF ShpidInv, Is
  <2> QED BY <2>1, <2>2
<1>3. CASE \E u \in Users : Transfer(t, u)
  <2>0. PICK v \in Users : Transfer(t, v)
    BY <1>3
  <2>1. /\ UNCHANGED shpid /\ pid[v] = pid[t] /\ v \in Threads /\ hold[t] > 0 /\ hold'[v] > 0
        /\ \A u \in Threads : pc'[u] = pc[u] /\ (hold'[u] > 0 => u = v \/ (u # t /\ hold[u] > 0))
    BY <2>0 DEF Transfer, Users
  <2>2. \A u \in Threads : u # t => ~ (hold[u] > 0 \/ pc[u] = "clear")
    BY <2>1 DEF Keeps, KeepPCs
  <2>3. pc[t] # "clear"
    BY <2>0 DEF Transfer
  <2> QED BY <2>1, <2>2, <2>3 DEF ShpidInv, Is
<1>4. CASE (FirstPass(t) \/ Cas(t) \/ TryCas(t)) /\ UNCHANGED mutexVars
  <2>1. kind.robust
    <3>1. pc[t] \notin PlainPCs
      BY <1>4, PassStep DEF PlainPCs
    <3> QED BY <3>1 DEF Shape
  <2> QED BY <2>1 DEF ShpidInv, Is
<1>5. CASE (Look(t) \/ Wait(t) \/ SliceOver(t) \/ TryLook(t)) /\ UNCHANGED mutexVars
  <2>1. kind.robust
    <3>1. pc[t] \notin PlainPCs
      BY <1>5 DEF Look, Wait, SliceOver, TryLook, PlainPCs
    <3> QED BY <3>1 DEF Shape
  <2> QED BY <2>1 DEF ShpidInv, Is
<1>6. CASE (Expired(t) \/ Interrupted(t)) /\ UNCHANGED mutexVars
  <2>1. kind.robust
    <3>1. pc[t] \notin PlainPCs
      BY <1>6 DEF Expired, Interrupted, PlainPCs
    <3> QED BY <3>1 DEF Shape
  <2> QED BY <2>1 DEF ShpidInv, Is
<1>7. CASE Release(t) /\ UNCHANGED mutexVars
  <2>1. kind.robust
    <3>1. pc[t] \notin PlainPCs
      BY <1>7 DEF Release, PlainPCs
    <3> QED BY <3>1 DEF Shape
  <2> QED BY <2>1 DEF ShpidInv, Is
<1>8. CASE Take(t)
  <2>1. pc[t] = "take" /\ UNCHANGED shpid
    BY <1>8 DEF Take
  <2>2. \A u \in Threads \ {t} : hold'[u] = hold[u] /\ pc'[u] = pc[u]
    BY <1>8 DEF Take
  <2>3. pc'[t] # "clear" /\ (hold'[t] = hold[t] \/ Is("normal"))
    BY <1>8 DEF Take
  <2>4. ~ kind.robust /\ hold[t] = 0
    BY <2>1 DEF Shape, RobustPCs
  <2>5. Is("normal") => shpid = NoPid
    BY <2>4 DEF Shape
  <2> QED BY <2>1, <2>2, <2>3, <2>4, <2>5 DEF ShpidInv, Is
<1>9. CASE SetId(t) \/ SetPid(t)
  BY <1>9 DEF SetId, SetPid, Return, ShpidInv, Keeps, KeepPCs, Is, Shape
<1>10. CASE Clear(t) \/ ClearId(t) \/ Give(t)
  <2>1. Keeps(t) /\ ~ kind.robust
    <3>1. pc[t] \in {"clear", "clearid", "give"}
      BY <1>10 DEF Clear, ClearId, Give
    <3> QED BY <3>1 DEF Keeps, KeepPCs, Shape, RobustPCs
  <2>2. CASE ClearId(t)
    BY <2>2 DEF ClearId, ShpidInv, Is
  <2>3. CASE Clear(t)
    <3>1. shpid' = NoPid /\ \A u \in Threads : ~ (hold'[u] > 0 \/ pc'[u] = "clear")
      <4>1. pc[t] = "clear" /\ UNCHANGED hold
        BY <2>3 DEF Clear
      <4>2. \A u \in Threads : hold[u] = 0
        BY <2>1, <4>1 DEF Shape
      <4> QED BY <2>1, <2>3, <4>1, <4>2 DEF Clear, KeepPCs
    <3> QED BY <3>1 DEF ShpidInv, Is
  <2>4. CASE Give(t)
    <3>1. UNCHANGED shpid /\ \A u \in Threads : ~ (hold'[u] > 0 \/ pc'[u] = "clear")
      BY <2>1, <2>4 DEF Give, KeepPCs
    <3>2. shpid = NoPid
      <4>1. CASE Is("normal")
        BY <2>1, <4>1 DEF Shape
      <4>2. CASE ~ Is("normal")
        <5>1. \A u \in Threads : ~ (hold[u] > 0 \/ pc[u] = "clear")
          <6>1. pc[t] = "give"
            BY <2>4 DEF Give
          <6> QED BY <2>1, <4>2, <6>1 DEF KeepPCs, Shape
        <5> QED BY <2>1, <5>1 DEF ShpidInv, Is
      <4> QED BY <4>1, <4>2
    <3> QED BY <3>1, <3>2 DEF ShpidInv, Is
  <2> QED BY <1>10, <2>2, <2>3, <2>4
<1>11. CASE Recover(t)
  <2>1. kind.robust
    <3>1. pc[t] \notin PlainPCs
      BY <1>11 DEF Recover, Return, PlainPCs
    <3> QED BY <3>1 DEF Shape
  <2> QED BY <2>1 DEF ShpidInv, Is
<1>12. CASE ReadFlags(t) \/ SetFlag(t)
  <2>1. kind.robust
    <3>1. pc[t] \notin PlainPCs
      BY <1>12 DEF ReadFlags, SetFlag, Return, PlainPCs
    <3> QED BY <3>1 DEF Shape
  <2> QED BY <2>1 DEF ShpidInv, Is
<1>13. CASE Mark(t)
  <2>1. kind.robust
    <3>1. pc[t] \notin PlainPCs
      BY <1>13 DEF Mark, PlainPCs
    <3> QED BY <3>1 DEF Shape
  <2> QED BY <2>1 DEF ShpidInv, Is
<1>14. CASE Consistent(t) \/ Repair(t)
  <2>1. CASE Consistent(t)
    BY <2>1 DEF Consistent, ShpidInv, Is
  <2>2. CASE Repair(t)
    <3>1. kind.robust
      BY <2>2 DEF Repair, Shape, PlainPCs
    <3> QED BY <3>1 DEF ShpidInv
  <2> QED BY <1>14, <2>1, <2>2
<1> QED BY <1>1, <1>2, <1>3, <1>4, <1>5, <1>6, <1>7, <1>8, <1>9, <1>10, <1>11, <1>12, <1>13,
           <1>14 DEF Act, LockStep

\* __owner_id is written by the keeper of the word alone.
LEMMA OwnerIdStep ==
  ASSUME Inv, NEW t \in Users, Act(t), UNCHANGED kind
  PROVE  OwnerIdInv'
<1>0. t \in Threads /\ TypeInv /\ Shape /\ ValInv /\ WordInv /\ LookInv /\ DamageInv
      /\ OwnerIdInv /\ ShpidInv /\ CntInv
  BY DEF Users, Inv, OwnerInv
<1>n. /\ pid \in [Threads -> Pids] /\ NoPid \notin Pids
      /\ id \in [Threads -> Nat \ {0, NotRecoverable}] /\ NotRecoverable \in Nat \ {0}
      /\ \A a, b \in Threads : a # b /\ pid[a] = pid[b] => id[a] # id[b]
      /\ \A a \in Threads : Locking[a] \subseteq {"lock", "timed", "try"}
  BY MutexAssumption, PidAssumption
<1>f. /\ pc \in [Threads -> RobustPCs \cup PlainPCs] /\ hold \in [Threads -> Nat]
      /\ Keeps(t) => \A u \in Threads \ {t} : hold[u] = 0 /\ pc[u] \notin KeepPCs
  BY <1>0 DEF TypeInv, WordInv, Keeps
<1> USE <1>0, <1>n, <1>f DEF Goto, Move, lockVars, mutexVars
<1>1. CASE \E o \in Locking[t] \cup {"unlock"} : Enter(t, o)
  <2>1. \A u \in Threads : (hold'[u] > 0 \/ pc'[u] \in RecordPCs) <=> Recorded(u)
    BY <1>1 DEF Enter, Legal, Recorded, RecordPCs, Shape
  <2>2. \A u \in Threads : /\ pc'[u] \in {"got", "release"} => pc'[u] = pc[u]
                           /\ pc'[u] = "gotdead" <=> pc[u] = "gotdead"
    BY <1>1 DEF Enter, Legal
  <2>3. UNCHANGED <<alive, owner_id>> /\ word'.pid = word.pid
    BY <1>1 DEF Enter, Legal
  <2> QED BY <2>1, <2>2, <2>3 DEF OwnerIdInv, Recorded, RecordPCs, OwnerDied, Is
<1>2. CASE Decided(t)
  <2>1. \A u \in Threads : (hold'[u] > 0 \/ pc'[u] \in RecordPCs) <=> Recorded(u)
    BY <1>2 DEF Decided, Recorded, RecordPCs, Shape
  <2>2. \A u \in Threads : /\ pc'[u] \in {"got", "release"} => pc'[u] = pc[u]
                           /\ pc'[u] = "gotdead" <=> pc[u] = "gotdead"
    BY <1>2 DEF Decided
  <2>3. UNCHANGED <<alive, owner_id>> /\ word'.pid = word.pid
    BY <1>2 DEF Decided
  <2> QED BY <2>1, <2>2, <2>3 DEF OwnerIdInv, Recorded, RecordPCs, OwnerDied, Is
<1>3. CASE \E u \in Users : Transfer(t, u)
  <2>0. PICK v \in Users : Transfer(t, v)
    BY <1>3
  <2>1. /\ v \in Threads /\ hold[t] > 0 /\ UNCHANGED <<pc, word, alive>>
        /\ hold' = [hold EXCEPT ![t] = 0, ![v] = hold[t]] /\ t # v /\ pc[t] = "out"
    BY <2>0 DEF Transfer, Users
  <2>2. \A u \in Threads : u # v => hold'[u] = 0
    BY <2>1 DEF Keeps
  <2>3. \A u \in Threads : pc'[u] \notin KeepPCs
    BY <2>1 DEF Keeps, KeepPCs
  <2>4. hold'[v] > 0
    BY <2>1
  <2>5. CASE Is("normal") /\ ~ kind.robust
    <3>1. owner_id' = 0
      BY <2>0, <2>5 DEF Transfer, Shape
    <3> QED BY <2>2, <2>3, <2>5, <3>1 DEF OwnerIdInv, Recorded, RecordPCs, KeepPCs, Is
  <2>6. CASE ~ (Is("normal") /\ ~ kind.robust)
    <3>1. owner_id' = id[v]
      BY <2>0, <2>6 DEF Transfer
    <3> QED BY <2>1, <2>2, <2>3, <2>4, <3>1 DEF OwnerIdInv, Recorded, RecordPCs, KeepPCs
  <2> QED BY <2>5, <2>6
<1>4. CASE (FirstPass(t) \/ Cas(t) \/ TryCas(t)) /\ UNCHANGED mutexVars
  <2>0. UNCHANGED mutexVars
    BY <1>4
  <2>1. CASE pc'[t] \in {"look", "wait", "out"}
    <3>1. \A u \in Threads : (hold'[u] > 0 \/ pc'[u] \in RecordPCs) <=> Recorded(u)
      BY <1>4, <2>0, <2>1, PassStep DEF Recorded, RecordPCs
    <3>2. \A u \in Threads : /\ pc'[u] \in {"got", "release"} => pc'[u] = pc[u]
                             /\ pc'[u] = "gotdead" <=> pc[u] = "gotdead"
      BY <1>4, <2>1, PassStep
    <3>3. UNCHANGED <<alive, owner_id>> /\ word'.pid = word.pid
      BY <1>4, <2>1, PassStep
    <3> QED BY <3>1, <3>2, <3>3 DEF OwnerIdInv, Recorded, RecordPCs, OwnerDied, Is
  <2>2. CASE pc'[t] \in {"got", "gotdead"}
    <3>1. word = Free \/ OwnerDied(word)
      BY <1>4, <2>2, PassStep
    <3>2. \A u \in Threads : ~ Keeps(u)
      BY <3>1 DEF WordInv, Keeps, KeepPCs, Shape, OwnerDied, Free
    <3>3. \A u \in Threads : hold[u] = 0 /\ pc[u] \notin KeepPCs
      BY <3>2 DEF Keeps
    <3>4. \A u \in Threads : ~ Recorded(u)
      BY <3>3 DEF Recorded, RecordPCs, KeepPCs
    <3>5. \A u \in Threads : ~ (hold'[u] > 0 \/ pc'[u] \in RecordPCs)
      <4>1. \A u \in Threads \ {t} : pc'[u] = pc[u]
        BY <1>4, PassStep
      <4> QED BY <2>0, <2>2, <3>3, <4>1 DEF KeepPCs, RecordPCs
    <3>6. CASE pc'[t] = "got"
      <4>1. owner_id \in {0, NotRecoverable}
        <5>1. word = Free
          BY <1>4, <3>6, PassStep
        <5>2. ~ OwnerDied(word)
          BY <5>1 DEF OwnerDied, Free
        <5> QED BY <3>3, <3>4, <5>2 DEF OwnerIdInv, KeepPCs
      <4> QED BY <2>0, <3>5, <4>1 DEF OwnerIdInv, Recorded, RecordPCs
    <3>7. CASE pc'[t] = "gotdead"
      <4>1. \A u \in Threads : pc'[u] \notin {"got", "release"}
        BY <1>4, <3>3, <3>7, PassStep DEF KeepPCs
      <4> QED BY <3>5, <3>7, <4>1 DEF OwnerIdInv, Recorded, RecordPCs
    <3> QED BY <2>2, <3>6, <3>7
  <2> QED BY <1>4, <2>1, <2>2, PassStep
<1>5. CASE (Look(t) \/ Wait(t) \/ SliceOver(t) \/ TryLook(t)) /\ UNCHANGED mutexVars
  <2>1. \A u \in Threads : (hold'[u] > 0 \/ pc'[u] \in RecordPCs) <=> Recorded(u)
    BY <1>5 DEF Look, Wait, SliceOver, TryLook, Recorded, RecordPCs, Shape
  <2>2. \A u \in Threads : /\ pc'[u] \in {"got", "release"} => pc'[u] = pc[u]
                           /\ pc'[u] = "gotdead" <=> pc[u] = "gotdead"
    BY <1>5 DEF Look, Wait, SliceOver, TryLook
  <2>3. UNCHANGED <<alive, owner_id>> /\ word'.pid = word.pid
    BY <1>5 DEF Look, Wait, SliceOver, TryLook
  <2> QED BY <2>1, <2>2, <2>3 DEF OwnerIdInv, Recorded, RecordPCs, OwnerDied, Is
<1>6. CASE (Expired(t) \/ Interrupted(t)) /\ UNCHANGED mutexVars
  <2>1. \A u \in Threads : (hold'[u] > 0 \/ pc'[u] \in RecordPCs) <=> Recorded(u)
    BY <1>6 DEF Expired, Interrupted, Recorded, RecordPCs, Shape
  <2>2. \A u \in Threads : /\ pc'[u] \in {"got", "release"} => pc'[u] = pc[u]
                           /\ pc'[u] = "gotdead" <=> pc[u] = "gotdead"
    BY <1>6 DEF Expired, Interrupted
  <2>3. UNCHANGED <<alive, owner_id>> /\ word'.pid = word.pid
    BY <1>6 DEF Expired, Interrupted
  <2> QED BY <2>1, <2>2, <2>3 DEF OwnerIdInv, Recorded, RecordPCs, OwnerDied, Is
<1>7. CASE Release(t) /\ UNCHANGED mutexVars
  <2>1. pc[t] = "release" /\ UNCHANGED <<hold, owner_id>> /\ owner_id \in {0, NotRecoverable}
    BY <1>7 DEF Release, OwnerIdInv
  <2>2. \A u \in Threads : hold[u] = 0 /\ (u # t => pc[u] \notin KeepPCs)
    BY <2>1 DEF Keeps, KeepPCs, Shape
  <2>3. \A u \in Threads : pc'[u] \notin RecordPCs
    BY <1>7, <2>2 DEF Release, Sleepers, KeepPCs, RecordPCs
  <2> QED BY <2>1, <2>2, <2>3 DEF OwnerIdInv, Recorded, RecordPCs
<1>8. CASE Take(t)
  <2>0. UNCHANGED <<alive, owner_id>> /\ (word # Free => word' = word)
    BY <1>8 DEF Take
  <2>1. CASE word # Free
    <3>1. \A u \in Threads : (hold'[u] > 0 \/ pc'[u] \in RecordPCs) <=> Recorded(u)
      <4>1. pc[t] = "take" /\ pc'[t] = "out" /\ UNCHANGED hold
        BY <1>8, <2>1 DEF Take
      <4>2. \A u \in Threads \ {t} : pc'[u] = pc[u]
        BY <1>8 DEF Take
      <4> QED BY <4>1, <4>2 DEF Recorded, RecordPCs
    <3>2. \A u \in Threads : /\ pc'[u] \in {"got", "release"} => pc'[u] = pc[u]
                             /\ pc'[u] = "gotdead" <=> pc[u] = "gotdead"
      BY <1>8, <2>1 DEF Take
    <3>3. UNCHANGED <<alive, owner_id>> /\ word'.pid = word.pid
      BY <1>8, <2>1 DEF Take
    <3> QED BY <3>1, <3>2, <3>3 DEF OwnerIdInv, Recorded, RecordPCs, OwnerDied, Is
  <2>2. CASE word = Free
    <3>1. \A u \in Threads : ~ Keeps(u)
      BY <2>2 DEF WordInv, Free
    <3>2. owner_id \in {0, NotRecoverable}
      BY <2>2, <3>1 DEF OwnerIdInv, OwnerDied, Free, Recorded, RecordPCs, Keeps, KeepPCs
    <3>3. \A u \in Threads : hold[u] = 0 /\ pc[u] \notin KeepPCs
      BY <3>1 DEF Keeps
    <3>4. \A u \in Threads : /\ pc'[u] \notin RecordPCs
                             /\ hold'[u] > 0 => Is("normal") /\ ~ kind.robust
      <4>1. pc[t] = "take" /\ \A u \in Threads \ {t} : pc'[u] = pc[u] /\ hold'[u] = hold[u]
        BY <1>8 DEF Take
      <4>2. ~ kind.robust
        BY <4>1 DEF Shape, RobustPCs
      <4>3. pc'[t] \in {"out", "setid"} /\ (hold'[t] = hold[t] \/ Is("normal"))
        BY <1>8 DEF Take
      <4> QED BY <3>3, <4>1, <4>2, <4>3 DEF KeepPCs, RecordPCs
    <3> QED BY <2>0, <3>2, <3>4 DEF OwnerIdInv, Recorded, RecordPCs, Is
  <2> QED BY <2>1, <2>2
<1>9. CASE SetId(t) \/ SetPid(t)
  <2>1. CASE SetId(t)
    <3>1. pc[t] = "setid" /\ owner_id' = id[t] /\ pc'[t] \in {"setpid", "out"}
      BY <2>1 DEF SetId, Return
    <3>2. \A u \in Threads \ {t} : hold'[u] = 0 /\ pc'[u] \notin KeepPCs
      BY <2>1, <3>1 DEF SetId, Return, Keeps, KeepPCs
    <3>3. Recorded(t)'
      <4>1. CASE kind.shared
        BY <2>1, <4>1 DEF SetId, Recorded, RecordPCs
      <4>2. CASE ~ kind.shared
        BY <2>1, <4>2 DEF SetId, Return, Recorded, RecordPCs
      <4> QED BY <4>1, <4>2
    <3> QED BY <3>1, <3>2, <3>3 DEF OwnerIdInv, Recorded, RecordPCs, KeepPCs
  <2>2. CASE SetPid(t)
    <3>1. \A u \in Threads : (hold'[u] > 0 \/ pc'[u] \in RecordPCs) <=> Recorded(u)
      BY <2>2 DEF SetPid, Return, Recorded, RecordPCs, Shape
    <3>2. \A u \in Threads : /\ pc'[u] \in {"got", "release"} => pc'[u] = pc[u]
                             /\ pc'[u] = "gotdead" <=> pc[u] = "gotdead"
      BY <2>2 DEF SetPid, Return
    <3>3. UNCHANGED <<alive, owner_id>> /\ word'.pid = word.pid
      BY <2>2 DEF SetPid, Return
    <3> QED BY <3>1, <3>2, <3>3 DEF OwnerIdInv, Recorded, RecordPCs, OwnerDied, Is
  <2> QED BY <1>9, <2>1, <2>2
<1>10. CASE Clear(t) \/ ClearId(t) \/ Give(t)
  <2>1. CASE Clear(t)
    <3>1. \A u \in Threads : (hold'[u] > 0 \/ pc'[u] \in RecordPCs) <=> Recorded(u)
      BY <2>1 DEF Clear, Recorded, RecordPCs, Shape
    <3>2. \A u \in Threads : /\ pc'[u] \in {"got", "release"} => pc'[u] = pc[u]
                             /\ pc'[u] = "gotdead" <=> pc[u] = "gotdead"
      BY <2>1 DEF Clear
    <3>3. UNCHANGED <<alive, owner_id>> /\ word'.pid = word.pid
      BY <2>1 DEF Clear
    <3> QED BY <3>1, <3>2, <3>3 DEF OwnerIdInv, Recorded, RecordPCs, OwnerDied, Is
  <2>2. CASE ClearId(t) \/ Give(t)
    <3>1. /\ pc[t] \in {"clearid", "give"}
          /\ pc' = [pc EXCEPT ![t] = IF pc[t] = "clearid" THEN "give" ELSE "out"]
      BY <2>2 DEF ClearId, Give
    <3>2. \A u \in Threads \ {t} : hold[u] = 0 /\ pc[u] \notin KeepPCs
      BY <3>1 DEF Keeps, KeepPCs
    <3>3. pc[t] = "clearid" => hold[t] = 0 /\ owner_id' = 0 /\ UNCHANGED hold
      BY <2>2, <3>1 DEF ClearId, Give, Shape
    <3>4. pc[t] = "give" => /\ hold'[t] = 0 /\ UNCHANGED owner_id
                            /\ \A u \in Threads \ {t} : hold'[u] = hold[u]
      BY <2>2, <3>1 DEF ClearId, Give
    <3>5. pc[t] = "give" => owner_id \in {0, NotRecoverable}
      <4>1. CASE Is("normal")
        BY <3>1, <4>1 DEF Shape, RobustPCs
      <4>2. CASE pc[t] = "give" /\ ~ Is("normal")
        <5>1. hold[t] = 0 /\ ~ kind.robust /\ alive = Pids
          BY <4>2 DEF Shape, RobustPCs
        <5> QED BY <3>2, <4>2, <5>1 DEF OwnerIdInv, Recorded, RecordPCs, OwnerDied, KeepPCs
      <4> QED BY <4>1, <4>2
    <3>6. \A u \in Threads : hold'[u] = 0 /\ pc'[u] \notin KeepPCs \ {"give"}
      BY <3>1, <3>2, <3>3, <3>4 DEF KeepPCs
    <3> QED BY <3>1, <3>3, <3>4, <3>5, <3>6 DEF OwnerIdInv, Recorded, RecordPCs, KeepPCs
  <2> QED BY <1>10, <2>1, <2>2
<1>11. CASE Recover(t)
  <2>0. pc[t] \in {"got", "gotdead"} /\ UNCHANGED <<alive, word>>
    BY <1>11 DEF Recover, Return
  <2>2. \A u \in Threads \ {t} : hold[u] = 0 /\ pc[u] \notin KeepPCs
    BY <2>0 DEF Keeps, KeepPCs
  <2>3. hold[t] = 0
    BY <2>0 DEF Shape
  <2>4. CASE owner_id = NotRecoverable
    <3>1. \A u \in Threads : hold'[u] = 0 /\ pc'[u] \notin KeepPCs
      BY <1>11, <2>0, <2>2, <2>3, <2>4 DEF Recover, KeepPCs
    <3>2. UNCHANGED owner_id
      BY <1>11, <2>4 DEF Recover
    <3> QED BY <2>4, <3>1, <3>2 DEF OwnerIdInv, Recorded, RecordPCs, KeepPCs
  <2>5. CASE owner_id # NotRecoverable
    <3>1. owner_id' = id[t] /\ pc'[t] \in {"out", "flag"} /\ (pc'[t] = "out" => hold'[t] = 1)
      BY <1>11, <2>5 DEF Recover, Return
    <3>2. \A u \in Threads \ {t} : hold'[u] = 0 /\ pc'[u] \notin KeepPCs
      BY <1>11, <2>2, <2>5 DEF Recover, Return
    <3> QED BY <3>1, <3>2 DEF OwnerIdInv, Recorded, RecordPCs, KeepPCs
  <2> QED BY <2>4, <2>5
<1>12. CASE ReadFlags(t) \/ SetFlag(t)
  <2>1. \A u \in Threads : (hold'[u] > 0 \/ pc'[u] \in RecordPCs) <=> Recorded(u)
    BY <1>12 DEF ReadFlags, SetFlag, Return, Recorded, RecordPCs, Shape
  <2>2. \A u \in Threads : /\ pc'[u] \in {"got", "release"} => pc'[u] = pc[u]
                           /\ pc'[u] = "gotdead" <=> pc[u] = "gotdead"
    BY <1>12 DEF ReadFlags, SetFlag, Return
  <2>3. UNCHANGED <<alive, owner_id>>
    BY <1>12 DEF ReadFlags, SetFlag, Return
  <2>4. pc[t] \in {"flag", "setflag"}
    BY <1>12 DEF ReadFlags, SetFlag, Return
  <2>5. Recorded(t)
    BY <2>4 DEF Recorded, RecordPCs
  <2>6. owner_id = id[t]
    BY <2>4, <2>5 DEF OwnerIdInv, Shape, PlainPCs
  <2> QED BY <2>1, <2>2, <2>3, <2>5, <2>6 DEF OwnerIdInv, Recorded, RecordPCs, Is
<1>13. CASE Mark(t)
  <2>1. pc[t] = "mark" /\ owner_id' \in {0, NotRecoverable} /\ pc' = [pc EXCEPT ![t] = "release"]
    BY <1>13 DEF Mark
  <2>2. \A u \in Threads : hold[u] = 0 /\ (u # t => pc[u] \notin KeepPCs)
    BY <2>1 DEF Keeps, KeepPCs, Shape
  <2>3. \A u \in Threads : hold'[u] = 0 /\ (u # t => pc'[u] \notin KeepPCs)
    BY <1>13, <2>1, <2>2 DEF Mark
  <2> QED BY <2>1, <2>3 DEF OwnerIdInv, Recorded, RecordPCs, KeepPCs
<1>14. CASE Consistent(t) \/ Repair(t)
  <2>1. hold[t] = 1 /\ UNCHANGED hold /\ pc'[t] \in {"out", "repair"}
    BY <1>14 DEF Consistent, Repair, Shape
  <2>2. \A u \in Threads \ {t} : hold'[u] = 0 /\ pc'[u] \notin KeepPCs
    <3>1. \A u \in Threads \ {t} : hold'[u] = hold[u] /\ pc'[u] = pc[u]
      BY <1>14, <2>1 DEF Consistent, Repair
    <3> QED BY <2>1, <3>1 DEF Keeps
  <2>3. owner_id' = id[t]
    <3>1. kind.robust
      BY <1>14 DEF Consistent, Repair, Shape, PlainPCs
    <3>2. owner_id = id[t]
      BY <2>1, <3>1 DEF OwnerIdInv, Recorded, RecordPCs
    <3> QED BY <1>14, <3>2 DEF Consistent, Repair
  <2> QED BY <2>1, <2>2, <2>3 DEF OwnerIdInv, Recorded, RecordPCs, KeepPCs
<1> QED BY <1>1, <1>2, <1>3, <1>4, <1>5, <1>6, <1>7, <1>8, <1>9, <1>10, <1>11, <1>12, <1>13,
           <1>14 DEF Act, LockStep

\* The fields keep their types.
LEMMA TypeStep ==
  ASSUME Inv, NEW t \in Users, Act(t), UNCHANGED kind, stale' \subseteq Threads
  PROVE  TypeInv'
<1>0. t \in Threads /\ TypeInv /\ Shape /\ ValInv /\ WordInv /\ LookInv /\ DamageInv
      /\ OwnerIdInv /\ ShpidInv /\ CntInv
  BY DEF Users, Inv, OwnerInv
<1>n. /\ pid \in [Threads -> Pids] /\ NoPid \notin Pids
      /\ id \in [Threads -> Nat \ {0, NotRecoverable}] /\ NotRecoverable \in Nat \ {0}
      /\ \A a, b \in Threads : a # b /\ pid[a] = pid[b] => id[a] # id[b]
      /\ \A a \in Threads : Locking[a] \subseteq {"lock", "timed", "try"}
  BY MutexAssumption, PidAssumption
<1>f. /\ pc \in [Threads -> RobustPCs \cup PlainPCs] /\ hold \in [Threads -> Nat]
      /\ Keeps(t) => \A u \in Threads \ {t} : hold[u] = 0 /\ pc[u] \notin KeepPCs
  BY <1>0 DEF TypeInv, WordInv, Keeps
<1>s. SUFFICES /\ word' \in Words /\ val' \in [Threads -> Words] /\ alive' = alive
               /\ pc' \in [Threads -> RobustPCs \cup PlainPCs]
               /\ op' \in [Threads -> {"lock", "timed", "try", "unlock"}]
               /\ shpid' \in Pids \cup {NoPid} /\ cnt' \in Nat /\ owner_id' \in Nat
               /\ hold' \in [Threads -> Nat]
  BY <1>0 DEF TypeInv
<1>w. /\ Free \in Words /\ Taken(t, TRUE) \in Words /\ Taken(t, FALSE) \in Words
      /\ \A w \in Words : /\ [w EXCEPT !.waiters = TRUE] \in Words
                          /\ [w EXCEPT !.dead = TRUE] \in Words
  BY <1>0, <1>n DEF Words, Free, Taken
<1>t. /\ alive \subseteq Pids /\ word \in Words /\ val \in [Threads -> Words]
      /\ op \in [Threads -> {"lock", "timed", "try", "unlock"}]
      /\ shpid \in Pids \cup {NoPid} /\ cnt \in Nat /\ owner_id \in Nat
  BY <1>0 DEF TypeInv
<1> USE <1>w, <1>t DEF RobustPCs, PlainPCs
<1> USE <1>0, <1>n, <1>f DEF Goto, Move, lockVars, mutexVars
<1>1. CASE \E o \in Locking[t] \cup {"unlock"} : Enter(t, o)
  BY <1>1 DEF Enter, Legal
<1>2. CASE Decided(t)
  BY <1>2 DEF Decided
<1>3. CASE \E u \in Users : Transfer(t, u)
  <2>1. word' \in Words /\ val' \in [Threads -> Words]
    BY <1>3 DEF Transfer, Users
  <2>2. alive' = alive /\ pc' \in [Threads -> RobustPCs \cup PlainPCs] /\ UNCHANGED op
    BY <1>3 DEF Transfer, Users
  <2>3. hold' \in [Threads -> Nat] /\ shpid' \in Pids \cup {NoPid}
    BY <1>3 DEF Transfer, Users
  <2>4. cnt' \in Nat /\ owner_id' \in Nat
    <3>1. PICK v \in Threads : Transfer(t, v)
      BY <1>3 DEF Users
    <3>2. UNCHANGED cnt /\ owner_id' \in {owner_id, id[v]}
      BY <3>1 DEF Transfer
    <3> QED BY <3>2
  <2> QED BY <2>1, <2>2, <2>3, <2>4
<1>4. CASE (FirstPass(t) \/ Cas(t) \/ TryCas(t)) /\ UNCHANGED mutexVars
  <2>1. word' \in Words
    <3>1. \/ word' \in {word, Taken(t, FALSE), Taken(t, TRUE)}
          \/ word' = [word EXCEPT !.waiters = TRUE]
      BY <1>4 DEF FirstPass, Cas, TryCas
    <3> QED BY <3>1
  <2>2. val' \in [Threads -> Words]
    BY <1>4 DEF FirstPass, Cas, TryCas
  <2>3. alive' = alive /\ pc' \in [Threads -> RobustPCs \cup PlainPCs] /\ UNCHANGED op
    BY <1>4 DEF FirstPass, Cas, TryCas
  <2>4. hold' \in [Threads -> Nat] /\ shpid' \in Pids \cup {NoPid}
    BY <1>4 DEF FirstPass, Cas, TryCas
  <2>5. cnt' \in Nat /\ owner_id' \in Nat
    BY <1>4 DEF FirstPass, Cas, TryCas
  <2> QED BY <2>1, <2>2, <2>3, <2>4, <2>5
<1>5. CASE (Look(t) \/ Wait(t) \/ SliceOver(t) \/ TryLook(t)) /\ UNCHANGED mutexVars
  BY <1>5 DEF Look, Wait, SliceOver, TryLook
<1>6. CASE (Expired(t) \/ Interrupted(t)) /\ UNCHANGED mutexVars
  BY <1>6 DEF Expired, Interrupted
<1>7. CASE Release(t) /\ UNCHANGED mutexVars
  BY <1>7 DEF Release, Sleepers
<1>8. CASE Take(t)
  <2>1. word' \in Words
    <3>1. word' = word \/ word' = Taken(t, FALSE)
      BY <1>8 DEF Take
    <3> QED BY <3>1
  <2>2. val' \in [Threads -> Words]
    <3>1. val' = [val EXCEPT ![t] = Free]
      BY <1>8 DEF Take
    <3> QED BY <3>1
  <2>3. alive' = alive /\ pc' \in [Threads -> RobustPCs \cup PlainPCs] /\ UNCHANGED op
    BY <1>8 DEF Take
  <2>4. hold' \in [Threads -> Nat] /\ shpid' \in Pids \cup {NoPid}
    <3>1. (hold' = hold \/ hold' = [hold EXCEPT ![t] = 1]) /\ UNCHANGED shpid
      BY <1>8 DEF Take
    <3> QED BY <3>1
  <2>5. cnt' \in Nat /\ owner_id' \in Nat
    BY <1>8 DEF Take
  <2> QED BY <2>1, <2>2, <2>3, <2>4, <2>5
<1>9. CASE SetId(t) \/ SetPid(t)
  BY <1>9 DEF SetId, SetPid, Return
<1>10. CASE Clear(t) \/ ClearId(t) \/ Give(t)
  BY <1>10 DEF Clear, ClearId, Give
<1>11. CASE Recover(t)
  BY <1>11 DEF Recover, Return
<1>12. CASE ReadFlags(t) \/ SetFlag(t)
  <2>1. word' \in Words
    <3>1. word' = word \/ word' = [val[t] EXCEPT !.dead = TRUE]
      BY <1>12 DEF ReadFlags, SetFlag
    <3>2. val[t] \in Words
      OBVIOUS
    <3> QED BY <3>1, <3>2
  <2>2. val' \in [Threads -> Words]
    BY <1>12 DEF ReadFlags, SetFlag, Return
  <2>3. alive' = alive /\ pc' \in [Threads -> RobustPCs \cup PlainPCs] /\ UNCHANGED op
    BY <1>12 DEF ReadFlags, SetFlag, Return
  <2>4. hold' \in [Threads -> Nat] /\ shpid' \in Pids \cup {NoPid}
    BY <1>12 DEF ReadFlags, SetFlag, Return
  <2>5. cnt' \in Nat /\ owner_id' \in Nat
    BY <1>12 DEF ReadFlags, SetFlag, Return
  <2> QED BY <2>1, <2>2, <2>3, <2>4, <2>5
<1>13. CASE Mark(t)
  BY <1>13 DEF Mark
<1>14. CASE Consistent(t) \/ Repair(t)
  <2>1. word' \in Words
    <3>1. word' = word \/ word' = Taken(t, TRUE)
      BY <1>14 DEF Consistent, Repair
    <3> QED BY <3>1
  <2>2. val' \in [Threads -> Words]
    <3>1. val' = [val EXCEPT ![t] = Free] \/ val' = [val EXCEPT ![t] = word]
      BY <1>14 DEF Consistent, Repair
    <3> QED BY <3>1
  <2>3. alive' = alive /\ pc' \in [Threads -> RobustPCs \cup PlainPCs] /\ UNCHANGED op
    BY <1>14 DEF Consistent, Repair
  <2>4. hold' \in [Threads -> Nat] /\ shpid' \in Pids \cup {NoPid}
    BY <1>14 DEF Consistent, Repair
  <2>5. cnt' \in Nat /\ owner_id' \in Nat
    <3>1. cnt' \in {cnt, 1} /\ owner_id' \in {owner_id, id[t]}
      BY <1>14 DEF Consistent, Repair
    <3> QED BY <3>1
  <2> QED BY <2>1, <2>2, <2>3, <2>4, <2>5
<1> QED BY <1>1, <1>2, <1>3, <1>4, <1>5, <1>6, <1>7, <1>8, <1>9, <1>10, <1>11, <1>12, <1>13,
           <1>14 DEF Act, LockStep

\* A write to the owner makes the looks at it stale.
LEMMA LookStep ==
  ASSUME Inv, NEW t \in Users, Act(t), UNCHANGED kind, History
  PROVE  LookInv'
<1>0. t \in Threads /\ TypeInv /\ Shape /\ ValInv /\ WordInv /\ LookInv /\ DamageInv
      /\ OwnerIdInv /\ ShpidInv /\ CntInv
  BY DEF Users, Inv, OwnerInv
<1>n. /\ pid \in [Threads -> Pids] /\ NoPid \notin Pids
      /\ id \in [Threads -> Nat \ {0, NotRecoverable}] /\ NotRecoverable \in Nat \ {0}
      /\ \A a, b \in Threads : a # b /\ pid[a] = pid[b] => id[a] # id[b]
      /\ \A a \in Threads : Locking[a] \subseteq {"lock", "timed", "try"}
  BY MutexAssumption, PidAssumption
<1>f. /\ pc \in [Threads -> RobustPCs \cup PlainPCs] /\ hold \in [Threads -> Nat]
      /\ Keeps(t) => \A u \in Threads \ {t} : hold[u] = 0 /\ pc[u] \notin KeepPCs
  BY <1>0 DEF TypeInv, WordInv, Keeps
<1>s. SUFFICES \A u \in Threads : pc'[u] = "pid" => (pc[u] = "pid" \/ owner_id' = id[u])
  BY <1>0 DEF History, LookInv
<1> USE <1>0, <1>n, <1>f DEF Goto, Move, lockVars, mutexVars
<1>1. CASE \E o \in Locking[t] \cup {"unlock"} : Enter(t, o)
  BY <1>1 DEF Enter, Legal
<1>2. CASE Decided(t)
  BY <1>2 DEF Decided
<1>3. CASE \E u \in Users : Transfer(t, u)
  BY <1>3 DEF Transfer
<1>4. CASE (FirstPass(t) \/ Cas(t) \/ TryCas(t)) /\ UNCHANGED mutexVars
  BY <1>4 DEF FirstPass, Cas, TryCas
<1>5. CASE (Look(t) \/ Wait(t) \/ SliceOver(t) \/ TryLook(t)) /\ UNCHANGED mutexVars
  BY <1>5 DEF Look, Wait, SliceOver, TryLook
<1>6. CASE (Expired(t) \/ Interrupted(t)) /\ UNCHANGED mutexVars
  BY <1>6 DEF Expired, Interrupted
<1>7. CASE Release(t) /\ UNCHANGED mutexVars
  BY <1>7 DEF Release, Sleepers
<1>8. CASE Take(t)
  BY <1>8 DEF Take
<1>9. CASE SetId(t) \/ SetPid(t)
  BY <1>9 DEF SetId, SetPid, Return
<1>10. CASE Clear(t) \/ ClearId(t) \/ Give(t)
  BY <1>10 DEF Clear, ClearId, Give
<1>11. CASE Recover(t)
  BY <1>11 DEF Recover, Return
<1>12. CASE ReadFlags(t) \/ SetFlag(t)
  BY <1>12 DEF ReadFlags, SetFlag, Return
<1>13. CASE Mark(t)
  BY <1>13 DEF Mark
<1>14. CASE Consistent(t) \/ Repair(t)
  BY <1>14 DEF Consistent, Repair
<1> QED BY <1>1, <1>2, <1>3, <1>4, <1>5, <1>6, <1>7, <1>8, <1>9, <1>10, <1>11, <1>12, <1>13,
           <1>14 DEF Act, LockStep

\* What says that the mutex is damaged is taken over before it is dropped.
LEMMA DamageStep ==
  ASSUME Inv, NEW t \in Users, Act(t), UNCHANGED kind
  PROVE  DamageInv'
<1>0. t \in Threads /\ TypeInv /\ Shape /\ ValInv /\ WordInv /\ LookInv /\ DamageInv
      /\ OwnerIdInv /\ ShpidInv /\ CntInv
  BY DEF Users, Inv, OwnerInv
<1>n. /\ pid \in [Threads -> Pids] /\ NoPid \notin Pids
      /\ id \in [Threads -> Nat \ {0, NotRecoverable}] /\ NotRecoverable \in Nat \ {0}
      /\ \A a, b \in Threads : a # b /\ pid[a] = pid[b] => id[a] # id[b]
      /\ \A a \in Threads : Locking[a] \subseteq {"lock", "timed", "try"}
  BY MutexAssumption, PidAssumption
<1>f. /\ pc \in [Threads -> RobustPCs \cup PlainPCs] /\ hold \in [Threads -> Nat]
      /\ Keeps(t) => \A u \in Threads \ {t} : hold[u] = 0 /\ pc[u] \notin KeepPCs
  BY <1>0 DEF TypeInv, WordInv, Keeps
<1> USE <1>0, <1>n, <1>f DEF Goto, Move, lockVars, mutexVars, TakenOver
<1>1. CASE \E o \in Locking[t] \cup {"unlock"} : Enter(t, o)
  <2>1. UNCHANGED <<damaged, owner_id, alive>> /\ word'.pid = word.pid /\ word'.dead = word.dead
    BY <1>1 DEF Enter, Legal
  <2>2. \A u \in Threads : /\ pc'[u] \in {"got", "release"} => pc'[u] = pc[u]
                           /\ pc[u] \in TakenOver => pc'[u] \in TakenOver
    BY <1>1 DEF Enter, Legal
  <2> QED BY <2>1, <2>2 DEF DamageInv, OwnerDied
<1>2. CASE Decided(t)
  <2>1. UNCHANGED <<damaged, owner_id, alive>> /\ word'.pid = word.pid /\ word'.dead = word.dead
    BY <1>2 DEF Decided
  <2>2. \A u \in Threads : /\ pc'[u] \in {"got", "release"} => pc'[u] = pc[u]
                           /\ pc[u] \in TakenOver => pc'[u] \in TakenOver
    BY <1>2 DEF Decided
  <2> QED BY <2>1, <2>2 DEF DamageInv, OwnerDied
<1>3. CASE \E u \in Users : Transfer(t, u)
  <2>0. PICK v \in Users : Transfer(t, v)
    BY <1>3
  <2>1. UNCHANGED <<damaged, word, alive, pc>> /\ hold[t] > 0
    BY <2>0 DEF Transfer
  <2>2. \A u \in Threads : pc[u] \notin {"got", "release"}
    BY <2>0, <2>1 DEF Transfer, Keeps, KeepPCs
  <2>3. kind.robust => owner_id # NotRecoverable
    BY <2>1 DEF OwnerIdInv, Recorded, RecordPCs
  <2> QED BY <2>1, <2>2, <2>3 DEF DamageInv, OwnerDied
<1>4. CASE (FirstPass(t) \/ Cas(t) \/ TryCas(t)) /\ UNCHANGED mutexVars
  <2>0. UNCHANGED mutexVars /\ UNCHANGED <<damaged, owner_id>> /\ alive' = alive
    BY <1>4, PassStep
  <2>1. \A u \in Threads \ {t} : pc'[u] = pc[u]
    BY <1>4, PassStep
  <2>2. pc[t] \in {"first", "cas", "trycas"}
    BY <1>4, PassStep
  <2>3. CASE pc'[t] \in {"look", "wait", "out"}
    <3>1. word'.pid = word.pid /\ (word.dead => word'.dead)
      BY <1>4, <2>3, PassStep
    <3> QED BY <2>0, <2>1, <2>2, <2>3, <3>1 DEF DamageInv, OwnerDied
  <2>4. CASE pc'[t] \in {"got", "gotdead"}
    <3>1. word = Free \/ OwnerDied(word)
      BY <1>4, <2>4, PassStep
    <3>2. \A u \in Threads : ~ Keeps(u)
      BY <3>1 DEF WordInv, Keeps, KeepPCs, Shape, OwnerDied, Free
    <3>3. \A u \in Threads : pc[u] \notin KeepPCs
      BY <3>2 DEF Keeps
    <3>4. CASE pc'[t] = "gotdead"
      BY <2>0, <2>1, <3>3, <3>4 DEF DamageInv, KeepPCs
    <3>5. CASE pc'[t] = "got"
      <4>1. word = Free
        BY <1>4, <3>5, PassStep
      <4>2. ~ word.dead /\ ~ OwnerDied(word)
        BY <4>1 DEF Free, OwnerDied
      <4>3. damaged => kind.robust /\ owner_id = NotRecoverable
        BY <3>3, <4>2 DEF DamageInv, KeepPCs
      <4> QED BY <2>0, <4>3 DEF DamageInv
    <3> QED BY <2>4, <3>4, <3>5
  <2> QED BY <1>4, <2>3, <2>4, PassStep
<1>5. CASE (Look(t) \/ Wait(t) \/ SliceOver(t) \/ TryLook(t)) /\ UNCHANGED mutexVars
  <2>1. UNCHANGED <<damaged, owner_id, alive>> /\ word'.pid = word.pid /\ word'.dead = word.dead
    BY <1>5 DEF Look, Wait, SliceOver, TryLook
  <2>2. \A u \in Threads : /\ pc'[u] \in {"got", "release"} => pc'[u] = pc[u]
                           /\ pc[u] \in TakenOver => pc'[u] \in TakenOver
    BY <1>5 DEF Look, Wait, SliceOver, TryLook
  <2> QED BY <2>1, <2>2 DEF DamageInv, OwnerDied
<1>6. CASE (Expired(t) \/ Interrupted(t)) /\ UNCHANGED mutexVars
  <2>1. UNCHANGED <<damaged, owner_id, alive>> /\ word'.pid = word.pid /\ word'.dead = word.dead
    BY <1>6 DEF Expired, Interrupted
  <2>2. \A u \in Threads : /\ pc'[u] \in {"got", "release"} => pc'[u] = pc[u]
                           /\ pc[u] \in TakenOver => pc'[u] \in TakenOver
    BY <1>6 DEF Expired, Interrupted
  <2> QED BY <2>1, <2>2 DEF DamageInv, OwnerDied
<1>7. CASE Release(t) /\ UNCHANGED mutexVars
  <2>1. UNCHANGED <<damaged, owner_id>> /\ pc[t] = "release"
    BY <1>7 DEF Release
  <2> QED BY <2>1 DEF DamageInv
<1>8. CASE Take(t)
  <2>1. ~ kind.robust
    <3>1. pc[t] \in {"take"}
      BY <1>8 DEF Take
    <3> QED BY <3>1 DEF Shape, RobustPCs
  <2>2. UNCHANGED damaged
    BY <1>8 DEF Take
  <2> QED BY <2>1, <2>2 DEF DamageInv
<1>9. CASE SetId(t) \/ SetPid(t)
  <2>1. ~ kind.robust
    <3>1. pc[t] \in {"setid", "setpid"}
      BY <1>9 DEF SetId, SetPid, Return
    <3> QED BY <3>1 DEF Shape, RobustPCs
  <2>2. UNCHANGED damaged
    BY <1>9 DEF SetId, SetPid, Return
  <2> QED BY <2>1, <2>2 DEF DamageInv
<1>10. CASE Clear(t) \/ ClearId(t) \/ Give(t)
  <2>1. ~ kind.robust
    <3>1. pc[t] \in {"clear", "clearid", "give"}
      BY <1>10 DEF Clear, ClearId, Give
    <3> QED BY <3>1 DEF Shape, RobustPCs
  <2>2. UNCHANGED damaged
    BY <1>10 DEF Clear, ClearId, Give
  <2> QED BY <2>1, <2>2 DEF DamageInv
<1>11. CASE Recover(t)
  <2>1. UNCHANGED <<damaged, word, alive>> /\ pc[t] \in {"got", "gotdead"}
    BY <1>11 DEF Recover, Return
  <2>2. CASE owner_id = NotRecoverable
    <3>1. UNCHANGED owner_id
      BY <1>11, <2>2 DEF Recover
    <3> QED BY <2>1, <2>2, <3>1 DEF DamageInv
  <2>3. CASE owner_id # NotRecoverable /\ damaged
    <3>1. pc[t] = "gotdead"
      BY <2>1, <2>3 DEF DamageInv
    <3>2. pc'[t] = "flag" /\ \A u \in Threads \ {t} : pc'[u] = pc[u]
      BY <1>11, <2>3, <3>1 DEF Recover, Return
    <3>3. \A u \in Threads : pc'[u] \notin {"got", "release"}
      BY <3>1, <3>2 DEF Keeps, KeepPCs
    <3> QED BY <2>1, <2>3, <3>2, <3>3 DEF DamageInv
  <2> QED BY <2>1, <2>2, <2>3 DEF DamageInv
<1>12. CASE ReadFlags(t) \/ SetFlag(t)
  <2>1. UNCHANGED <<damaged, owner_id, alive>> /\ pc[t] \in {"flag", "setflag"}
    BY <1>12 DEF ReadFlags, SetFlag, Return
  <2>2. /\ \A u \in Threads \ {t} : pc'[u] = pc[u]
        /\ pc'[t] \in {"setflag", "out"}
    BY <1>12 DEF ReadFlags, SetFlag, Return
  <2>3. \A u \in Threads : pc'[u] \notin {"got", "release"}
    BY <2>1, <2>2 DEF Keeps, KeepPCs
  <2>4. pc'[t] = "setflag" \/ word'.dead
    <3>1. CASE ReadFlags(t)
      BY <3>1 DEF ReadFlags
    <3>2. CASE SetFlag(t)
      <4>1. word' = [val[t] EXCEPT !.dead = TRUE] /\ val[t] \in Words
        BY <3>2 DEF SetFlag, TypeInv
      <4> QED BY <4>1 DEF Words
    <3> QED BY <1>12, <3>1, <3>2
  <2> QED BY <2>1, <2>2, <2>3, <2>4 DEF DamageInv
<1>13. CASE Mark(t)
  <2>1. /\ UNCHANGED <<damaged, word, alive>> /\ pc[t] = "mark"
        /\ owner_id' = IF word.dead THEN NotRecoverable ELSE 0
    BY <1>13 DEF Mark
  <2>2. CASE damaged
    <3>1. kind.robust /\ Recorded(t) /\ Keeps(t)
      BY <2>1, <2>2 DEF DamageInv, Recorded, RecordPCs, Keeps, KeepPCs
    <3>2. owner_id = id[t]
      BY <3>1 DEF OwnerIdInv
    <3>3. ~ OwnerDied(word)
      BY <2>1, <3>1 DEF WordInv, Shape, OwnerDied
    <3>4. \A u \in Threads : pc[u] \notin TakenOver
      BY <2>1, <3>1 DEF KeepPCs
    <3>5. owner_id' = NotRecoverable
      BY <2>1, <2>2, <3>2, <3>3, <3>4 DEF DamageInv
    <3> QED BY <3>1, <3>5 DEF DamageInv
  <2> QED BY <2>1, <2>2 DEF DamageInv
<1>14. CASE Consistent(t) \/ Repair(t)
  <2>1. CASE Consistent(t)
    <3>1. UNCHANGED <<damaged, owner_id, alive>> /\ word'.pid = word.pid /\ word'.dead = word.dead
      BY <2>1 DEF Consistent
    <3>2. \A u \in Threads : /\ pc'[u] \in {"got", "release"} => pc'[u] = pc[u]
                             /\ pc[u] \in TakenOver => pc'[u] \in TakenOver
      BY <2>1 DEF Consistent
    <3> QED BY <3>1, <3>2 DEF DamageInv, OwnerDied
  <2>2. CASE Repair(t) /\ word = val[t]
    <3>1. damaged' = FALSE
      BY <2>2 DEF Repair
    <3> QED BY <3>1 DEF DamageInv
  <2>3. CASE Repair(t) /\ word # val[t]
    <3>1. UNCHANGED <<damaged, owner_id, alive>> /\ word'.pid = word.pid /\ word'.dead = word.dead
      BY <2>3 DEF Repair
    <3>2. \A u \in Threads : /\ pc'[u] \in {"got", "release"} => pc'[u] = pc[u]
                             /\ pc[u] \in TakenOver => pc'[u] \in TakenOver
      BY <2>3 DEF Repair
    <3> QED BY <3>1, <3>2 DEF DamageInv, OwnerDied
  <2> QED BY <1>14, <2>1, <2>2, <2>3
<1> QED BY <1>1, <1>2, <1>3, <1>4, <1>5, <1>6, <1>7, <1>8, <1>9, <1>10, <1>11, <1>12, <1>13,
           <1>14 DEF Act, LockStep

-----------------------------------------------------------------------------

\* A process dies: only threads that had the word change what the word says.
LEMMA CrashStep ==
  ASSUME Inv, NEW p \in Pids, Crash(p), UNCHANGED kind, History
  PROVE  Inv'
<1>0. /\ TypeInv /\ Shape /\ ValInv /\ WordInv /\ LookInv /\ DamageInv
      /\ OwnerIdInv /\ ShpidInv /\ CntInv
  BY DEF Inv, OwnerInv
<1>n. pid \in [Threads -> Pids] /\ NoPid \notin Pids
  BY PidAssumption
<1>1. /\ p \in alive /\ alive' = alive \ {p} /\ kind.robust
      /\ pc' = [t \in Threads |-> IF pid[t] = p THEN "dead" ELSE pc[t]]
      /\ val' = [t \in Threads |-> IF pid[t] = p THEN Free ELSE val[t]]
      /\ hold' = [t \in Threads |-> IF pid[t] = p THEN 0 ELSE hold[t]]
      /\ UNCHANGED <<word, op, owner_id, shpid, cnt, kind>>
  BY DEF Crash, Die
<1>2. damaged' => damaged \/ \E t \in Threads : pid[t] = p /\ hold[t] > 0
  BY DEF Crash
<1>3. \A t \in Threads : (hold'[t] > 0 \/ pc'[t] \in KeepPCs) <=> Keeps(t) /\ pid[t] # p
  BY <1>1 DEF Keeps, KeepPCs
<1>4. \A t \in Threads : Keeps(t) /\ pid[t] = p => word.pid = p
  BY <1>0 DEF WordInv
<1>5. \A w : OwnerDied(w) => w.pid \in Pids \ alive'
  BY <1>1 DEF OwnerDied
<1>6. word.pid = p => word.pid \in Pids \ alive'
  BY <1>1
<1>7. TypeInv'
  <2>1. stale' \subseteq Threads
    BY DEF History
  <2>2. Free \in Words
    BY DEF Free, Words
  <2>3. damaged' = damaged'
    OBVIOUS
  <2> QED BY <1>0, <1>1, <2>1, <2>2 DEF TypeInv, RobustPCs, PlainPCs
<1>8. Shape'
  BY <1>0, <1>1, <1>n DEF Shape, TypeInv, Users, Is, RobustPCs, PlainPCs
<1>9. ValInv'
  <2>1. \A t \in Threads : pc'[t] # "dead" => pc'[t] = pc[t] /\ val'[t] = val[t]
    BY <1>1
  <2> QED BY <1>0, <1>5, <2>1 DEF ValInv, OwnerDied
<1>10. WordInv'
  BY <1>0, <1>1, <1>3 DEF WordInv, Keeps
<1>11. OwnerIdInv'
  <2>1. \A t \in Threads : (hold'[t] > 0 \/ pc'[t] \in RecordPCs)
                            <=> Recorded(t) /\ pid[t] # p
    BY <1>1 DEF Recorded, RecordPCs
  <2>2. \A t \in Threads : Recorded(t) \/ pc[t] = "gotdead" => Keeps(t)
    BY DEF Recorded, RecordPCs, Keeps, KeepPCs
  <2>3. \A t \in Threads : pc'[t] = IF pid[t] = p THEN "dead" ELSE pc[t]
    BY <1>1
  <2>4. owner_id \in {0, NotRecoverable} \/ OwnerDied(word)'
        \/ \E t \in Threads : pc'[t] = "gotdead" \/ (Recorded(t) /\ pid[t] # p /\ owner_id = id[t])
    BY <1>0, <1>1, <1>4, <1>5, <1>6, <2>2, <2>3 DEF OwnerIdInv, OwnerDied
  <2> QED BY <1>0, <1>1, <2>1, <2>3, <2>4 DEF OwnerIdInv, Recorded, RecordPCs, Is
<1>12. ShpidInv' /\ CntInv'
  BY <1>0, <1>1 DEF ShpidInv, CntInv, Is
<1>13. LookInv'
  <2>1. \A t \in Threads : pc'[t] = "pid" => pc[t] = "pid"
    BY <1>1
  <2> QED BY <1>0, <1>1, <2>1 DEF LookInv, History
<1>14. DamageInv'
  <2> SUFFICES ASSUME damaged' PROVE DamageInv'
    BY DEF DamageInv
  <2>1. \A t \in Threads : pc'[t] = IF pid[t] = p THEN "dead" ELSE pc[t]
    BY <1>1
  <2>2. CASE \E t \in Threads : pid[t] = p /\ hold[t] > 0
    <3>1. PICK t \in Threads : pid[t] = p /\ hold[t] > 0
      BY <2>2
    <3>2. Keeps(t) /\ word.pid = p
      BY <3>1, <1>4 DEF Keeps
    <3>3. \A u \in Threads : pc'[u] \notin {"got", "release"}
      BY <1>0, <1>1, <2>1, <3>1, <3>2 DEF WordInv, Keeps, KeepPCs
    <3> QED BY <1>1, <1>6, <3>2, <3>3 DEF DamageInv, OwnerDied
  <2>3. CASE damaged
    <3>1. \/ word.dead \/ owner_id = NotRecoverable \/ OwnerDied(word)
          \/ \E t \in Threads : pc[t] \in TakenOver
      BY <1>0, <2>3 DEF DamageInv
    <3>2. \A t \in Threads : pc[t] \in TakenOver => Keeps(t)
      BY DEF Keeps, KeepPCs, TakenOver
    <3>3. \/ word.dead \/ owner_id = NotRecoverable \/ word.pid \in Pids \ alive'
          \/ \E t \in Threads : pc'[t] \in TakenOver
      BY <1>4, <1>5, <1>6, <2>1, <3>1, <3>2 DEF TakenOver
    <3>4. \A t \in Threads : pc'[t] \in {"got", "release"} => owner_id = NotRecoverable
      BY <1>0, <2>1, <2>3 DEF DamageInv
    <3> QED BY <1>1, <3>3, <3>4 DEF DamageInv, OwnerDied
  <2> QED BY <1>2, <2>2, <2>3
<1> QED BY <1>7, <1>8, <1>9, <1>10, <1>11, <1>12, <1>13, <1>14 DEF Inv, OwnerInv

\* A mutex is initialised free.
LEMMA InitIInv == Init => IInv
<1> SUFFICES ASSUME Init PROVE Inv
  BY DEF IInv
<1>1. TypeInv /\ (kind.robust => kind.shared)
  <2>1. PICK k \in Kinds : kind = [k EXCEPT !.robust = k.robust /\ k.shared]
    BY DEF Init
  <2>2. k \in [type : Types, shared : BOOLEAN, robust : BOOLEAN]
    BY MutexAssumption
  <2>3. kind \in [type : Types, shared : BOOLEAN, robust : BOOLEAN] /\ (kind.robust => kind.shared)
    BY <2>1, <2>2
  <2>4. Free \in Words
    BY DEF Free, Words
  <2> QED BY <2>3, <2>4 DEF Init, LockInit, TypeInv, RobustPCs, PlainPCs
<1>2. /\ pc = [t \in Threads |-> "out"] /\ hold = [t \in Threads |-> 0] /\ stale = {} /\ ~ damaged
      /\ owner_id = 0 /\ shpid = NoPid /\ alive = Pids /\ word = Free
  BY DEF Init, LockInit
<1>3. Shape
  BY <1>1, <1>2, PidAssumption DEF Shape, RobustPCs, PlainPCs, Is
<1>4. ValInv /\ LookInv /\ DamageInv
  BY <1>2 DEF ValInv, LookInv, DamageInv
<1>5. WordInv
  BY <1>2, PidAssumption DEF WordInv, Keeps, KeepPCs, Free
<1>6. OwnerInv
  BY <1>2 DEF OwnerInv, OwnerIdInv, ShpidInv, CntInv, Recorded, RecordPCs
<1> QED BY <1>1, <1>3, <1>4, <1>5, <1>6 DEF Inv

\* Every step keeps the invariant.
LEMMA NextIInv == IInv /\ [Next]_vars => IInv'
<1>1. ASSUME IInv, UNCHANGED vars PROVE IInv'
  BY <1>1 DEF vars, lockVars, mutexVars, history, IInv, Inv, TypeInv, Shape, ValInv, WordInv,
     OwnerInv, OwnerIdInv, ShpidInv, CntInv, LookInv, DamageInv, Keeps, Recorded, RecordPCs,
     OwnerDied, Is, Users
<1>2. ASSUME IInv, Next PROVE IInv'
  <2> SUFFICES ASSUME ~ torn' PROVE Inv'
    BY DEF IInv
  <2>1. UNCHANGED kind /\ History
    BY <1>2 DEF Next
  <2>2. /\ ~ torn /\ Inv
        /\ \A t \in Threads : pc[t] = "pid" /\ pc'[t] # "pid" /\ SaysOwned(t) => ~ Unsettled(t)
    BY <1>2, <2>1, Untorn DEF IInv
  <2>3. CASE \E p \in Pids : Crash(p)
    BY <2>1, <2>2, <2>3, CrashStep
  <2>4. CASE \E t \in Users : \/ Step(t) \/ Call(t)
                              \/ (Expired(t) \/ Interrupted(t)) /\ UNCHANGED mutexVars
    <3>1. PICK t \in Users : \/ Step(t) \/ Call(t)
                             \/ (Expired(t) \/ Interrupted(t)) /\ UNCHANGED mutexVars
      BY <2>4
    <3>2. t \in Threads
      BY DEF Users
    <3>3. Act(t)
      <4>1. CASE OwnerId(t) \/ OwnerProcess(t)
        <5>1. pc[t] = "pid" => pc'[t] # "pid"
          BY <2>2, <3>2, <4>1 DEF OwnerId, OwnerProcess, Owned, Unlock, Relock, NotOwned, Goto,
             Move, Inv, TypeInv
        <5>2. Decided(t)
          BY <2>2, <3>2, <4>1, <5>1, DecidedStep DEF Inv
        <5> QED BY <5>2 DEF Act
      <4>2. CASE ~ (OwnerId(t) \/ OwnerProcess(t))
        BY <3>1, <4>2 DEF Step, Call, Act
      <4> QED BY <4>1, <4>2
    <3>4. stale' \subseteq Threads
      BY <2>1 DEF History
    <3> QED BY <2>1, <2>2, <3>3, <3>4, TypeStep, ShapeStep, ValStep, WordStep, OwnerIdStep,
               ShpidStep, CntStep, LookStep, DamageStep DEF Inv, OwnerInv
  <2> QED BY <1>2, <2>3, <2>4 DEF Next
<1> QED BY <1>1, <1>2

-----------------------------------------------------------------------------

\* Of every type, one thread at most owns the mutex, and the word, the owner fields
\* and the recursion count describe it; and the looks at these before a lock or unlock
\* tell each thread whether that is itself.
THEOREM OwnershipTheorem == Spec => []OwnershipIsKnown
<1>1. IInv => OwnershipIsKnown
  <2> SUFFICES ASSUME Inv PROVE OwnerIsRecorded /\ VerdictsAreRight
    BY DEF IInv, OwnershipIsKnown, OwnerIsRecorded, VerdictsAreRight
  <2>0. /\ TypeInv /\ Shape /\ WordInv /\ LookInv /\ OwnerInv /\ OwnerIdInv /\ ShpidInv /\ CntInv
    BY DEF Inv, OwnerInv
  <2>h. \A t \in Threads : hold[t] \in Nat
    BY <2>0 DEF TypeInv
  <2>1. OwnerIsRecorded
    BY <2>0 DEF OwnerIsRecorded, Holders, WordInv, Keeps, OwnerIdInv, Recorded, RecordPCs,
       ShpidInv, CntInv
  <2>2. ASSUME NEW t \in Threads, SaysNotOwned(t) PROVE hold[t] = 0
    <3>1. pc[t] \in {"pid", "owner"} /\ (pc[t] = "owner" => owner_id # id[t])
          /\ (pc[t] = "pid" => OwnerPid # pid[t])
      BY <2>2 DEF SaysNotOwned
    <3>2. CASE hold[t] > 0 /\ pc[t] = "owner"
      BY <2>0, <3>1, <3>2, HolderIsRecorded
    <3>3. CASE hold[t] > 0 /\ pc[t] = "pid"
      BY <2>0, <3>1, <3>3 DEF Shape, WordInv, Keeps, ShpidInv, OwnerPid
    <3> QED BY <2>h, <3>1, <3>2, <3>3
  <2>3. ASSUME NEW t \in Threads, SaysOwned(t), ~ Unsettled(t), ComparesPid(t) \/ ~ kind.shared
        PROVE  hold[t] > 0
    <3>1. pc[t] \in {"pid", "owner"}
      BY <2>3 DEF SaysOwned
    <3>2. owner_id = id[t] /\ (kind.shared => OwnerPid = pid[t]) /\ (~ Is("normal") \/ kind.robust)
      <4>1. CASE pc[t] = "pid"
        BY <2>0, <2>3, <4>1 DEF SaysOwned, Unsettled, LookInv, Shape
      <4>2. CASE pc[t] = "owner"
        BY <2>0, <2>3, <4>2 DEF SaysOwned, Shape, ComparesPid
      <4> QED BY <3>1, <4>1, <4>2
    <3>3. t \in Users /\ pc[t] # "dead" /\ \A u \in Threads : pc[u] # "gotdead"
      BY <2>0, <2>3, <3>1 DEF Shape, Unsettled
    <3>4. Recorded(t)
      BY <2>0, <3>2, <3>3, OwnerPidIsKnown
    <3> QED BY <3>1, <3>4 DEF Recorded, RecordPCs
  <2> QED BY <2>1, <2>2, <2>3 DEF VerdictsAreRight
<1> QED BY <1>1, InitIInv, NextIInv, PTL DEF Spec

\* lll_robust_lock and pthread_mutex_consistent: through takeovers, further deaths and
\* unlocks, a robust mutex says that it was left locked until somebody repairs it.
THEOREM DamageTheorem == Spec => []DamageIsTold
<1>1. IInv => DamageIsTold
  BY DEF IInv, Inv, DamageInv, DamageIsTold, TakenOver
<1> QED BY <1>1, InitIInv, NextIInv, PTL DEF Spec
=============================================================================
