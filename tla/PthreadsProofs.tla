--------------------------- MODULE PthreadsProofs ---------------------------
(***************************************************************************)
(* Proofs about pthread_once, barriers, cancellation and thread-specific   *)
(* data, each for any number of threads.  The four are independent: no     *)
(* theorem about one uses the specification of another.                    *)
(***************************************************************************)
EXTENDS Once, Barrier, Cancel, SpecificData, FiniteSetTheorems, TLAPS

-----------------------------------------------------------------------------
\* pthread_once, for any number of threads and processes.  The proofs need what
\* once.c takes for granted: a child's pid is not that of an ancestor, and the
\* routine does not fork.

\* The word is free, done, or tagged by this process or an ancestor of it.
WordInv == word \in {ONCE_INIT, ONCE_DONE} \cup {Tag(p) : p \in used}

\* The word carries the tag of this process exactly while a thread runs the
\* routine or ends it.
TagInv == word = Tag(pid) <=> Running # {}

\* What a thread remembers of the word it loaded: a tag that is not its own
\* process's to take over, and its own process's to wait for.
ValInv == \A t \in Threads : /\ pc[t] = "cas" => val[t] \notin {ONCE_DONE, Tag(pid)}
                             /\ pc[t] = "wait" => val[t] = Tag(pid)

\* The routine has completed when the word says so or is about to.
CompletedInv == /\ completed = 0 \/ completed = 1
                /\ completed = 1 <=> (word = ONCE_DONE \/ \E t \in Threads : pc[t] = "set")
                /\ \A t \in Threads : pc[t] = "returned" => word = ONCE_DONE

\* A sleeper's word is still tagged, or the broadcast is on its way.
SleepInv == (\E t \in Threads : pc[t] = "asleep")
            => word = Tag(pid) \/ \E t \in Threads : pc[t] = "bcast"

OnceInv == /\ OnceTypeOK /\ WordInv /\ TagInv /\ RunsAlone /\ ValInv
           /\ CompletedInv /\ SleepInv

\* What the proofs assume of fork.
OrderlyForks == ~ Reuse /\ "run" \notin ForksFrom

-----------------------------------------------------------------------------

LEMMA TagFacts ==
  ASSUME NEW p \in Nat, NEW q \in Nat
  PROVE  /\ Tag(p) # ONCE_INIT /\ Tag(p) # ONCE_DONE
         /\ Tag(p) = Tag(q) => p = q
BY DEF Tag, ONCE_INIT, ONCE_DONE, ONCE_WIP

LEMMA DistinctTags ==
  ASSUME OnceTypeOK
  PROVE  /\ pid \in Nat /\ ONCE_INIT # ONCE_DONE
         /\ Tag(pid) # ONCE_INIT /\ Tag(pid) # ONCE_DONE
<1>1. pid \in Nat
  BY OnceAssumption DEF OnceTypeOK
<1> QED
  BY <1>1, TagFacts DEF ONCE_INIT, ONCE_DONE

LEMMA OnceInitInv == OnceInit => OnceInv
<1> SUFFICES ASSUME OnceInit PROVE OnceInv
  OBVIOUS
<1>1. OnceTypeOK
  BY DEF OnceInit, OnceTypeOK, Words, OncePCs, CallPCs, RunnerPCs
<1>2. Running = {}
  BY DEF OnceInit, Running, RunnerPCs
<1>3. WordInv /\ TagInv /\ RunsAlone
  BY <1>1, <1>2, DistinctTags DEF OnceInit, WordInv, TagInv, RunsAlone
<1>4. ValInv /\ CompletedInv /\ SleepInv
  BY <1>1, DistinctTags DEF OnceInit, ValInv, CompletedInv, SleepInv
<1> QED
  BY <1>1, <1>3, <1>4 DEF OnceInv

LEMMA OnceTypeStep == OnceTypeOK /\ [OnceNext]_onceVars => OnceTypeOK'
<1> SUFFICES ASSUME OnceTypeOK, [OnceNext]_onceVars PROVE OnceTypeOK'
  OBVIOUS
<1> USE DEF OnceTypeOK, OncePCs, CallPCs, RunnerPCs, Goto, process
<1>1. ASSUME NEW t \in Threads, OnceStep(t) PROVE OnceTypeOK'
  <2>1. CASE FastPath(t) \/ Load(t) \/ Wait(t)
    BY <2>1 DEF FastPath, Load, Wait
  <2>2. CASE Cas(t)
    <3>1. Tag(pid) \in Words
      BY DEF Words
    <3> QED
      BY <2>2, <3>1 DEF Cas
  <2>3. CASE RoutineReturns(t)
    BY <2>3 DEF RoutineReturns
  <2>4. CASE SetDone(t)
    BY <2>4 DEF SetDone, GotoWakingAll, Words
  <2>5. CASE CleanupReset(t)
    BY <2>5 DEF CleanupReset, Words
  <2>6. CASE CleanupWake(t)
    BY <2>6 DEF CleanupWake, GotoWakingAll
  <2> QED
    BY <1>1, <2>1, <2>2, <2>3, <2>4, <2>5, <2>6 DEF OnceStep
<1>2. ASSUME NEW t \in Threads, Enter(t) \/ Interrupted(t) \/ RoutineCancelled(t) PROVE OnceTypeOK'
  BY <1>2 DEF Enter, Interrupted, RoutineCancelled
<1>3. ASSUME NEW t \in Threads, Fork(t) PROVE OnceTypeOK'
  <2>1. pid' \in used' /\ used' \subseteq Pids /\ word' = word /\ val' = val /\ completed' \in Nat
    BY <1>3 DEF Fork
  <2>2. pc' \in [Threads -> OncePCs]
    BY <1>3 DEF Fork
  <2> QED
    BY <2>1, <2>2
<1>4. CASE UNCHANGED onceVars
  BY <1>4 DEF onceVars
<1> QED
  BY <1>1, <1>2, <1>3, <1>4 DEF OnceNext

\* A step that leaves word, process and the set of runners alone keeps the
\* first half of the invariant.
LEMMA QuietStep ==
  ASSUME OnceInv, UNCHANGED <<word, pid, used>>, Running' = Running
  PROVE  WordInv' /\ TagInv' /\ RunsAlone'
BY DEF OnceInv, WordInv, TagInv, RunsAlone
\* Moving one thread to a place that is not a runner's, from another such place.
LEMMA RunningUnchanged ==
  ASSUME OnceTypeOK, NEW t \in Threads, NEW l, Goto(t, l),
         pc[t] \notin RunnerPCs, l \notin RunnerPCs
  PROVE  Running' = Running
BY DEF OnceTypeOK, Goto, Running

\* The first half of the invariant: who runs the routine.
LEMMA RunnerStep ==
  ASSUME OrderlyForks, OnceInv, OnceNext
  PROVE  WordInv' /\ TagInv' /\ RunsAlone'
<1> USE DEF RunnerPCs
<1>0. OnceTypeOK /\ WordInv /\ TagInv /\ RunsAlone /\ ValInv
  BY DEF OnceInv
<1>1. ASSUME NEW t \in Threads, FastPath(t) \/ Load(t) \/ Wait(t) \/ Enter(t) \/ Interrupted(t)
      PROVE  WordInv' /\ TagInv' /\ RunsAlone'
  <2>1. UNCHANGED <<word, pid, used>>
    BY <1>1 DEF FastPath, Load, Wait, Enter, Interrupted, process
  <2>2. Running' = Running
    BY <1>1, <1>0, RunningUnchanged DEF FastPath, Load, Wait, Enter, Interrupted
  <2> QED
    BY <2>1, <2>2, QuietStep
<1>2. ASSUME NEW t \in Threads, Cas(t) PROVE WordInv' /\ TagInv' /\ RunsAlone'
  <2>1. CASE word # val[t]
    <3>1. UNCHANGED <<word, pid, used>> /\ Running' = Running
      BY <1>2, <2>1, <1>0, RunningUnchanged DEF Cas, process
    <3> QED
      BY <3>1, QuietStep
  <2>2. CASE word = val[t]
    <3>1. word # Tag(pid) /\ Running = {}
      BY <1>2, <2>2, <1>0 DEF Cas, ValInv, TagInv
    <3>2. word' = Tag(pid) /\ UNCHANGED <<pid, used>> /\ Running' = {t}
      BY <1>2, <2>2, <3>1, <1>0 DEF Cas, Goto, Running, OnceTypeOK, process
    <3> QED
      BY <3>2, <1>0 DEF WordInv, TagInv, RunsAlone, OnceTypeOK
  <2> QED
    BY <2>1, <2>2
<1>3. ASSUME NEW t \in Threads, RoutineReturns(t) \/ RoutineCancelled(t)
      PROVE  WordInv' /\ TagInv' /\ RunsAlone'
  <2>1. UNCHANGED <<word, pid, used>> /\ Running' = Running
    BY <1>3, <1>0 DEF RoutineReturns, RoutineCancelled, Goto, Running, OnceTypeOK, process
  <2> QED
    BY <2>1, QuietStep
<1>4. ASSUME NEW t \in Threads, SetDone(t) \/ CleanupReset(t)
      PROVE  WordInv' /\ TagInv' /\ RunsAlone'
  <2>1. Running = {t}
    BY <1>4, <1>0 DEF SetDone, CleanupReset, RunsAlone, Running
  <2>2. word' \in {ONCE_INIT, ONCE_DONE} /\ UNCHANGED <<pid, used>>
    BY <1>4 DEF SetDone, CleanupReset, process
  <2>3. Running' = {}
    BY <1>4, <2>1, <1>0 DEF SetDone, CleanupReset, Goto, GotoWakingAll, Running, OnceTypeOK
  <2> QED
    BY <2>2, <2>3, <1>0, DistinctTags DEF WordInv, TagInv, RunsAlone
<1>5. ASSUME NEW t \in Threads, CleanupWake(t) PROVE WordInv' /\ TagInv' /\ RunsAlone'
  <2>1. UNCHANGED <<word, pid, used>> /\ Running' = Running
    BY <1>5, <1>0 DEF CleanupWake, GotoWakingAll, Running, OnceTypeOK, process
  <2> QED
    BY <2>1, QuietStep
<1>6. ASSUME NEW t \in Threads, Fork(t) PROVE WordInv' /\ TagInv' /\ RunsAlone'
  <2>1. pc[t] \notin RunnerPCs
    BY <1>6, OnceAssumption DEF Fork, OrderlyForks
  <2>2. Running' = {}
    BY <1>6, <2>1 DEF Fork, Running
  <2>3. word' = word /\ pid' \in Pids /\ pid' \notin used /\ used' = used \cup {pid'}
    BY <1>6 DEF Fork, OrderlyForks
  <2>4. word' # Tag(pid')
    <3>1. pid' \in Nat /\ used \subseteq Nat
      BY <2>3, <1>0, OnceAssumption DEF OnceTypeOK
    <3>2. ASSUME NEW p \in used PROVE Tag(p) # Tag(pid')
      BY <3>1, <2>3, TagFacts
    <3>3. Tag(pid') # ONCE_INIT /\ Tag(pid') # ONCE_DONE
      BY <3>1, TagFacts
    <3> QED
      BY <3>2, <3>3, <2>3, <1>0 DEF WordInv
  <2>5. WordInv'
    BY <2>3, <1>0 DEF WordInv
  <2> QED
    BY <2>2, <2>4, <2>5 DEF TagInv, RunsAlone
<1>7. CASE Exited /\ UNCHANGED onceVars
  <2>1. UNCHANGED <<word, pid, used>> /\ Running' = Running
    BY <1>7 DEF onceVars, Running
  <2> QED
    BY <2>1, QuietStep
<1> QED
  BY <1>1, <1>2, <1>3, <1>4, <1>5, <1>6, <1>7 DEF OnceNext, OnceStep

\* What the threads remember, and who sleeps.
LEMMA ThreadStep ==
  ASSUME OrderlyForks, OnceInv, OnceNext, OnceTypeOK', RunsAlone'
  PROVE  ValInv' /\ CompletedInv' /\ SleepInv'
<1> USE DEF RunnerPCs
<1>0. OnceTypeOK /\ WordInv /\ TagInv /\ RunsAlone /\ ValInv /\ CompletedInv /\ SleepInv
  BY DEF OnceInv
<1>d. /\ ONCE_INIT # ONCE_DONE /\ Tag(pid) # ONCE_INIT /\ Tag(pid) # ONCE_DONE
      /\ \A t \in Threads : pc[t] \in RunnerPCs => word = Tag(pid)
      /\ \A t, u \in Threads : pc[t] \in RunnerPCs /\ pc[u] \in RunnerPCs => t = u
  BY <1>0, DistinctTags DEF TagInv, RunsAlone, Running
<1>1. ASSUME NEW t \in Threads, FastPath(t) \/ Load(t) \/ Enter(t) \/ Interrupted(t)
      PROVE  ValInv' /\ CompletedInv' /\ SleepInv'
  <2>1. UNCHANGED <<word, pid, used, completed>> /\ pc[t] \in {"test", "load", "out", "returned", "asleep"}
    BY <1>1 DEF FastPath, Load, Enter, Interrupted, process
  <2>2. ValInv'
    BY <1>1, <1>0, <2>1 DEF FastPath, Load, Enter, Interrupted, Goto, OnceTypeOK, ValInv
  <2>3. CompletedInv'
    BY <1>1, <1>0, <2>1 DEF FastPath, Load, Enter, Interrupted, Goto, OnceTypeOK, CompletedInv
  <2>4. SleepInv'
    BY <1>1, <1>0, <2>1 DEF FastPath, Load, Enter, Interrupted, Goto, OnceTypeOK, SleepInv
  <2> QED
    BY <2>2, <2>3, <2>4
<1>2. ASSUME NEW t \in Threads, Wait(t) PROVE ValInv' /\ CompletedInv' /\ SleepInv'
  <2>1. UNCHANGED <<word, pid, used, completed, val>> /\ pc[t] = "wait"
    BY <1>2 DEF Wait, process
  <2>2. ValInv' /\ CompletedInv'
    BY <1>2, <1>0, <2>1 DEF Wait, Goto, OnceTypeOK, ValInv, CompletedInv
  <2>3. SleepInv'
    BY <1>2, <1>0, <2>1 DEF Wait, Goto, OnceTypeOK, SleepInv, ValInv
  <2> QED
    BY <2>2, <2>3
<1>3. ASSUME NEW t \in Threads, Cas(t) PROVE ValInv' /\ CompletedInv' /\ SleepInv'
  <2>1. /\ UNCHANGED <<pid, used, completed, val>> /\ pc[t] = "cas"
        /\ \/ /\ pc' = [pc EXCEPT ![t] = "load"]
              /\ word' = word
           \/ /\ pc' = [pc EXCEPT ![t] = "run"]
              /\ word' = Tag(pid) /\ word = val[t]
              /\ word # ONCE_DONE /\ word # Tag(pid)
    BY <1>3, <1>0 DEF Cas, Goto, process, ValInv
  <2>2. ValInv'
    BY <1>0, <2>1 DEF OnceTypeOK, ValInv
  <2>3. CompletedInv'
    BY <1>0, <1>d, <2>1 DEF OnceTypeOK, CompletedInv
  <2>4. SleepInv'
    BY <1>0, <2>1 DEF OnceTypeOK, SleepInv
  <2> QED
    BY <2>2, <2>3, <2>4
<1>4. ASSUME NEW t \in Threads, RoutineReturns(t) \/ RoutineCancelled(t)
      PROVE  ValInv' /\ CompletedInv' /\ SleepInv'
  <2>1. UNCHANGED <<word, pid, used, val>> /\ pc[t] = "run" /\ word = Tag(pid)
    BY <1>4, <1>d DEF RoutineReturns, RoutineCancelled, process
  <2>2. ValInv' /\ SleepInv'
    BY <1>4, <1>0, <2>1 DEF RoutineReturns, RoutineCancelled, Goto, OnceTypeOK, ValInv, SleepInv
  <2>3. completed = 0
    BY <1>0, <1>d, <2>1 DEF CompletedInv
  <2>4. CompletedInv'
    BY <1>4, <1>0, <1>d, <2>1, <2>3 DEF RoutineReturns, RoutineCancelled, Goto, OnceTypeOK, CompletedInv
  <2> QED
    BY <2>2, <2>4
<1>5. ASSUME NEW t \in Threads, SetDone(t) PROVE ValInv' /\ CompletedInv' /\ SleepInv'
  <2>1. /\ UNCHANGED <<pid, used, completed, val>> /\ pc[t] = "set" /\ word' = ONCE_DONE
        /\ pc' = [u \in Threads |-> IF u = t THEN "returned"
                                    ELSE IF pc[u] = "asleep" THEN "load" ELSE pc[u]]
    BY <1>5 DEF SetDone, GotoWakingAll, process
  <2>2. ValInv' /\ SleepInv'
    BY <1>0, <2>1 DEF ValInv, SleepInv
  <2>3. CompletedInv'
    BY <1>0, <1>d, <2>1 DEF CompletedInv
  <2> QED
    BY <2>2, <2>3
<1>6. ASSUME NEW t \in Threads, CleanupReset(t) PROVE ValInv' /\ CompletedInv' /\ SleepInv'
  <2>1. /\ UNCHANGED <<pid, used, completed, val>> /\ pc[t] = "clean" /\ word' = ONCE_INIT
        /\ pc' = [pc EXCEPT ![t] = "bcast"] /\ word = Tag(pid)
    BY <1>6, <1>d DEF CleanupReset, Goto, process
  <2>2. ValInv' /\ SleepInv'
    BY <1>0, <2>1 DEF OnceTypeOK, ValInv, SleepInv
  <2>3. CompletedInv'
    BY <1>0, <1>d, <2>1 DEF OnceTypeOK, CompletedInv
  <2> QED
    BY <2>2, <2>3
<1>7. ASSUME NEW t \in Threads, CleanupWake(t) PROVE ValInv' /\ CompletedInv' /\ SleepInv'
  <2>1. /\ UNCHANGED <<word, pid, used, completed, val>> /\ pc[t] = "bcast"
        /\ pc' = [u \in Threads |-> IF u = t THEN "exited"
                                    ELSE IF pc[u] = "asleep" THEN "load" ELSE pc[u]]
    BY <1>7 DEF CleanupWake, GotoWakingAll, process
  <2>2. ValInv' /\ SleepInv' /\ CompletedInv'
    BY <1>0, <2>1 DEF ValInv, SleepInv, CompletedInv
  <2> QED
    BY <2>2
<1>8. ASSUME NEW t \in Threads, Fork(t) PROVE ValInv' /\ CompletedInv' /\ SleepInv'
  <2>1. /\ pc[t] \in {"out", "returned"} /\ word' = word /\ val' = val
        /\ pc' = [u \in Threads |-> IF u = t THEN pc[t] ELSE "out"]
        /\ completed' = IF word = ONCE_DONE THEN completed ELSE 0
    BY <1>8, OnceAssumption DEF Fork, OrderlyForks
  <2>2. ValInv' /\ SleepInv'
    BY <2>1 DEF ValInv, SleepInv
  <2>3. CompletedInv'
    BY <1>0, <2>1 DEF CompletedInv
  <2> QED
    BY <2>2, <2>3
<1>9. CASE Exited /\ UNCHANGED onceVars
  BY <1>0, <1>9 DEF onceVars, ValInv, CompletedInv, SleepInv
<1> QED
  BY <1>1, <1>2, <1>3, <1>4, <1>5, <1>6, <1>7, <1>8, <1>9 DEF OnceNext, OnceStep

LEMMA OnceInvStep == OrderlyForks /\ OnceInv /\ [OnceNext]_onceVars => OnceInv'
<1> SUFFICES ASSUME OrderlyForks, OnceInv, [OnceNext]_onceVars PROVE OnceInv'
  OBVIOUS
<1>1. CASE OnceNext
  BY <1>1, OnceTypeStep, RunnerStep, ThreadStep DEF OnceInv
<1>2. CASE UNCHANGED onceVars
  BY <1>2 DEF onceVars, OnceInv, OnceTypeOK, WordInv, TagInv, Running, RunsAlone, ValInv,
              CompletedInv, SleepInv
<1> QED
  BY <1>1, <1>2

-----------------------------------------------------------------------------
LEMMA OnceInvariant == ASSUME OrderlyForks PROVE OnceSpec => []OnceInv
<1>1. OnceInv /\ [OnceNext]_onceVars => OnceInv'
  BY OnceInvStep
<1> QED
  BY <1>1, OnceInitInv, PTL DEF OnceSpec

\* The variables keep their types.
THEOREM OnceTypeCorrect == OnceSpec => []OnceTypeOK
<1>1. OnceInit => OnceTypeOK
  BY OnceInitInv DEF OnceInv
<1> QED
  BY <1>1, OnceTypeStep, PTL DEF OnceSpec

\* "We're alone": at most one thread at a time runs the routine or ends it, in a
\* process whose routine does not fork and whose pid no ancestor had.
THEOREM AloneTheorem == ASSUME OrderlyForks PROVE OnceSpec => []RunsAlone
<1>1. OnceInv => RunsAlone
  BY DEF OnceInv
<1> QED
  BY <1>1, OnceInvariant, PTL

\* The routine completes at most once, and pthread_once returns only when it has.
THEOREM OnceTheorem == ASSUME OrderlyForks PROVE OnceSpec => []CompletesOnce
<1>1. OnceInv => CompletesOnce
  <2> SUFFICES ASSUME OnceInv PROVE CompletesOnce
    OBVIOUS
  <2>1. completed = 0 \/ completed = 1
    BY DEF OnceInv, CompletedInv
  <2>2. ASSUME NEW t \in Threads, pc[t] = "returned" PROVE completed = 1
    BY <2>2 DEF OnceInv, CompletedInv
  <2> QED
    BY <2>1, <2>2 DEF CompletesOnce
<1> QED
  BY <1>1, OnceInvariant, PTL

\* No thread sleeps in pthread_once unless another one of its process is in the
\* routine, or about to wake the sleepers.
THEOREM WakeupTheorem == ASSUME OrderlyForks PROVE OnceSpec => []NobodyStranded
<1>1. OnceInv => NobodyStranded
  BY DEF OnceInv, TagInv, SleepInv, NobodyStranded, Running
<1> QED
  BY <1>1, OnceInvariant, PTL

-----------------------------------------------------------------------------
\* Barriers.

\* The calls that hold a reference; those that are not counted yet; the one that
\* releases the others; those that will be told that they are serial.
Inside == {t \in Threads : pc[t] \in WaitPCs \ {"lastwake"}}
Uncounted == {t \in Threads : pc[t] \in {"load", "count"}}
Releasing == {t \in Threads : pc[t] = "release"}
Serials == {t \in Threads : pc[t] \in {"bcast", "sleave"}}

\* Those counted in the group that is gathering, and all that have called for it.
Counted == {t \in Threads : \/ pc[t] = "release"
                            \/ pc[t] \in {"check", "wait", "asleep"} /\ mine[t] = seq}
Ahead == {t \in Threads : arrived[t] = seq + 1}

\* nrefs is the number of references, and one thread at most destroys.
RefInv == /\ nrefs = Cardinality(Inside) + IF Destroying THEN 0 ELSE 1
          /\ \A t, u \in Threads : pc[t] \in DestroyPCs /\ pc[u] \in DestroyPCs => t = u
          /\ \A t \in Threads : pc[t] = "destroyed" => nrefs = 0

\* The calls begun are those that ended and those inside.
CallInv == /\ \A t \in Threads : arrived[t] = passed[t] + IF t \in Inside THEN 1 ELSE 0
           /\ Calls(arrived) = Calls(passed) + Cardinality(Inside)

\* Every release has its serial thread and has used up Count arrivals; the release
\* of a group is under way from the Count-th arrival to the reset of the count.
SerialInv == /\ seq = serial + Cardinality(Serials)
             /\ Count * seq + cnt + Cardinality(Uncounted) <= Calls(arrived)
             /\ Releasing # {} <=> cnt >= Count
             /\ \A t, u \in Releasing : t = u

\* In a barrier for all, each thread is in the group that gathers or in the one before.
PlaceInGroup(t) ==
  /\ pc[t] \notin {"swait", "sasleep"}
  /\ pc[t] \in {"load", "count", "release"} => arrived[t] = seq + 1
  /\ pc[t] = "count" => mine[t] = seq
  /\ pc[t] \in {"check", "wait", "asleep"} =>
       /\ mine[t] <= seq /\ arrived[t] = IF mine[t] = seq THEN seq + 1 ELSE seq
  /\ pc[t] \notin {"load", "count", "release", "check", "wait", "asleep"} => arrived[t] = seq

GroupInv == Exact => /\ \A t \in Threads : PlaceInGroup(t)
                     /\ cnt = Cardinality(Counted)
                     /\ Calls(arrived) = Count * seq + Cardinality(Ahead)

BarrierInv == BarrierTypeOK /\ RefInv /\ CallInv /\ SerialInv /\ GroupInv
-----------------------------------------------------------------------------

\* The steps that change no reference and no count.
Quiet(t) == \/ LoadSeq(t) \/ Check(t) \/ GsyncWait(t) \/ WaitInterrupted(t)
            \/ WakeAll(t) \/ LastWake(t) \/ DestroyWait(t) \/ DestroyLoad(t)

LEMMA BarrierActions ==
  BarrierNext => \/ \E t \in Threads : Quiet(t) \/ StartWait(t) \/ Arrive(t) \/ Release(t) \/ Leave(t) \/ Destroy(t)
                 \/ UNCHANGED barrierVars
BY DEF BarrierNext, BarrierStep, Quiet

LEMMA CountFacts == ASSUME BarrierTypeOK PROVE Count \in Nat \ {0} /\ total \in Nat /\ total = Count - 1
BY BarrierAssumption DEF BarrierTypeOK, Count

LEMMA SetFacts ==
  ASSUME NEW S \in SUBSET Threads
  PROVE  /\ IsFiniteSet(S) /\ Cardinality(S) \in Nat
         /\ Cardinality(S) = 0 <=> S = {}
         /\ Cardinality(S) <= Cardinality(Threads)
         /\ Cardinality(S) = Cardinality(Threads) => S = Threads
         /\ \A t \in Threads \ S : Cardinality(S \cup {t}) = Cardinality(S) + 1
         /\ \A t \in S : Cardinality(S \ {t}) = Cardinality(S) - 1
<1>1. IsFiniteSet(S)
  BY BarrierAssumption, FS_Subset
<1> QED
  BY <1>1, BarrierAssumption, FS_Subset, FS_CardinalityType, FS_EmptySet, FS_AddElement, FS_RemoveElement

LEMMA AllCalls == IsFiniteSet(Threads \X (1..MaxCalls))
<1>1. IsFiniteSet(1..MaxCalls)
  <2>1. 1 \in Int /\ MaxCalls \in Int
    BY BarrierAssumption
  <2> QED BY <2>1, FS_Interval
<1> QED BY <1>1, BarrierAssumption, FS_Product

LEMMA CallsType == ASSUME NEW f PROVE Calls(f) \in Nat
BY AllCalls, FS_Subset, FS_CardinalityType DEF Calls

\* One more call of a thread is one more call.
LEMMA CallsBump ==
  ASSUME NEW f \in [Threads -> 0..MaxCalls], NEW t \in Threads, f[t] < MaxCalls
  PROVE  Calls(f) \in Nat /\ Calls(Bump(f, t)) = Calls(f) + 1
<1> DEFINE All == Threads \X (1..MaxCalls)
           S == {c \in All : c[2] <= f[c[1]]}
           S2 == {c \in All : c[2] <= Bump(f, t)[c[1]]}
           e == <<t, f[t] + 1>>
<1>1. MaxCalls \in Nat /\ f[t] \in Nat
  BY BarrierAssumption
<1>2. IsFiniteSet(S)
  BY AllCalls, FS_Subset
<1>3. e \in All /\ e \notin S
  BY <1>1
<1>4. S2 = S \cup {e}
  <2>1. ASSUME NEW u \in Threads, NEW n \in 1..MaxCalls
        PROVE  n <= Bump(f, t)[u] <=> n <= f[u] \/ <<u, n>> = e
    BY <1>1 DEF Bump
  <2> QED BY <1>3, <2>1
<1>5. Cardinality(S2) = Cardinality(S) + 1
  BY <1>2, <1>3, <1>4, FS_AddElement
<1> QED BY <1>2, <1>5, FS_CardinalityType DEF Calls

LEMMA BarrierInitInv == BarrierInit => BarrierInv
<1> SUFFICES ASSUME BarrierInit PROVE BarrierInv
  OBVIOUS
<1>1. BarrierTypeOK
  BY BarrierAssumption, SMT DEF BarrierInit, BarrierTypeOK, BarrierPCs, Count
<1>2. Inside = {} /\ Uncounted = {} /\ Releasing = {} /\ Serials = {} /\ Counted = {} /\ ~Destroying
  BY DEF BarrierInit, Inside, Uncounted, Releasing, Serials, Counted, Destroying, WaitPCs, DestroyPCs
<1>3. Ahead = {}
  BY DEF BarrierInit, Ahead
<1>4. Calls(arrived) = 0 /\ Calls(passed) = 0
  <2>1. {c \in Threads \X (1..MaxCalls) : c[2] <= arrived[c[1]]} = {}
    BY BarrierAssumption DEF BarrierInit
  <2>2. arrived = passed
    BY DEF BarrierInit
  <2> QED BY <2>1, <2>2, FS_EmptySet DEF Calls
<1>5. RefInv
  BY <1>2, FS_EmptySet DEF BarrierInit, RefInv, DestroyPCs
<1>6. CallInv
  BY <1>2, <1>4, FS_EmptySet DEF BarrierInit, CallInv
<1>7. SerialInv
  BY <1>2, <1>4, FS_EmptySet, <1>1, CountFacts DEF BarrierInit, SerialInv
<1>8. GroupInv
  BY <1>2, <1>3, <1>4, FS_EmptySet, <1>1, CountFacts DEF BarrierInit, GroupInv, PlaceInGroup
<1> QED BY <1>1, <1>5, <1>6, <1>7, <1>8 DEF BarrierInv

LEMMA QuietSets ==
  ASSUME BarrierTypeOK, NEW t \in Threads, Quiet(t)
  PROVE  /\ Inside' = Inside /\ Uncounted' = Uncounted /\ Releasing' = Releasing /\ Serials' = Serials
         /\ \A u \in Threads : pc'[u] \in DestroyPCs <=> pc[u] \in DestroyPCs
         /\ Destroying' = Destroying /\ total' = total
         /\ UNCHANGED <<seq, cnt, nrefs, history>>
<1> USE DEF BarrierTypeOK, BarrierPCs, WaitPCs, DestroyPCs, Goto, WaitReturns
<1>1. UNCHANGED <<total, seq, cnt, nrefs, history>>
  BY DEF Quiet, LoadSeq, Check, GsyncWait, WaitInterrupted, WakeAll, LastWake, DestroyWait, DestroyLoad
<1>2. \A u \in Threads : /\ pc'[u] \in WaitPCs \ {"lastwake"} <=> pc[u] \in WaitPCs \ {"lastwake"}
                         /\ pc'[u] \in DestroyPCs <=> pc[u] \in DestroyPCs
                         /\ pc'[u] \in {"load", "count"} <=> pc[u] \in {"load", "count"}
                         /\ pc'[u] = "release" <=> pc[u] = "release"
                         /\ pc'[u] \in {"bcast", "sleave"} <=> pc[u] \in {"bcast", "sleave"}
  <2>1. CASE LoadSeq(t) \/ Check(t) \/ GsyncWait(t)
    BY <2>1 DEF LoadSeq, Check, GsyncWait
  <2>2. CASE WaitInterrupted(t) \/ DestroyWait(t) \/ DestroyLoad(t)
    BY <2>2 DEF WaitInterrupted, DestroyWait, DestroyLoad
  <2>3. CASE WakeAll(t)
    BY <2>3 DEF WakeAll
  <2>4. CASE LastWake(t)
    BY <2>4 DEF LastWake
  <2> QED BY <2>1, <2>2, <2>3, <2>4 DEF Quiet
<1> HIDE DEF WaitPCs, DestroyPCs
<1> QED BY <1>1, <1>2 DEF Inside, Uncounted, Releasing, Serials, Destroying

LEMMA QuietType ==
  ASSUME BarrierTypeOK, NEW t \in Threads, Quiet(t)
  PROVE  BarrierTypeOK'
<1> USE DEF BarrierTypeOK, BarrierPCs, WaitPCs, DestroyPCs, Goto, WaitReturns, history, Count
<1>1. CASE LoadSeq(t) \/ Check(t) \/ GsyncWait(t)
  BY <1>1 DEF LoadSeq, Check, GsyncWait
<1>2. CASE WaitInterrupted(t) \/ DestroyWait(t) \/ DestroyLoad(t)
  BY <1>2 DEF WaitInterrupted, DestroyWait, DestroyLoad
<1>3. CASE WakeAll(t)
  BY <1>3 DEF WakeAll
<1>4. CASE LastWake(t)
  BY <1>4 DEF LastWake
<1> QED BY <1>1, <1>2, <1>3, <1>4 DEF Quiet
\* What the other steps do to the sets.
LEMMA StartSets ==
  ASSUME BarrierTypeOK, NEW t \in Threads, StartWait(t)
  PROVE  /\ t \notin Inside /\ Inside' = Inside \cup {t}
         /\ t \notin Uncounted /\ Uncounted' = Uncounted \cup {t}
         /\ Releasing' = Releasing /\ Serials' = Serials
         /\ ~Destroying /\ ~Destroying' /\ UNCHANGED Count
<1> USE DEF BarrierTypeOK, BarrierPCs, WaitPCs, DestroyPCs
<1>1. pc[t] = "out" /\ pc' = [pc EXCEPT ![t] = "load"] /\ ~Destroying /\ total' = total
  BY DEF StartWait, Goto
<1> QED BY <1>1 DEF Inside, Uncounted, Releasing, Serials, Destroying, Count

LEMMA ArriveSets ==
  ASSUME BarrierTypeOK, NEW t \in Threads, Arrive(t)
  PROVE  /\ Inside' = Inside /\ t \in Uncounted /\ Uncounted' = Uncounted \ {t}
         /\ Releasing' = (IF cnt = total THEN Releasing \cup {t} ELSE Releasing) /\ Serials' = Serials
         /\ \A u \in Threads : pc'[u] \in DestroyPCs <=> pc[u] \in DestroyPCs
         /\ Destroying' = Destroying /\ UNCHANGED Count
<1> USE DEF BarrierTypeOK, BarrierPCs, WaitPCs, DestroyPCs
<1>1. /\ pc[t] = "count" /\ total' = total
      /\ \/ cnt # total /\ pc' = [pc EXCEPT ![t] = "check"]
         \/ cnt = total /\ pc' = [pc EXCEPT ![t] = "release"]
         \/ cnt # total /\ pc' = [pc EXCEPT ![t] = "swait"]
  BY DEF Arrive, Goto
<1>2. \A u \in Threads : pc'[u] \in DestroyPCs <=> pc[u] \in DestroyPCs
  BY <1>1
<1>3. Destroying' = Destroying
  BY <1>2 DEF Destroying
<1> QED BY <1>1, <1>2, <1>3 DEF Inside, Uncounted, Releasing, Serials, Count

LEMMA ReleaseSets ==
  ASSUME BarrierTypeOK, NEW t \in Threads, Release(t)
  PROVE  /\ Inside' = Inside /\ Uncounted' = Uncounted
         /\ t \in Releasing /\ Releasing' = Releasing \ {t}
         /\ t \notin Serials /\ Serials' = Serials \cup {t}
         /\ \A u \in Threads : pc'[u] \in DestroyPCs <=> pc[u] \in DestroyPCs
         /\ Destroying' = Destroying /\ UNCHANGED Count
<1> USE DEF BarrierTypeOK, BarrierPCs, WaitPCs, DestroyPCs
<1>1. pc[t] = "release" /\ total' = total /\ pc' = [pc EXCEPT ![t] = "bcast"]
  BY DEF Release, Goto
<1>2. \A u \in Threads : pc'[u] \in DestroyPCs <=> pc[u] \in DestroyPCs
  BY <1>1
<1>3. Destroying' = Destroying
  BY <1>2 DEF Destroying
<1> QED BY <1>1, <1>2, <1>3 DEF Inside, Uncounted, Releasing, Serials, Count

LEMMA LeaveSets ==
  ASSUME BarrierTypeOK, NEW t \in Threads, Leave(t)
  PROVE  /\ t \in Inside /\ Inside' = Inside \ {t} /\ Uncounted' = Uncounted /\ Releasing' = Releasing
         /\ Serials' = Serials \ {t} /\ (t \in Serials <=> pc[t] = "sleave")
         /\ \A u \in Threads : pc'[u] \in DestroyPCs <=> pc[u] \in DestroyPCs
         /\ Destroying' = Destroying /\ UNCHANGED Count
<1> USE DEF BarrierTypeOK, BarrierPCs, WaitPCs, DestroyPCs
<1>1. /\ pc[t] \in {"leave", "sleave"} /\ total' = total
      /\ \/ pc' = [pc EXCEPT ![t] = "lastwake"] \/ pc' = [pc EXCEPT ![t] = "out"]
  BY DEF Leave, Goto
<1>2. \A u \in Threads : pc'[u] \in DestroyPCs <=> pc[u] \in DestroyPCs
  BY <1>1
<1>3. Destroying' = Destroying
  BY <1>2 DEF Destroying
<1> QED BY <1>1, <1>2, <1>3 DEF Inside, Uncounted, Releasing, Serials, Count

LEMMA DestroySets ==
  ASSUME BarrierTypeOK, NEW t \in Threads, Destroy(t)
  PROVE  /\ Inside' = Inside /\ Uncounted' = Uncounted /\ Releasing' = Releasing /\ Serials' = Serials
         /\ \A u \in Threads : pc[u] \notin DestroyPCs /\ (pc'[u] \in DestroyPCs <=> u = t)
         /\ ~Destroying /\ Destroying' /\ UNCHANGED Count
<1> USE DEF BarrierTypeOK, BarrierPCs, WaitPCs, DestroyPCs
<1>1. /\ pc[t] = "out" /\ total' = total /\ ~Destroying
      /\ \/ pc' = [pc EXCEPT ![t] = "destroyed"] \/ pc' = [pc EXCEPT ![t] = "dwait"]
  BY DEF Destroy, Goto
<1>2. \A u \in Threads : pc[u] \notin DestroyPCs /\ (pc'[u] \in DestroyPCs <=> u = t)
  BY <1>1 DEF Destroying
<1>3. Destroying'
  BY <1>2 DEF Destroying
<1> QED BY <1>1, <1>2, <1>3 DEF Inside, Uncounted, Releasing, Serials, Count

\* A reference is held by each call inside and by the barrier itself.
LEMMA References ==
  ASSUME BarrierInv
  PROVE  /\ Cardinality(Inside) \in Nat
         /\ \A t \in Inside : Cardinality(Inside) > 0 /\ nrefs > 0 /\ passed[t] < MaxCalls
         /\ ~Destroying => nrefs > 0
<1>1. Inside \in SUBSET Threads /\ Cardinality(Inside) \in Nat /\ (Inside # {} => Cardinality(Inside) # 0)
  BY SetFacts DEF Inside
<1>2. ASSUME NEW t \in Inside PROVE passed[t] < MaxCalls
  <2>1. t \in Threads /\ arrived[t] \in 0..MaxCalls /\ passed[t] \in 0..MaxCalls /\ arrived[t] = passed[t] + 1
    BY <1>1, <1>2 DEF BarrierInv, BarrierTypeOK, CallInv
  <2> QED BY <2>1, BarrierAssumption
<1> QED BY <1>1, <1>2 DEF BarrierInv, RefInv

LEMMA BarrierTypeStep ==
  ASSUME BarrierInv, BarrierNext
  PROVE  BarrierTypeOK'
<1> USE DEF BarrierTypeOK, BarrierPCs, WaitPCs, DestroyPCs, Goto, history, Count, Bump
<1>0. BarrierTypeOK
  BY DEF BarrierInv
<1>1. ASSUME NEW t \in Threads, Quiet(t) PROVE BarrierTypeOK'
  BY <1>0, <1>1, QuietType
<1>2. ASSUME NEW t \in Threads, StartWait(t) \/ Arrive(t) \/ Release(t) PROVE BarrierTypeOK'
  BY <1>0, <1>2, BarrierAssumption DEF StartWait, Arrive, Release
<1>3. ASSUME NEW t \in Threads, Leave(t) PROVE BarrierTypeOK'
  <2>1. nrefs > 0 /\ passed[t] < MaxCalls
    BY <1>0, <1>3, LeaveSets, References
  <2> QED BY <1>0, <1>3, <2>1, BarrierAssumption DEF Leave
<1>4. ASSUME NEW t \in Threads, Destroy(t) PROVE BarrierTypeOK'
  <2>1. nrefs > 0
    BY <1>4, References DEF Destroy
  <2> QED BY <1>0, <1>4, <2>1 DEF Destroy
<1>5. CASE UNCHANGED barrierVars
  BY <1>0, <1>5 DEF barrierVars
<1> QED BY <1>1, <1>2, <1>3, <1>4, <1>5, BarrierActions

LEMMA RefStep ==
  ASSUME BarrierInv, BarrierNext
  PROVE  RefInv'
<1>0. /\ BarrierTypeOK /\ RefInv /\ Inside \in SUBSET Threads /\ Cardinality(Inside) \in Nat /\ nrefs \in Nat
      /\ \A t \in Threads : pc[t] = "destroyed" => pc[t] \in DestroyPCs
  BY SetFacts DEF BarrierInv, Inside, BarrierTypeOK, DestroyPCs
<1>1. ASSUME NEW t \in Threads, Quiet(t) PROVE RefInv'
  <2>1. Inside' = Inside /\ Destroying' = Destroying /\ nrefs' = nrefs
    BY <1>0, <1>1, QuietSets
  <2>2. ASSUME NEW u \in Threads, pc'[u] = "destroyed", pc[u] # "destroyed" PROVE nrefs = 0
    BY <1>0, <1>1, <2>2 DEF Quiet, LoadSeq, Check, GsyncWait, WaitInterrupted, WakeAll, LastWake,
      DestroyWait, DestroyLoad, Goto, BarrierTypeOK, WaitReturns
  <2> QED BY <1>0, <1>1, <2>1, <2>2, QuietSets DEF RefInv
<1>2. ASSUME NEW t \in Threads, StartWait(t) PROVE RefInv'
  <2>1. ~Destroying /\ ~Destroying' /\ nrefs' = nrefs + 1 /\ Cardinality(Inside') = Cardinality(Inside) + 1
    BY <1>0, <1>2, StartSets, SetFacts DEF StartWait
  <2>2. \A u \in Threads : pc'[u] \notin DestroyPCs
    BY <2>1 DEF Destroying
  <2> QED BY <1>0, <2>1, <2>2 DEF RefInv, DestroyPCs
<1>3. ASSUME NEW t \in Threads, Arrive(t) \/ Release(t) PROVE RefInv'
  <2>1. Inside' = Inside /\ Destroying' = Destroying /\ nrefs' = nrefs
    BY <1>0, <1>3, ArriveSets, ReleaseSets DEF Arrive, Release
  <2>2. \A u \in Threads : /\ pc'[u] \in DestroyPCs <=> pc[u] \in DestroyPCs
                           /\ pc'[u] = "destroyed" => pc[u] = "destroyed"
    BY <1>0, <1>3, ArriveSets, ReleaseSets DEF Arrive, Release, Goto, BarrierTypeOK
  <2> QED BY <1>0, <2>1, <2>2 DEF RefInv
<1>4. ASSUME NEW t \in Threads, Leave(t) PROVE RefInv'
  <2>0. t \in Inside /\ Inside' = Inside \ {t} /\ Destroying' = Destroying /\ nrefs' = nrefs - 1
    BY <1>0, <1>4, LeaveSets DEF Leave
  <2>1. Cardinality(Inside') = Cardinality(Inside) - 1
    BY <1>0, <2>0, SetFacts
  <2>2. \A u \in Threads : /\ pc'[u] \in DestroyPCs <=> pc[u] \in DestroyPCs
                           /\ pc'[u] = "destroyed" => pc[u] = "destroyed"
    BY <1>0, <1>4, LeaveSets DEF Leave, Goto, BarrierTypeOK
  <2>3. nrefs > 0
    BY <1>0, <1>4, LeaveSets, References
  <2> QED BY <1>0, <2>0, <2>1, <2>2, <2>3 DEF RefInv
<1>5. ASSUME NEW t \in Threads, Destroy(t) PROVE RefInv'
  <2>1. Inside' = Inside /\ ~Destroying /\ Destroying' /\ nrefs' = nrefs - 1
    BY <1>0, <1>5, DestroySets DEF Destroy
  <2>2. \A u \in Threads : /\ pc'[u] \in DestroyPCs <=> u = t
                           /\ pc'[u] = "destroyed" => nrefs = 1 \/ pc'[u] # "destroyed"
    BY <1>0, <1>5, DestroySets DEF Destroy, Goto, BarrierTypeOK, DestroyPCs
  <2> QED BY <1>0, <2>1, <2>2 DEF RefInv
<1>6. CASE UNCHANGED barrierVars
  BY <1>0, <1>6 DEF barrierVars, RefInv, Inside, Destroying
<1> QED BY <1>1, <1>2, <1>3, <1>4, <1>5, <1>6, BarrierActions

\* The steps that begin or end no call.
LEMMA SameCalls ==
  ASSUME CallInv, Inside' = Inside, UNCHANGED <<arrived, passed>>
  PROVE  CallInv'
<1>1. Calls(arrived)' = Calls(arrived) /\ Calls(passed)' = Calls(passed)
  BY DEF Calls
<1> QED BY <1>1 DEF CallInv

LEMMA CallStep ==
  ASSUME BarrierInv, BarrierNext
  PROVE  CallInv'
<1>0. /\ BarrierTypeOK /\ CallInv /\ Inside \in SUBSET Threads /\ Cardinality(Inside) \in Nat
      /\ Calls(arrived) \in Nat /\ Calls(passed) \in Nat
  BY SetFacts, CallsType DEF BarrierInv, Inside
<1>1. ASSUME NEW t \in Threads, Quiet(t) \/ Arrive(t) \/ Release(t) \/ Destroy(t) PROVE CallInv'
  <2>1. Inside' = Inside /\ UNCHANGED <<arrived, passed>>
    BY <1>0, <1>1, QuietSets, ArriveSets, ReleaseSets, DestroySets DEF Arrive, Release, Destroy, history
  <2> QED BY <1>0, <2>1, SameCalls
<1>2. ASSUME NEW t \in Threads, StartWait(t) PROVE CallInv'
  <2>1. /\ t \notin Inside /\ Inside' = Inside \cup {t} /\ passed' = passed
        /\ arrived' = Bump(arrived, t) /\ arrived[t] < MaxCalls
    BY <1>0, <1>2, StartSets DEF StartWait
  <2>2. Calls(arrived)' = Calls(arrived) + 1 /\ Calls(passed)' = Calls(passed)
    <3>1. arrived \in [Threads -> 0..MaxCalls]
      BY <1>0 DEF BarrierTypeOK
    <3>2. Calls(Bump(arrived, t)) = Calls(arrived) + 1
      BY <2>1, <3>1, CallsBump
    <3> QED BY <2>1, <3>2 DEF Calls
  <2>3. Cardinality(Inside') = Cardinality(Inside) + 1
    BY <1>0, <2>1, SetFacts
  <2>4. \A u \in Threads : arrived'[u] = passed'[u] + IF u \in Inside' THEN 1 ELSE 0
    BY <1>0, <2>1 DEF BarrierTypeOK, CallInv, Bump
  <2> QED BY <1>0, <2>2, <2>3, <2>4 DEF CallInv
<1>3. ASSUME NEW t \in Threads, Leave(t) PROVE CallInv'
  <2>1. /\ t \in Inside /\ Inside' = Inside \ {t} /\ arrived' = arrived
        /\ passed' = Bump(passed, t) /\ passed[t] < MaxCalls
    BY <1>0, <1>3, LeaveSets, References DEF Leave
  <2>2. Calls(passed)' = Calls(passed) + 1 /\ Calls(arrived)' = Calls(arrived)
    <3>1. passed \in [Threads -> 0..MaxCalls]
      BY <1>0 DEF BarrierTypeOK
    <3>2. Calls(Bump(passed, t)) = Calls(passed) + 1
      BY <2>1, <3>1, CallsBump
    <3> QED BY <2>1, <3>2 DEF Calls
  <2>3. Cardinality(Inside') = Cardinality(Inside) - 1
    BY <1>0, <2>1, SetFacts
  <2>4. \A u \in Threads : arrived'[u] = passed'[u] + IF u \in Inside' THEN 1 ELSE 0
    BY <1>0, <2>1 DEF BarrierTypeOK, CallInv, Bump
  <2> QED BY <1>0, <2>2, <2>3, <2>4 DEF CallInv
<1>4. CASE UNCHANGED barrierVars
  BY <1>0, <1>4, SameCalls DEF barrierVars, Inside
<1> QED BY <1>1, <1>2, <1>3, <1>4, BarrierActions

\* What a step leaves of the serial threads and of the counts.
LEMMA SameSerials ==
  ASSUME SerialInv, UNCHANGED <<Uncounted, Releasing, Serials, Count, seq, cnt, serial, arrived>>
  PROVE  SerialInv'
<1>1. Calls(arrived)' = Calls(arrived)
  BY DEF Calls
<1> QED BY <1>1 DEF SerialInv

LEMMA SerialStep ==
  ASSUME BarrierInv, BarrierNext
  PROVE  SerialInv'
<1>0. /\ BarrierTypeOK /\ SerialInv /\ Uncounted \in SUBSET Threads /\ Serials \in SUBSET Threads
      /\ Releasing \in SUBSET Threads
      /\ Cardinality(Uncounted) \in Nat /\ Cardinality(Serials) \in Nat
      /\ seq \in Nat /\ cnt \in Nat /\ serial \in Nat /\ Calls(arrived) \in Nat
      /\ Count \in Nat \ {0} /\ total \in Nat /\ total = Count - 1
  BY SetFacts, CallsType, CountFacts DEF BarrierInv, BarrierTypeOK, Uncounted, Serials, Releasing
<1>p. Count * seq \in Nat /\ Count * (seq + 1) = Count * seq + Count
  BY <1>0
<1>1. ASSUME NEW t \in Threads, Quiet(t) PROVE SerialInv'
  <2>1. UNCHANGED <<Uncounted, Releasing, Serials, Count, seq, cnt, serial, arrived>>
    BY <1>0, <1>1, QuietSets DEF history, Count
  <2> QED BY <1>0, <2>1, SameSerials
<1>2. ASSUME NEW t \in Threads, StartWait(t) PROVE SerialInv'
  <2>1. /\ t \notin Uncounted /\ Uncounted' = Uncounted \cup {t}
        /\ UNCHANGED <<Releasing, Serials, Count, seq, cnt, serial>>
    BY <1>0, <1>2, StartSets DEF StartWait
  <2>2. Cardinality(Uncounted') = Cardinality(Uncounted) + 1
    BY <1>0, <2>1, SetFacts
  <2>3. Calls(arrived)' = Calls(arrived) + 1
    <3>1. arrived \in [Threads -> 0..MaxCalls] /\ arrived' = Bump(arrived, t) /\ arrived[t] < MaxCalls
      BY <1>0, <1>2 DEF BarrierTypeOK, StartWait
    <3>2. Calls(Bump(arrived, t)) = Calls(arrived) + 1
      BY <3>1, CallsBump
    <3> QED BY <3>1, <3>2 DEF Calls
  <2> QED BY <1>0, <1>p, <2>1, <2>2, <2>3 DEF SerialInv
<1>3. ASSUME NEW t \in Threads, Arrive(t) PROVE SerialInv'
  <2>1. /\ t \in Uncounted /\ Uncounted' = Uncounted \ {t} /\ cnt' = cnt + 1
        /\ UNCHANGED <<Serials, Count, seq, serial, arrived>>
        /\ Releasing' = IF cnt = total THEN Releasing \cup {t} ELSE Releasing
    BY <1>0, <1>3, ArriveSets DEF Arrive, history
  <2>2. Cardinality(Uncounted') = Cardinality(Uncounted) - 1
    BY <1>0, <2>1, SetFacts
  <2>3. Calls(arrived)' = Calls(arrived)
    BY <2>1 DEF Calls
  <2>5. cnt = total => Releasing = {}
    BY <1>0 DEF SerialInv
  <2>4. Releasing' # {} <=> cnt' >= Count'
    <3>1. CASE cnt = total
      BY <1>0, <2>1, <3>1
    <3>2. CASE cnt # total
      <4>1. Releasing' = Releasing /\ (cnt + 1 >= Count <=> cnt >= Count)
        BY <1>0, <2>1, <3>2
      <4> QED BY <1>0, <2>1, <4>1 DEF SerialInv
    <3> QED BY <3>1, <3>2
  <2>6. \A u, v \in Releasing' : u = v
    BY <1>0, <2>1, <2>5 DEF SerialInv
  <2>7. Count' * seq' + cnt' + Cardinality(Uncounted') <= Calls(arrived)'
    BY <1>0, <1>p, <2>1, <2>2, <2>3 DEF SerialInv
  <2> QED BY <1>0, <2>1, <2>4, <2>6, <2>7 DEF SerialInv
<1>4. ASSUME NEW t \in Threads, Release(t) PROVE SerialInv'
  <2>1. /\ t \in Releasing /\ Releasing' = Releasing \ {t} /\ cnt' = 0 /\ seq' = seq + 1
        /\ t \notin Serials /\ Serials' = Serials \cup {t}
        /\ UNCHANGED <<Uncounted, Count, serial, arrived>>
    BY <1>0, <1>4, ReleaseSets DEF Release, history
  <2>2. Cardinality(Serials') = Cardinality(Serials) + 1
    BY <1>0, <2>1, SetFacts
  <2>3. Calls(arrived)' = Calls(arrived)
    BY <2>1 DEF Calls
  <2>4. Releasing' = {} /\ cnt >= Count
    BY <1>0, <2>1 DEF SerialInv
  <2>5. Count' * seq' + cnt' + Cardinality(Uncounted') <= Calls(arrived)'
    BY <1>0, <1>p, <2>1, <2>3, <2>4 DEF SerialInv
  <2> QED BY <1>0, <2>1, <2>2, <2>4, <2>5 DEF SerialInv
<1>5. ASSUME NEW t \in Threads, Leave(t) PROVE SerialInv'
  <2>1. /\ UNCHANGED <<Uncounted, Releasing, Count, seq, cnt, arrived>>
        /\ Serials' = Serials \ {t}
        /\ serial' = serial + IF t \in Serials THEN 1 ELSE 0
    BY <1>0, <1>5, LeaveSets DEF Leave
  <2>2. Cardinality(Serials') = Cardinality(Serials) - IF t \in Serials THEN 1 ELSE 0
    <3>1. CASE t \in Serials
      BY <1>0, <2>1, <3>1, SetFacts
    <3>2. CASE t \notin Serials
      <4>1. Serials' = Serials
        BY <2>1, <3>2
      <4> QED BY <1>0, <4>1, <3>2
    <3> QED BY <3>1, <3>2
  <2>3. Calls(arrived)' = Calls(arrived)
    BY <2>1 DEF Calls
  <2> QED BY <1>0, <2>1, <2>2, <2>3 DEF SerialInv
<1>6. ASSUME NEW t \in Threads, Destroy(t) PROVE SerialInv'
  <2>1. UNCHANGED <<Uncounted, Releasing, Serials, Count, seq, cnt, serial, arrived>>
    BY <1>0, <1>6, DestroySets DEF Destroy, history
  <2> QED BY <1>0, <2>1, SameSerials
<1>7. CASE UNCHANGED barrierVars
  <2>1. UNCHANGED <<Uncounted, Releasing, Serials, Count, seq, cnt, serial, arrived>>
    BY <1>7 DEF barrierVars, Uncounted, Releasing, Serials, Count
  <2> QED BY <1>0, <2>1, SameSerials
<1> QED BY <1>1, <1>2, <1>3, <1>4, <1>5, <1>6, <1>7, BarrierActions

\* The group that gathers, in a barrier for all.
Gathering == /\ \A t \in Threads : PlaceInGroup(t)
             /\ cnt = Cardinality(Counted)
             /\ Calls(arrived) = Count * seq + Cardinality(Ahead)

LEMMA SameGroup ==
  ASSUME Gathering, UNCHANGED <<seq, cnt, arrived, Count, Counted>>, \A t \in Threads : PlaceInGroup(t)'
  PROVE  Gathering'
<1>1. Calls(arrived)' = Calls(arrived) /\ Ahead' = Ahead
  BY DEF Calls, Ahead
<1> QED BY <1>1 DEF Gathering

LEMMA QuietGroup ==
  ASSUME BarrierTypeOK, Gathering, NEW t \in Threads, Quiet(t)
  PROVE  Gathering'
<1> USE DEF BarrierTypeOK, BarrierPCs, WaitPCs, DestroyPCs, Goto, WaitReturns
<1>1. UNCHANGED <<seq, cnt, arrived, Count>>
  BY QuietSets DEF history, Count
<1>2. ASSUME NEW u \in Threads
      PROVE  /\ PlaceInGroup(u)'
             /\ \/ pc'[u] = "release"
                \/ pc'[u] \in {"check", "wait", "asleep"} /\ mine'[u] = seq
                <=> \/ pc[u] = "release"
                    \/ pc[u] \in {"check", "wait", "asleep"} /\ mine[u] = seq
  <2>1. PlaceInGroup(u)
    BY DEF Gathering
  <2>2. CASE LoadSeq(t) \/ Check(t) \/ GsyncWait(t)
    BY <1>1, <2>1, <2>2 DEF LoadSeq, Check, GsyncWait, PlaceInGroup
  <2>3. CASE WaitInterrupted(t) \/ DestroyWait(t) \/ DestroyLoad(t)
    BY <1>1, <2>1, <2>3 DEF WaitInterrupted, DestroyWait, DestroyLoad, PlaceInGroup
  <2>4. CASE WakeAll(t)
    BY <1>1, <2>1, <2>4 DEF WakeAll, PlaceInGroup
  <2>5. CASE LastWake(t)
    BY <1>1, <2>1, <2>5 DEF LastWake, PlaceInGroup
  <2> QED BY <2>2, <2>3, <2>4, <2>5 DEF Quiet
<1>3. Counted' = Counted
  BY <1>1, <1>2 DEF Counted
<1> QED BY <1>1, <1>2, <1>3, SameGroup

LEMMA GroupFacts ==
  ASSUME BarrierTypeOK
  PROVE  /\ Counted \in SUBSET Threads /\ Cardinality(Counted) \in Nat
         /\ Ahead \in SUBSET Threads /\ Cardinality(Ahead) \in Nat
         /\ seq \in Nat /\ cnt \in Nat /\ Calls(arrived) \in Nat
         /\ Count \in Nat \ {0} /\ total \in Nat /\ total = Count - 1
BY SetFacts, CallsType, CountFacts DEF BarrierTypeOK, Counted, Ahead

LEMMA StartGroup ==
  ASSUME BarrierTypeOK, Gathering, NEW t \in Threads, StartWait(t)
  PROVE  Gathering'
<1>1. /\ pc[t] = "out" /\ pc' = [pc EXCEPT ![t] = "load"] /\ arrived' = Bump(arrived, t)
      /\ arrived[t] < MaxCalls /\ UNCHANGED <<seq, cnt, mine, Count>>
  BY DEF StartWait, Goto, Count
<1>2. arrived[t] = seq /\ arrived \in [Threads -> 0..MaxCalls]
  BY <1>1 DEF Gathering, PlaceInGroup, BarrierTypeOK
<1>3. \A u \in Threads : PlaceInGroup(u)'
  BY <1>1, <1>2, GroupFacts DEF Gathering, PlaceInGroup, BarrierTypeOK, Bump
<1>4. Counted' = Counted
  BY <1>1 DEF Counted, BarrierTypeOK
<1>5. t \notin Ahead /\ Ahead' = Ahead \cup {t}
  BY <1>1, <1>2, GroupFacts DEF Ahead, BarrierTypeOK, Bump
<1>6. Cardinality(Ahead') = Cardinality(Ahead) + 1
  BY <1>5, GroupFacts, SetFacts
<1>7. Calls(arrived)' = Calls(arrived) + 1
  <2>1. Calls(Bump(arrived, t)) = Calls(arrived) + 1
    BY <1>1, <1>2, CallsBump
  <2> QED BY <1>1, <2>1 DEF Calls
<1>8. Count * seq \in Nat
  BY GroupFacts
<1> QED BY <1>1, <1>3, <1>4, <1>6, <1>7, <1>8, GroupFacts DEF Gathering

LEMMA ArriveGroup ==
  ASSUME BarrierTypeOK, Exact, Gathering, NEW t \in Threads, Arrive(t)
  PROVE  Gathering'
<1>1. pc[t] = "count" /\ cnt' = cnt + 1 /\ UNCHANGED <<seq, mine, arrived, Count>>
  BY DEF Arrive, history, Count
<1>2. t \notin Counted /\ mine[t] = seq /\ arrived[t] = seq + 1
  BY <1>1 DEF Counted, Gathering, PlaceInGroup
<1>3. cnt <= total
  <2>1. Cardinality(Counted) <= Cardinality(Threads) /\ Cardinality(Counted) # Cardinality(Threads)
    BY <1>2, GroupFacts, SetFacts
  <2>2. Cardinality(Threads) = Count /\ cnt = Cardinality(Counted)
    BY DEF Exact, Gathering
  <2> QED BY <2>1, <2>2, GroupFacts
<1>4. pc' = [pc EXCEPT ![t] = "check"] \/ pc' = [pc EXCEPT ![t] = "release"]
  BY <1>3, GroupFacts DEF Arrive, Goto
<1>5. \A u \in Threads : PlaceInGroup(u)'
  BY <1>1, <1>2, <1>4, GroupFacts DEF Gathering, PlaceInGroup, BarrierTypeOK
<1>6. Counted' = Counted \cup {t}
  BY <1>1, <1>2, <1>4 DEF Counted, BarrierTypeOK
<1>7. Cardinality(Counted') = Cardinality(Counted) + 1
  BY <1>2, <1>6, GroupFacts, SetFacts
<1>8. Calls(arrived)' = Calls(arrived) /\ Ahead' = Ahead
  BY <1>1 DEF Calls, Ahead
<1> QED BY <1>1, <1>5, <1>7, <1>8 DEF Gathering

\* The last of a group finds all threads counted.
LEMMA ReleaseGroup ==
  ASSUME BarrierTypeOK, SerialInv, Exact, Gathering, NEW t \in Threads, Release(t)
  PROVE  Gathering'
<1>1. /\ pc[t] = "release" /\ pc' = [pc EXCEPT ![t] = "bcast"] /\ seq' = seq + 1 /\ cnt' = 0
      /\ UNCHANGED <<mine, arrived, Count>>
  BY DEF Release, Goto, history, Count
<1>2. Counted = Threads
  <2>1. cnt >= Count
    BY <1>1 DEF SerialInv, Releasing
  <2>2. Cardinality(Threads) = Count /\ cnt = Cardinality(Counted)
    BY DEF Exact, Gathering
  <2>3. Cardinality(Counted) <= Cardinality(Threads)
    BY GroupFacts, SetFacts
  <2>4. Cardinality(Counted) = Cardinality(Threads)
    BY <2>1, <2>2, <2>3, GroupFacts
  <2> QED BY <2>4, GroupFacts, SetFacts
<1>3. ASSUME NEW u \in Threads
      PROVE  /\ arrived[u] = seq + 1
             /\ \/ pc[u] = "release"
                \/ pc[u] \in {"check", "wait", "asleep"} /\ mine[u] = seq
  BY <1>2 DEF Counted, Gathering, PlaceInGroup
<1>4. \A u \in Threads : pc[u] = "release" => u = t
  BY <1>1 DEF SerialInv, Releasing
<1>5. \A u \in Threads : PlaceInGroup(u)'
  BY <1>1, <1>3, <1>4, GroupFacts DEF PlaceInGroup, BarrierTypeOK
<1>6. Counted' = {} /\ Ahead' = {} /\ Ahead = Threads
  BY <1>1, <1>3, <1>4, GroupFacts DEF Counted, Ahead, BarrierTypeOK
<1>7. Calls(arrived)' = Count * (seq + 1)
  <2>1. Calls(arrived)' = Calls(arrived) /\ Calls(arrived) = Count * seq + Count
    BY <1>1, <1>6 DEF Calls, Gathering, Exact
  <2> QED BY <2>1, GroupFacts
<1>8. Count' * seq' = Count * (seq + 1) /\ Count * (seq + 1) \in Nat
  BY <1>1, GroupFacts
<1> QED BY <1>1, <1>5, <1>6, <1>7, <1>8, FS_EmptySet DEF Gathering

LEMMA LeaveGroup ==
  ASSUME BarrierTypeOK, Gathering, NEW t \in Threads, Leave(t) \/ Destroy(t)
  PROVE  Gathering'
<1>1. /\ pc[t] \in {"leave", "sleave", "out"} /\ UNCHANGED <<seq, cnt, arrived, Count>>
      /\ \E l \in {"lastwake", "out", "destroyed", "dwait"} : pc' = [pc EXCEPT ![t] = l]
      /\ \E n : mine' = [mine EXCEPT ![t] = n]
  BY DEF Leave, Destroy, Goto, history, Count
<1>2. \A u \in Threads : PlaceInGroup(u)'
  BY <1>1 DEF Gathering, PlaceInGroup, BarrierTypeOK
<1>3. Counted' = Counted
  BY <1>1 DEF Counted, BarrierTypeOK
<1> QED BY <1>1, <1>2, <1>3, SameGroup

LEMMA GroupStep ==
  ASSUME BarrierInv, BarrierNext
  PROVE  GroupInv'
<1>1. Exact' = Exact
  BY DEF BarrierNext, BarrierStep, LoadSeq, Arrive, Check, GsyncWait, WaitInterrupted, Release, WakeAll, Leave, LastWake,
         DestroyWait, DestroyLoad, Destroy, StartWait, barrierVars, Exact, Count
<1> SUFFICES ASSUME Exact PROVE Gathering'
  BY <1>1 DEF GroupInv, Gathering
<1>2. BarrierTypeOK /\ SerialInv /\ Gathering
  BY DEF BarrierInv, GroupInv, Gathering
<1>3. CASE UNCHANGED barrierVars
  BY <1>2, <1>3, SameGroup DEF barrierVars, Counted, Count, Gathering, PlaceInGroup
<1> QED BY <1>2, <1>3, BarrierActions, QuietGroup, StartGroup, ArriveGroup, ReleaseGroup, LeaveGroup

LEMMA BarrierInvStep == BarrierInv /\ [BarrierNext]_barrierVars => BarrierInv'
<1>1. CASE BarrierInv /\ BarrierNext
  BY <1>1, BarrierTypeStep, RefStep, CallStep, SerialStep, GroupStep DEF BarrierInv
<1>2. CASE BarrierInv /\ UNCHANGED barrierVars
  BY <1>2 DEF barrierVars, BarrierInv, BarrierTypeOK, RefInv, CallInv, SerialInv, GroupInv, PlaceInGroup,
             Inside, Uncounted, Releasing, Serials, Counted, Ahead, Destroying, Exact, Count, Calls
<1> QED BY <1>1, <1>2

\* The fields of a barrier keep their types: nrefs never goes below zero.
THEOREM BarrierTypeCorrect == BarrierSpec => []BarrierTypeOK
<1> QED BY BarrierInitInv, BarrierInvStep, PTL DEF BarrierSpec, BarrierInv

\* pthread_barrier_wait, for any number of threads and any count: one serial thread at
\* most for each Count arrivals; with Count threads, exact groups.
THEOREM GroupsTheorem == BarrierSpec => []ExactGroups
<1>1. BarrierInv => ExactGroups
  <2> SUFFICES ASSUME BarrierInv PROVE ExactGroups
    OBVIOUS
  <2>0. /\ BarrierTypeOK /\ CallInv /\ SerialInv /\ GroupInv /\ Count \in Nat \ {0}
        /\ seq \in Nat /\ cnt \in Nat /\ serial \in Nat /\ Calls(arrived) \in Nat /\ Calls(passed) \in Nat
        /\ Inside \in SUBSET Threads /\ Serials \in SUBSET Threads
        /\ Cardinality(Uncounted) \in Nat /\ Cardinality(Serials) \in Nat /\ Cardinality(Inside) \in Nat
    BY CallsType, GroupFacts, SetFacts DEF BarrierInv, BarrierTypeOK, Inside, Serials, Uncounted
  <2>1. Count * seq <= Calls(arrived) /\ serial <= seq /\ Count * seq \in Nat
    BY <2>0 DEF SerialInv
  <2>2. OneSerialPerGroup
    <3>1. serial * Count <= Count * seq
      BY <2>0, <2>1
    <3> QED BY <2>0, <2>1, <3>1 DEF OneSerialPerGroup
  <2>3. ASSUME Exact PROVE ReleasedInGroups /\ NobodyGetsAhead
    <3>1. \A t \in Threads : PlaceInGroup(t) /\ arrived[t] \in Nat /\ passed[t] \in Nat
      <4>1. \A n \in 0..MaxCalls : n \in Nat
        BY BarrierAssumption
      <4> QED BY <2>0, <2>3, <4>1 DEF GroupInv, BarrierTypeOK
    <3>2. \A t \in Threads : /\ seq <= arrived[t] /\ passed[t] <= seq
                             /\ arrived[t] = seq + 1 => t \in Inside
      <4> SUFFICES ASSUME NEW t \in Threads
                   PROVE  seq <= arrived[t] /\ passed[t] <= seq /\ (arrived[t] = seq + 1 => t \in Inside)
        OBVIOUS
      <4>1. arrived[t] \in Nat /\ passed[t] \in Nat /\ arrived[t] = passed[t] + IF t \in Inside THEN 1 ELSE 0
        BY <2>0, <3>1 DEF CallInv
      <4>2. \/ arrived[t] = seq
            \/ arrived[t] = seq + 1 /\ pc[t] \in {"load", "count", "release", "check", "wait", "asleep"}
        BY <3>1 DEF PlaceInGroup
      <4>3. arrived[t] = seq + 1 => t \in Inside
        BY <2>0, <4>2 DEF Inside, WaitPCs
      <4> QED BY <2>0, <4>1, <4>2, <4>3
    <3>3. NobodyGetsAhead
      BY <2>0, <3>1, <3>2 DEF NobodyGetsAhead
    <3>4. Calls(passed) <= Count * seq
      <4>1. Ahead \in SUBSET Inside /\ IsFiniteSet(Inside)
        BY <2>0, <3>2, SetFacts DEF Ahead
      <4>2. Cardinality(Ahead) <= Cardinality(Inside) /\ Cardinality(Ahead) \in Nat
        BY <4>1, FS_Subset, FS_CardinalityType
      <4> QED BY <2>0, <2>1, <2>3, <4>2 DEF CallInv, GroupInv
    <3>5. Count * seq <= Count * (Calls(arrived) \div Count)
      <4>1. seq <= Calls(arrived) \div Count
        BY <2>0, <2>1
      <4> QED BY <2>0, <4>1
    <3> QED BY <2>0, <2>1, <3>3, <3>4, <3>5 DEF ReleasedInGroups
  <2>4. ASSUME Exact, Calls(passed) = Calls(arrived) PROVE serial * Count = Calls(arrived)
    <3>1. Inside = {}
      BY <2>0, <2>4, SetFacts DEF CallInv
    <3>2. Serials = {}
      BY <3>1 DEF Serials, Inside, WaitPCs
    <3>3. Ahead = {}
      BY <2>0, <2>4, <3>1 DEF Ahead, Inside, WaitPCs, GroupInv, PlaceInGroup
    <3> QED BY <2>0, <2>1, <2>4, <3>2, <3>3, FS_EmptySet DEF SerialInv, GroupInv
  <2> QED BY <2>2, <2>3, <2>4 DEF ExactGroups
<1> QED BY <1>1, BarrierInitInv, BarrierInvStep, PTL DEF BarrierSpec

\* pthread_barrier_destroy, for any number of threads: it returns after the last call
\* of pthread_barrier_wait has dropped its reference.
THEOREM DestroyTheorem == BarrierSpec => []DestroyedLast
<1>1. BarrierInv => DestroyedLast
  <2> SUFFICES ASSUME BarrierInv, NEW t \in Threads, pc[t] = "destroyed", NEW u \in Threads \ {t}
               PROVE  pc[u] \in {"out", "lastwake"}
    BY DEF DestroyedLast
  <2>1. Inside \in SUBSET Threads /\ Cardinality(Inside) \in Nat
    BY SetFacts DEF Inside
  <2>2. Inside = {}
    <3>1. Cardinality(Inside) = 0
      BY <2>1 DEF BarrierInv, RefInv
    <3> QED BY <2>1, <3>1, SetFacts
  <2>3. pc[u] \notin DestroyPCs
    BY DEF BarrierInv, RefInv, DestroyPCs
  <2> QED BY <2>2, <2>3 DEF Inside, BarrierInv, BarrierTypeOK, BarrierPCs
<1> QED BY <1>1, BarrierInitInv, BarrierInvStep, PTL DEF BarrierSpec

-----------------------------------------------------------------------------
\* Cancellation.

\* The port is forgotten as the call of a cancellation point returns.
PlaceInv == at = "after" => port = "null"

\* What a canceller saw before it suspended the target.
SeenInv == \A c \in Cancellers :
             call[c] \in {"suspend", "redirect"} => "async" \in old[c] /\ old[c] \cap {"disable", "exiting"} = {}

CancelInv == CancelTypeOK /\ PlaceInv /\ SeenInv

LEMMA CancelInitInv == CancelInit => CancelInv
BY DEF CancelInit, CancelInv, CancelTypeOK, PlaceInv, SeenInv, Places, Flags

LEMMA CancelTypeStep == CancelTypeOK /\ [CancelNext]_cancelVars => CancelTypeOK'
<1> SUFFICES ASSUME CancelTypeOK, [CancelNext]_cancelVars PROVE CancelTypeOK'
  OBVIOUS
<1> USE DEF CancelTypeOK, Places, Flags, cancellers
<1>1. CASE SetCancelState \/ SetCancelType \/ TestCancel \/ Begin \/ CancelSelf
  BY <1>1 DEF SetCancelState, SetCancelType, SetFlag, TestCancel, Begin, CancelSelf, Request
<1>2. CASE Proceeds \/ TrapReturns \/ Again \/ End \/ Exit
  BY <1>2 DEF Proceeds, ExitThread, Quit, Finish, EnterRpc, Trap, TrapReturns, Again, End, Exit
<1>3. ASSUME NEW c \in Cancellers, CancelStep(c) PROVE CancelTypeOK'
  BY <1>3 DEF CancelStep, Mark, MarkAsync, Gone, Suspend, Redirect, Request
<1>4. CASE UNCHANGED cancelVars
  BY <1>4 DEF cancelVars
<1> QED BY <1>1, <1>2, <1>3, <1>4 DEF CancelNext, Target

LEMMA PlaceStep == CancelInv /\ CancelNext => PlaceInv'
<1> SUFFICES ASSUME CancelTypeOK, PlaceInv, CancelNext PROVE PlaceInv'
  BY DEF CancelInv
<1> USE DEF PlaceInv, Runs, cancellers
<1>1. CASE SetCancelState \/ SetCancelType \/ TestCancel \/ Begin \/ CancelSelf
  BY <1>1 DEF SetCancelState, SetCancelType, SetFlag, TestCancel, Begin, CancelSelf, Request
<1>2. CASE Proceeds \/ TrapReturns \/ Again \/ End \/ Exit
  BY <1>2 DEF Proceeds, ExitThread, Quit, Finish, EnterRpc, Trap, TrapReturns, Again, End, Exit
<1>3. ASSUME NEW c \in Cancellers, CancelStep(c) PROVE PlaceInv'
  BY <1>3 DEF CancelStep, Mark, MarkAsync, Gone, Suspend, Redirect, Request
<1> QED BY <1>1, <1>2, <1>3 DEF CancelNext, Target

LEMMA SeenStep == CancelInv /\ CancelNext => SeenInv'
<1> SUFFICES ASSUME CancelTypeOK, SeenInv, CancelNext PROVE SeenInv'
  BY DEF CancelInv
<1>1. CASE Target
  <2>1. UNCHANGED <<call, old>>
    BY <1>1 DEF Target, SetCancelState, SetCancelType, SetFlag, TestCancel, Begin, CancelSelf, cancellers,
                Proceeds, ExitThread, Quit, Finish, EnterRpc, Trap, TrapReturns, Again, End, Exit
  <2> QED BY <2>1 DEF SeenInv
<1>2. ASSUME NEW c \in Cancellers, MarkAsync(c) PROVE SeenInv'
  <2>1. "async" \in flags /\ flags \cap {"disable", "exiting"} = {}
    BY <1>2 DEF MarkAsync, DueAtOnce, Due, Request
  <2> QED BY <1>2, <2>1 DEF MarkAsync, SeenInv, CancelTypeOK
<1>3. ASSUME NEW c \in Cancellers, CancelStep(c), ~MarkAsync(c) PROVE SeenInv'
  BY <1>3 DEF CancelStep, Mark, Gone, Suspend, Redirect, SeenInv, CancelTypeOK
<1> QED BY <1>1, <1>2, <1>3 DEF CancelNext

LEMMA CancelInvStep == CancelInv /\ [CancelNext]_cancelVars => CancelInv'
<1>1. CASE CancelNext
  BY <1>1, CancelTypeStep, PlaceStep, SeenStep DEF CancelInv
<1>2. CASE UNCHANGED cancelVars
  BY <1>2 DEF cancelVars, CancelInv, CancelTypeOK, PlaceInv, SeenInv, Runs
<1> QED BY <1>1, <1>2

\* The flags, the places of the target and the calls of the cancellers keep their
\* types.
THEOREM CancelTypeCorrect == CancelSpec => []CancelTypeOK
<1> QED BY CancelInitInv, CancelInvStep, PTL DEF CancelSpec, CancelInv

\* pthread_cancel: a thread whose own flags are still those the canceller read is sent to
\* exit_thread only while it may be cancelled at once; and, whatever it did in between, a
\* thread found in a cancellation point is not sent there once a call has returned.
THEOREM ForcedTheorem == CancelSpec => ForcedWhereAllowed
<1> DEFINE Allowed == \A c \in Cancellers :
             call[c] = "redirect" /\ call'[c] = "done" /\ at \notin {"exit", "quit"} =>
               /\ \/ "async" \in flags /\ flags \cap {"disable", "exiting"} = {}
                  \/ Own(flags) # Own(old[c])
               /\ at \in {"entry", "after"} => "trans" \notin old[c]
<1>1. CancelInv /\ [CancelNext]_cancelVars => [Allowed]_cancelVars
  <2> SUFFICES ASSUME CancelInv, CancelNext, NEW c \in Cancellers,
                      call[c] = "redirect", call'[c] = "done"
               PROVE  /\ \/ "async" \in flags /\ flags \cap {"disable", "exiting"} = {}
                         \/ Own(flags) # Own(old[c])
                      /\ at \in {"entry", "after"} => "trans" \notin old[c]
    OBVIOUS
  <2>1. Redirect(c)
    <3>1. CASE Target
      BY <3>1 DEF Target, SetCancelState, SetCancelType, SetFlag, TestCancel, Begin, CancelSelf, cancellers,
                  Proceeds, ExitThread, Quit, Finish, EnterRpc, Trap, TrapReturns, Again, End, Exit
    <3>2. ASSUME NEW d \in Cancellers, CancelStep(d), ~ (d = c /\ Redirect(c)) PROVE FALSE
      BY <3>2 DEF CancelStep, Mark, MarkAsync, Gone, Suspend, Redirect, CancelInv, CancelTypeOK
    <3> QED BY <3>1, <3>2 DEF CancelNext
  <2>2. ASSUME Own(flags) = Own(old[c])
        PROVE  "async" \in flags /\ flags \cap {"disable", "exiting"} = {}
    <3>1. "async" \in Own(old[c]) /\ "disable" \notin Own(old[c]) /\ "exiting" \notin Own(old[c])
      BY DEF CancelInv, SeenInv, Own
    <3> QED BY <2>2, <3>1 DEF Own
  <2>3. ASSUME "trans" \in old[c] PROVE at \notin {"entry", "after"}
    <3>1. port # "null" /\ at # "entry"
      BY <2>1, <2>3 DEF Redirect, InCancelPoint, CancelInv, CancelTypeOK
    <3> QED BY <3>1 DEF CancelInv, PlaceInv
  <2> QED BY <2>2, <2>3
<1> QED BY <1>1, CancelInitInv, CancelInvStep, PTL DEF CancelSpec, ForcedWhereAllowed

-----------------------------------------------------------------------------
\* Thread-specific data.

Data == [key : Nat, inc : Nat, gen : Nat]
Entries == [seq : Nat, data : Data]
Args == [key : Nat, seq : Nat, val : Data]
Scans == [iter : Nat, p : Nat, q : Int, lp : Entries, fn : Data, seen : Nat]
TsdPCs == {"run", "look", "cas", "store", "delete", "set", "scan", "compare", "fetch", "destr", "gone"}

TsdTypeOK == /\ keySeq \in [Keys -> Nat] /\ destr \in [Keys -> Data] /\ held \subseteq Keys /\ gen \in Nat
             /\ specific \in [Threads -> [Keys -> Entries]] /\ specific_used \in [Threads -> BOOLEAN]
             /\ pc \in [Threads -> TsdPCs] /\ arg \in [Threads -> Args]
             /\ scan \in [Threads -> Scans]

\* The destructor of a key in use is in its place.
Storing(t, k) == pc[t] = "store" /\ arg[t].key = k
Settled(k) == /\ destr[k] \in {NULL, Origin(k, keySeq[k])}
              /\ \A t \in Threads : ~ Storing(t, k)

\* One thread at a time creates or deletes a key, and none one that is held.
KeyInv ==
  /\ \A k \in held : /\ keySeq[k] % 2 = 1 /\ Settled(k)
                     /\ \A t \in Threads : ~ (pc[t] = "delete" /\ arg[t].key = k)
  /\ \A t \in Threads :
       /\ pc[t] \in {"store", "delete"} =>
            /\ arg[t].key \in Keys /\ keySeq[arg[t].key] % 2 = 1
            /\ \A u \in Threads : pc[u] \in {"store", "delete"} /\ arg[u].key = arg[t].key => u = t
       /\ pc[t] = "store" => keySeq[arg[t].key] = arg[t].seq + 1
       /\ pc[t] = "cas" => arg[t].key \in Keys /\ arg[t].seq % 2 = 0

\* An entry of key k: empty, left by the parent of a fork, or stored for an
\* incarnation of the key that has its destructor.
Good(k, e) == \/ e.data = NULL \/ e.data.gen < gen
              \/ /\ e.data = Origin(k, e.seq) /\ e.seq <= keySeq[k]
                 /\ e.seq = keySeq[k] => Settled(k)

ValueInv == \A t \in Threads :
              /\ \A k \in Keys : Good(k, specific[t][k])
              /\ pc[t] = "set" => arg[t].key \in Keys /\ Good(arg[t].key, [seq |-> arg[t].seq, data |-> arg[t].val])

\* The walk through a table: the entry in hand was stored for the key at its place,
\* and so was a destructor that fits, unless the key went on.
ScanInv == \A t \in Threads :
  LET s == scan[t] IN
  /\ pc[t] \in {"run", "look", "cas", "store", "delete", "gone"} => ~ Exiting(t)
  /\ pc[t] \in {"scan", "compare", "fetch", "destr"} => Exiting(t)
  /\ Exiting(t) => s.iter < Iterations
  /\ pc[t] \in {"compare", "fetch", "destr"} \/ (pc[t] = "set" /\ Exiting(t)) => s.lp.data # NULL
  /\ s.lp.data # NULL => s.p \in Keys /\ Good(s.p, s.lp)
  /\ pc[t] = "compare" => s.fn = NULL
  /\ pc[t] = "fetch" /\ s.q = s.p => s.seen = s.lp.seq
  /\ s.fn # NULL => /\ s.lp.data # NULL
                    /\ s.q # s.p \/ s.lp.data.gen # gen \/ s.seen < keySeq[s.p] \/ s.fn = s.lp.data

\* What the walk has left behind is empty unless something was stored meanwhile.
LeftInv == \A t \in Threads :
  specific_used[t] \/ \A k \in Keys : k < scan[t].p \/ (k = scan[t].p /\ scan[t].lp.data # NULL) =>
                                        specific[t][k].data = NULL

TsdInv == TsdTypeOK /\ KeyInv /\ ValueInv /\ ScanInv /\ LeftInv

-----------------------------------------------------------------------------

LEMMA TsdFacts ==
  /\ Keys \subseteq Nat /\ L1 \in Nat /\ L2 \in Nat /\ Iterations \in Nat \ {0}
  /\ NULL \in Data /\ Wild \in Data /\ NoEntry \in Entries /\ NotExiting \in Scans
  /\ NoArg \in Args
  /\ NoEntry.data = NULL /\ NotExiting.iter = Iterations /\ NotExiting.p = 0
  /\ NotExiting.lp.data = NULL /\ NotExiting.fn = NULL
BY SpecificAssumption DEF Keys, NULL, Wild, NoEntry, NotExiting, NoArg, Data, Entries, Scans, Args

LEMMA OriginFacts ==
  ASSUME TsdTypeOK, NEW k \in Keys, NEW n \in Nat
  PROVE  Origin(k, n) \in Data /\ Origin(k, n).gen = gen
BY TsdFacts DEF TsdTypeOK, Origin, Data

\* A key that the walk takes an entry for is a number.
LEMMA KeyOfType ==
  ASSUME TsdTypeOK, NEW t \in Threads, NEW p \in Keys
  PROVE  KeyOf(t, p) \in Int
<1>1. Cardinality(Absent(t, p)) \in Nat
  <2>1. IsFiniteSet(Blocks)
    BY TsdFacts, FS_Interval DEF Blocks
  <2>2. Absent(t, p) \subseteq Blocks
    BY DEF Absent
  <2> HIDE DEF Absent
  <2>3. IsFiniteSet(Absent(t, p))
    BY <2>1, <2>2, FS_Subset
  <2> QED BY <2>3, FS_CardinalityType
<1>2. scan[t].q \in Int /\ scan[t].p \in Int /\ p \in Int
  BY TsdFacts DEF TsdTypeOK, Scans
<1>3. Cardinality(Absent(t, p)) * (L1 - L2) \in Int
  BY <1>1, TsdFacts
<1> QED BY <1>2, <1>3 DEF KeyOf

\* A step of a thread in its call leaves the others' calls and tables alone.
TsdCall(t) == TsdStep(t) \/ Call(t)

LEMMA TsdActions ==
  TsdNext => \E t \in Threads : TsdCall(t) \/ ForkChild(t)
BY DEF TsdNext, TsdCall

LEMMA OthersKept ==
  ASSUME TsdTypeOK, NEW t \in Threads, TsdCall(t), NEW u \in Threads, u # t
  PROVE  /\ pc'[u] = pc[u] /\ arg'[u] = arg[u] /\ scan'[u] = scan[u]
         /\ specific'[u] = specific[u] /\ specific_used'[u] = specific_used[u]
<1> USE DEF TsdTypeOK, Move, Pass, At, Saw, SkipOn, keys, table, control
<1>1. CASE Create(t) \/ CreateLook(t) \/ CreateCas(t) \/ CreateStore(t)
  BY <1>1 DEF Create, CreateLook, CreateCas, CreateStore
<1>2. CASE Delete(t) \/ DeleteAdd(t)
  BY <1>2 DEF Delete, DeleteAdd
<1>3. CASE Set(t)
  BY <1>3 DEF Set
<1>4. CASE SetStore(t)
  BY <1>4 DEF SetStore
<1>5. CASE Get(t)
  BY <1>5 DEF Get
<1>6. CASE DeallocTsd(t)
  BY <1>6 DEF DeallocTsd
<1>7. CASE Find(t)
  BY <1>7 DEF Find
<1>8. CASE Compare(t)
  BY <1>8 DEF Compare
<1>9. CASE Fetch(t)
  BY <1>9 DEF Fetch
<1>10. CASE EndOfPass(t)
  BY <1>10 DEF EndOfPass, Clear
<1>11. CASE DestructorReturns(t)
  BY <1>11 DEF DestructorReturns
<1> QED BY <1>1, <1>2, <1>3, <1>4, <1>5, <1>6, <1>7, <1>8, <1>9, <1>10, <1>11 DEF TsdCall, TsdStep, Call

LEMMA PassType ==
  ASSUME TsdTypeOK, NEW t \in Threads, NEW k \in Nat, NEW n \in Nat, NEW v \in Data, Pass(t, k, n, v)
  PROVE  arg' \in [Threads -> Args]
BY DEF TsdTypeOK, Pass, Args

LEMMA AtType ==
  ASSUME TsdTypeOK, NEW t \in Threads, NEW i \in Nat, NEW p \in Nat, NEW q \in Int, NEW lp \in Entries,
         NEW fn \in Data, At(t, i, p, q, lp, fn)
  PROVE  scan' \in [Threads -> Scans]
BY DEF TsdTypeOK, At, Scans

LEMMA RaiseType ==
  ASSUME NEW S, NEW f \in [S -> Nat], NEW k \in S
  PROVE  [f EXCEPT ![k] = @ + 1] \in [S -> Nat]
OBVIOUS

LEMMA TsdTypeStep == TsdInv /\ [TsdNext]_tsdVars => TsdTypeOK'
<1> SUFFICES ASSUME TsdInv, TsdNext PROVE TsdTypeOK'
  BY DEF TsdInv, TsdTypeOK, tsdVars, keys, table, control
<1> PICK t \in Threads : TsdCall(t) \/ ForkChild(t)
  BY TsdActions
<1>0. TsdTypeOK /\ KeyInv /\ ValueInv
  BY DEF TsdInv
<1> USE TsdFacts, <1>0 DEF TsdTypeOK, Move, TsdPCs, keys, table, control
<1>a. \A u \in Threads : arg[u].key \in Nat /\ arg[u].seq \in Nat /\ arg[u].val \in Data
  BY DEF Args
<1>b. \A u \in Threads : scan[u].iter \in Nat /\ scan[u].p \in Nat /\ scan[u].q \in Int /\ scan[u].lp \in Entries
  BY DEF Scans
<1>c. ASSUME Pass(t, 0, 0, NULL) PROVE arg' \in [Threads -> Args]
  BY <1>c, PassType
<1>d. ASSUME SkipOn(t) PROVE scan' \in [Threads -> Scans]
  <2>1. scan[t].p + 1 \in Nat /\ scan[t].q + 1 \in Int
    BY <1>b
  <2> QED BY <1>b, <1>d, <2>1, AtType DEF SkipOn
<1>1. CASE Create(t)
  BY <1>1, <1>c DEF Create
<1>2. CASE CreateLook(t)
  <2>1. arg[t].key + 1 \in Nat /\ (arg[t].key \in Keys => keySeq[arg[t].key] \in Nat)
    BY <1>a
  <2>2. arg' \in [Threads -> Args]
    BY <1>2, <1>a, <1>c, <2>1, PassType DEF CreateLook
  <2> QED BY <1>2, <2>2 DEF CreateLook
<1>3. CASE CreateCas(t)
  <2>1. arg[t].key + 1 \in Nat /\ arg[t].key \in Keys
    BY <1>3, <1>a DEF CreateCas, KeyInv
  <2>2. arg' \in [Threads -> Args]
    BY <1>3, <2>1, PassType DEF CreateCas
  <2> QED BY <1>3, <2>1, <2>2 DEF CreateCas
<1>4. CASE CreateStore(t)
  <2>1. PICK fn \in {NULL, Origin(arg[t].key, arg[t].seq + 1)} : destr' = [destr EXCEPT ![arg[t].key] = fn]
    BY <1>4 DEF CreateStore
  <2>2. arg[t].key \in Keys /\ arg[t].seq + 1 \in Nat
    BY <1>4, <1>a DEF CreateStore, KeyInv
  <2>3. Origin(arg[t].key, arg[t].seq + 1) \in Data
    BY <2>2, OriginFacts
  <2>4. fn \in Data
    BY <2>1, <2>3
  <2>5. destr' \in [Keys -> Data] /\ held' \subseteq Keys
    BY <1>4, <2>1, <2>2, <2>4 DEF CreateStore
  <2> QED BY <1>4, <1>c, <2>5 DEF CreateStore
<1>5. CASE Delete(t)
  <2>1. arg' \in [Threads -> Args]
    BY <1>5, PassType DEF Delete
  <2> QED BY <1>5, <2>1 DEF Delete
<1>6. CASE DeleteAdd(t)
  <2>1. arg[t].key \in Keys
    BY <1>6 DEF DeleteAdd, KeyInv
  <2>2. keySeq' \in [Keys -> Nat]
    BY <1>6, <2>1, RaiseType DEF DeleteAdd
  <2> QED BY <1>6, <1>c, <2>2 DEF DeleteAdd
<1>7. CASE Set(t)
  <2>1. PICK k \in held : \E v \in {NULL, Origin(k, keySeq[k])} : Pass(t, k, keySeq[k], v) /\ Move(t, pc[t], "set")
    BY <1>7 DEF Set
  <2>2. PICK v \in {NULL, Origin(k, keySeq[k])} : Pass(t, k, keySeq[k], v) /\ Move(t, pc[t], "set")
    BY <2>1
  <2>3. v \in Data /\ k \in Nat /\ keySeq[k] \in Nat
    BY <2>1, <2>2, OriginFacts
  <2>4. arg' \in [Threads -> Args]
    BY <2>2, <2>3, PassType
  <2> QED BY <1>7, <2>2, <2>4 DEF Set
<1>8. CASE SetStore(t)
  <2>1. arg[t].key \in Keys
    BY <1>8 DEF SetStore, ValueInv
  <2>2. Entry(arg[t].seq, arg[t].val) \in Entries
    BY <1>a DEF Entry, Entries
  <2>3. specific' \in [Threads -> [Keys -> Entries]]
    BY <1>8, <2>1, <2>2 DEF SetStore
  <2>4. specific_used' \in [Threads -> BOOLEAN]
    BY <1>8 DEF SetStore
  <2> QED BY <1>8, <1>c, <2>3, <2>4 DEF SetStore, Caller
<1>9. CASE Get(t)
  BY <1>9 DEF Get
<1>10. CASE DeallocTsd(t)
  <2>1. scan' \in [Threads -> Scans]
    BY <1>10, AtType DEF DeallocTsd
  <2> QED BY <1>10, <2>1 DEF DeallocTsd
<1>11. CASE Find(t)
  <2>1. PICK p \in Left(t) : /\ At(t, scan[t].iter, p, KeyOf(t, p), specific[t][p], NULL)
                             /\ specific' = [specific EXCEPT ![t][p] = NoEntry]
    BY <1>11 DEF Find
  <2>2. p \in Keys /\ KeyOf(t, p) \in Int /\ specific[t][p] \in Entries
    BY KeyOfType DEF Left
  <2>3. scan' \in [Threads -> Scans]
    BY <1>b, <2>1, <2>2, AtType
  <2>4. specific' \in [Threads -> [Keys -> Entries]]
    BY <2>1, <2>2
  <2> QED BY <1>11, <2>3, <2>4 DEF Find
<1>13. CASE Compare(t)
  <2>1. ASSUME Saw(t) PROVE scan' \in [Threads -> Scans]
    BY <2>1 DEF Saw, Scans
  <2> QED BY <1>d, <1>13, <2>1 DEF Compare
<1>14. CASE Fetch(t)
  <2>1. ASSUME NEW fn \in Data, scan' = [scan EXCEPT ![t].fn = fn] PROVE scan' \in [Threads -> Scans]
    BY <2>1 DEF Scans
  <2> QED BY <1>d, <1>14, <2>1 DEF Fetch
<1>15. CASE EndOfPass(t)
  <2>1. scan' \in [Threads -> Scans]
    <3>1. scan[t].iter + 1 \in Nat
      BY <1>b
    <3>2. At(t, scan[t].iter + 1, 0, 0, NoEntry, NULL) => scan' \in [Threads -> Scans]
      BY <3>1, AtType
    <3> QED BY <1>15, <3>2 DEF EndOfPass
  <2>2. [k \in Keys |-> NoEntry] \in [Keys -> Entries]
    OBVIOUS
  <2>3. specific' \in [Threads -> [Keys -> Entries]]
    BY <1>15, <2>2 DEF EndOfPass, Clear
  <2>4. specific_used' \in [Threads -> BOOLEAN]
    BY <1>15 DEF EndOfPass, Clear
  <2> QED BY <1>15, <2>1, <2>3, <2>4 DEF EndOfPass
<1>16. CASE DestructorReturns(t)
  BY <1>d, <1>16 DEF DestructorReturns
<1>17. CASE ForkChild(t)
  BY <1>17 DEF ForkChild
<1> QED BY <1>1, <1>2, <1>3, <1>4, <1>5, <1>6, <1>7, <1>8, <1>9, <1>10, <1>11, <1>13, <1>14, <1>15, <1>16, <1>17
        DEF TsdCall, TsdStep, Call

LEMMA TsdInitInv == TsdInit => TsdInv
<1> SUFFICES ASSUME TsdInit PROVE TsdInv
  OBVIOUS
<1>1. TsdTypeOK
  <2>1. \A k \in Keys : [key |-> k, inc |-> 1, gen |-> 0] \in Data
    BY TsdFacts DEF Data
  <2>2. destr \in [Keys -> Data]
    BY <2>1, TsdFacts DEF TsdInit
  <2> QED BY <2>2, TsdFacts DEF TsdInit, TsdTypeOK, TsdPCs
<1>2. KeyInv /\ ValueInv
  BY TsdFacts DEF TsdInit, KeyInv, ValueInv, Good
<1>3. ScanInv
  BY TsdFacts DEF TsdInit, ScanInv, Exiting
<1>4. LeftInv
  BY TsdFacts DEF TsdInit, LeftInv
<1> QED BY <1>1, <1>2, <1>3, <1>4 DEF TsdInv

\* The steps that leave the keys alone, and store nothing into them.
KeyStep(t) == CreateCas(t) \/ CreateStore(t) \/ Delete(t) \/ DeleteAdd(t)

LEMMA OtherSteps ==
  ASSUME TsdTypeOK, NEW t \in Threads, TsdCall(t), ~ KeyStep(t)
  PROVE  /\ UNCHANGED keys
         /\ pc[t] \notin {"store", "delete"} /\ pc'[t] \notin {"store", "delete"}
         /\ pc'[t] = "cas" => CreateLook(t)
<1> USE DEF TsdTypeOK, Move, keys, control
<1>1. CASE Create(t) \/ CreateLook(t)
  BY <1>1 DEF Create, CreateLook
<1>2. CASE Set(t) \/ SetStore(t) \/ Get(t)
  BY <1>2 DEF Set, SetStore, Get, Caller
<1>3. CASE DeallocTsd(t) \/ Find(t)
  BY <1>3 DEF DeallocTsd, Find
<1>4. CASE Compare(t) \/ Fetch(t) \/ EndOfPass(t) \/ DestructorReturns(t)
  BY <1>4 DEF Compare, Fetch, EndOfPass, DestructorReturns
<1> QED BY <1>1, <1>2, <1>3, <1>4 DEF TsdCall, TsdStep, Call, KeyStep

\* The numbers of the keys only grow, and a destructor stays while its key does.
LEMMA KeysGrow ==
  ASSUME TsdInv, NEW t \in Threads, TsdCall(t)
  PROVE  /\ gen' = gen
         /\ \A k \in Keys : /\ keySeq'[k] \in Nat /\ keySeq'[k] >= keySeq[k]
                            /\ keySeq'[k] = keySeq[k] /\ Settled(k) => Settled(k)'
<1>0. TsdTypeOK /\ KeyInv /\ \A k \in Keys : keySeq[k] \in Nat
  BY DEF TsdInv, TsdTypeOK
<1>a. \A u \in Threads : u # t => pc'[u] = pc[u] /\ arg'[u] = arg[u]
  BY <1>0, OthersKept
<1>b. ASSUME NEW k \in Keys, Settled(k), gen' = gen, keySeq'[k] = keySeq[k], destr'[k] = destr[k],
             pc'[t] = "store" => arg'[t].key # k
      PROVE  Settled(k)'
  BY <1>a, <1>b DEF Settled, Storing, Origin
<1>c. ASSUME gen' = gen, keySeq' = keySeq, destr' = destr, pc'[t] # "store"
      PROVE  /\ gen' = gen
             /\ \A k \in Keys : /\ keySeq'[k] \in Nat /\ keySeq'[k] >= keySeq[k]
                                /\ keySeq'[k] = keySeq[k] /\ Settled(k) => Settled(k)'
  BY <1>0, <1>b, <1>c
<1>1. CASE ~ KeyStep(t)
  <2>1. gen' = gen /\ keySeq' = keySeq /\ destr' = destr /\ pc'[t] # "store"
    BY <1>0, <1>1, OtherSteps DEF keys
  <2> QED BY <1>c, <2>1
<1>2. CASE CreateCas(t)
  <2>1. arg[t].key \in Keys /\ gen' = gen /\ destr' = destr
    BY <1>0, <1>2 DEF CreateCas, KeyInv, Move
  <2>2. CASE keySeq' = [keySeq EXCEPT ![arg[t].key] = @ + 1] /\ arg' = arg
    <3>1. \A k \in Keys : k # arg[t].key => keySeq'[k] = keySeq[k]
      BY <1>0, <2>2 DEF TsdTypeOK
    <3>2. keySeq'[arg[t].key] = keySeq[arg[t].key] + 1
      BY <1>0, <2>1, <2>2 DEF TsdTypeOK
    <3> QED BY <1>0, <1>b, <2>1, <2>2, <3>1, <3>2
  <2>3. CASE keySeq' = keySeq /\ pc'[t] = "look"
    BY <1>c, <2>1, <2>3
  <2> QED BY <1>0, <1>2, <2>2, <2>3 DEF CreateCas, Move, TsdTypeOK
<1>3. CASE CreateStore(t)
  <2>1. pc[t] = "store" /\ pc'[t] = "run" /\ keySeq' = keySeq /\ gen' = gen
    BY <1>0, <1>3 DEF CreateStore, Move, TsdTypeOK
  <2>2. \A k \in Keys : k # arg[t].key => destr'[k] = destr[k]
    BY <1>0, <1>3 DEF CreateStore, TsdTypeOK
  <2>3. \A k \in Keys : Settled(k) => k # arg[t].key
    BY <2>1 DEF Settled, Storing
  <2> QED BY <1>0, <1>b, <2>1, <2>2, <2>3
<1>4. CASE Delete(t)
  <2>1. pc'[t] = "delete" /\ keySeq' = keySeq /\ gen' = gen /\ destr' = destr
    BY <1>0, <1>4 DEF Delete, Move, TsdTypeOK
  <2> QED BY <1>c, <2>1
<1>5. CASE DeleteAdd(t)
  <2>1. /\ pc'[t] = "run" /\ keySeq' = [keySeq EXCEPT ![arg[t].key] = @ + 1]
        /\ gen' = gen /\ destr' = destr /\ arg[t].key \in Keys
    BY <1>0, <1>5 DEF DeleteAdd, KeyInv, Move, TsdTypeOK
  <2>2. \A k \in Keys : k # arg[t].key => keySeq'[k] = keySeq[k]
    BY <1>0, <2>1 DEF TsdTypeOK
  <2>3. keySeq'[arg[t].key] = keySeq[arg[t].key] + 1
    BY <1>0, <2>1 DEF TsdTypeOK
  <2> QED BY <1>0, <1>b, <2>1, <2>2, <2>3
<1> QED BY <1>1, <1>2, <1>3, <1>4, <1>5 DEF KeyStep

LEMMA GoodStable ==
  ASSUME TsdInv, NEW t \in Threads, TsdCall(t), NEW k \in Keys, NEW e \in Entries, Good(k, e)
  PROVE  Good(k, e)'
<1>1. /\ gen' = gen /\ keySeq'[k] \in Nat /\ keySeq[k] \in Nat /\ keySeq'[k] >= keySeq[k]
      /\ keySeq'[k] = keySeq[k] /\ Settled(k) => Settled(k)'
  BY KeysGrow DEF TsdInv, TsdTypeOK
<1>2. e.seq \in Nat
  BY DEF Entries
<1> QED BY <1>1, <1>2 DEF Good, Origin

LEMMA KeyInvStep == TsdInv /\ [TsdNext]_tsdVars => KeyInv'
<1> SUFFICES ASSUME TsdInv, TsdNext PROVE KeyInv'
  BY DEF TsdInv, KeyInv, Settled, Storing, Origin, tsdVars, keys, table, control
<1> PICK t \in Threads : TsdCall(t) \/ ForkChild(t)
  BY TsdActions
<1>0. TsdTypeOK /\ KeyInv
  BY DEF TsdInv
<1> USE TsdFacts DEF Move, keys
<1>1. CASE ForkChild(t)
  BY <1>1 DEF ForkChild, KeyInv
<1>2. CASE TsdCall(t)
  <2>a. \A u \in Threads : u # t => pc'[u] = pc[u] /\ arg'[u] = arg[u]
    BY <1>0, <1>2, OthersKept
  <2>b. \A k \in Keys : keySeq'[k] = keySeq[k] /\ Settled(k) => Settled(k)'
    BY <1>2, KeysGrow
  <2>c. \A u \in Threads : arg[u].seq \in Nat /\ arg[u].key \in Nat
    BY <1>0 DEF TsdTypeOK, Args
  <2> USE DEF TsdTypeOK
  <2>1. CASE ~ KeyStep(t)
    <3>1. /\ UNCHANGED keys /\ pc[t] \notin {"store", "delete"} /\ pc'[t] \notin {"store", "delete"}
          /\ pc'[t] = "cas" => CreateLook(t)
      BY <1>0, <1>2, <2>1, OtherSteps
    <3>2. pc'[t] = "cas" => arg'[t].key \in Keys /\ arg'[t].seq % 2 = 0
      BY <1>0, <3>1 DEF CreateLook, Pass, Free
    <3> QED BY <1>0, <2>a, <2>b, <3>1, <3>2 DEF KeyInv
  <2>2. CASE CreateCas(t)
    <3>1. CASE keySeq[arg[t].key] # arg[t].seq
      <4>1. keySeq' = keySeq /\ held' = held /\ pc'[t] = "look" /\ pc[t] = "cas"
        BY <1>0, <2>2, <3>1 DEF CreateCas
      <4> QED BY <1>0, <2>a, <2>b, <4>1 DEF KeyInv
    <3>2. CASE keySeq[arg[t].key] = arg[t].seq
      <4> PICK k \in Keys : k = arg[t].key
        BY <1>0, <2>2 DEF CreateCas, KeyInv
      <4>1. /\ keySeq' = [keySeq EXCEPT ![k] = @ + 1] /\ held' = held /\ arg' = arg
            /\ pc'[t] = "store" /\ pc[t] = "cas"
        BY <1>0, <2>2, <3>2 DEF CreateCas
      <4>2. arg[t].seq \in Nat /\ arg[t].seq % 2 = 0 /\ keySeq[k] = arg[t].seq
        BY <1>0, <2>c, <3>2, <4>1 DEF KeyInv
      <4>3. keySeq'[k] = arg[t].seq + 1
        BY <1>0, <4>1, <4>2
      <4>4. keySeq'[k] % 2 = 1 /\ keySeq[k] % 2 # 1
        BY <4>2, <4>3
      <4>5. k \notin held
        BY <1>0, <4>4 DEF KeyInv
      <4>6. \A u \in Threads : pc[u] \in {"store", "delete"} => arg[u].key # k
        BY <1>0, <4>4 DEF KeyInv
      <4>7. \A j \in Keys : j # k => keySeq'[j] = keySeq[j]
        BY <1>0, <4>1
      <4> QED BY <1>0, <2>a, <2>b, <4>1, <4>2, <4>3, <4>4, <4>5, <4>6, <4>7 DEF KeyInv
    <3> QED BY <3>1, <3>2
  <2>3. CASE CreateStore(t)
    <3> PICK k \in Keys : k = arg[t].key
      BY <1>0, <2>3 DEF CreateStore, KeyInv
    <3>1. /\ pc[t] = "store" /\ pc'[t] = "run" /\ keySeq' = keySeq /\ gen' = gen /\ held' = held \cup {k}
          /\ destr'[k] \in {NULL, Origin(k, arg[t].seq + 1)}
      BY <1>0, <2>3 DEF CreateStore, KeyInv
    <3>2. keySeq[k] % 2 = 1 /\ keySeq[k] = arg[t].seq + 1
      BY <1>0, <3>1 DEF KeyInv
    <3>3. \A u \in Threads : u # t /\ pc[u] \in {"store", "delete"} => arg[u].key # k
      BY <1>0, <3>1 DEF KeyInv
    <3>4. Settled(k)'
      BY <2>a, <3>1, <3>2, <3>3 DEF Settled, Storing, Origin
    <3> QED BY <1>0, <2>a, <2>b, <3>1, <3>2, <3>3, <3>4 DEF KeyInv
  <2>4. CASE Delete(t)
    <3>1. PICK k \in held : held' = held \ {k} /\ Pass(t, k, 0, NULL)
      BY <2>4 DEF Delete
    <3>2. keySeq' = keySeq /\ pc'[t] = "delete" /\ pc[t] = "run" /\ arg'[t].key = k /\ k \in Keys
      BY <1>0, <2>4, <3>1 DEF Delete, Pass
    <3>3. /\ keySeq[k] % 2 = 1
          /\ \A u \in Threads : pc[u] \in {"store", "delete"} => arg[u].key # k
      BY <1>0, <3>1 DEF KeyInv, Settled, Storing
    <3> QED BY <1>0, <2>a, <2>b, <3>1, <3>2, <3>3 DEF KeyInv
  <2>5. CASE DeleteAdd(t)
    <3> PICK k \in Keys : k = arg[t].key
      BY <1>0, <2>5 DEF DeleteAdd, KeyInv
    <3>1. /\ pc[t] = "delete" /\ pc'[t] = "run" /\ held' = held
          /\ keySeq' = [keySeq EXCEPT ![k] = @ + 1]
      BY <1>0, <2>5 DEF DeleteAdd
    <3>2. k \notin held
      BY <1>0, <3>1 DEF KeyInv
    <3>3. \A u \in Threads : u # t /\ pc[u] \in {"store", "delete"} => arg[u].key # k
      BY <1>0, <3>1 DEF KeyInv
    <3>4. \A j \in Keys : j # k => keySeq'[j] = keySeq[j]
      BY <1>0, <3>1
    <3>5. \A j \in held' : keySeq'[j] % 2 = 1 /\ Settled(j)'
      <4>1. \A j \in held : j \in Keys /\ keySeq'[j] = keySeq[j]
        BY <1>0, <3>2, <3>4
      <4> QED BY <1>0, <2>b, <3>1, <4>1 DEF KeyInv
    <3>6. \A u \in Threads : u # t /\ pc[u] \in {"store", "delete"} => keySeq'[arg[u].key] = keySeq[arg[u].key]
      BY <1>0, <3>3, <3>4 DEF KeyInv
    <3>7. \A j \in held', u \in Threads : ~ (pc'[u] = "delete" /\ arg'[u].key = j)
      BY <1>0, <2>a, <3>1 DEF KeyInv
    <3>8. ASSUME NEW u \in Threads
          PROVE  /\ pc'[u] \in {"store", "delete"} =>
                      /\ arg'[u].key \in Keys /\ keySeq'[arg'[u].key] % 2 = 1
                      /\ \A w \in Threads : pc'[w] \in {"store", "delete"} /\ arg'[w].key = arg'[u].key => w = u
                 /\ pc'[u] = "store" => keySeq'[arg'[u].key] = arg'[u].seq + 1
                 /\ pc'[u] = "cas" => arg'[u].key \in Keys /\ arg'[u].seq % 2 = 0
      <4>1. CASE u = t
        BY <3>1, <4>1
      <4>2. CASE u # t
        BY <1>0, <2>a, <3>1, <3>6, <4>2 DEF KeyInv
      <4> QED BY <4>1, <4>2
    <3> QED BY <3>5, <3>7, <3>8 DEF KeyInv
  <2> QED BY <2>1, <2>2, <2>3, <2>4, <2>5 DEF KeyStep
<1> QED BY <1>1, <1>2

LEMMA ValueInvStep == TsdInv /\ [TsdNext]_tsdVars => ValueInv'
<1> SUFFICES ASSUME TsdInv, TsdNext PROVE ValueInv'
  <2> SUFFICES ASSUME TsdInv, UNCHANGED tsdVars PROVE ValueInv'
    OBVIOUS
  <2>1. UNCHANGED <<keySeq, destr, gen, specific, pc, arg>>
    BY DEF tsdVars, keys, table, control
  <2>2. ValueInv
    BY DEF TsdInv
  <2> QED BY <2>1, <2>2 DEF ValueInv, Good, Settled, Storing, Origin
<1> PICK t \in Threads : TsdCall(t) \/ ForkChild(t)
  BY TsdActions
<1>0. TsdTypeOK /\ TsdTypeOK' /\ KeyInv /\ ValueInv
  BY TsdTypeStep DEF TsdInv
<1>a. \A u \in Threads, k \in Keys : specific[u][k] \in Entries
  BY <1>0 DEF TsdTypeOK
<1>b. \A u \in Threads : [seq |-> arg[u].seq, data |-> arg[u].val] \in Entries
  BY <1>0 DEF TsdTypeOK, Args, Entries
<1>1. CASE ForkChild(t)
  <2>1. \A u \in Threads : pc'[u] # "set"
    BY <1>1 DEF ForkChild
  <2>2. gen' = gen + 1 /\ gen \in Nat /\ specific' = specific
    BY <1>0, <1>1 DEF ForkChild, TsdTypeOK, table
  <2>3. ASSUME NEW u \in Threads, NEW k \in Keys PROVE Good(k, specific[u][k])'
    <3>1. Good(k, specific[u][k]) /\ specific[u][k].data.gen \in Nat
      BY <1>0, <1>a DEF ValueInv, Entries, Data
    <3> QED BY <2>2, <3>1 DEF Good, Origin
  <2> QED BY <2>1, <2>3 DEF ValueInv
<1>2. CASE TsdCall(t)
  <2>1. \A u \in Threads, k \in Keys :
          Good(k, specific[u][k]) /\ specific'[u][k] = specific[u][k] => Good(k, specific[u][k])'
    <3> SUFFICES ASSUME NEW u \in Threads, NEW k \in Keys, Good(k, specific[u][k]), specific'[u][k] = specific[u][k]
                 PROVE  Good(k, specific[u][k])'
      OBVIOUS
    <3> PICK e \in Entries : e = specific[u][k]
      BY <1>a
    <3>1. Good(k, e)'
      BY <1>2, GoodStable
    <3> QED BY <3>1 DEF Good, Origin
  <2>2. \A u \in Threads : specific'[u] = specific[u] => \A k \in Keys : Good(k, specific[u][k])'
    BY <1>0, <2>1 DEF ValueInv
  <2>3. ASSUME NEW u \in Threads, pc[u] = "set", arg'[u] = arg[u]
        PROVE  arg[u].key \in Keys /\ Good(arg[u].key, [seq |-> arg[u].seq, data |-> arg[u].val])'
    <3> PICK e \in Entries : e = [seq |-> arg[u].seq, data |-> arg[u].val]
      BY <1>b
    <3> PICK k \in Keys : k = arg[u].key
      BY <1>0, <2>3 DEF ValueInv
    <3>1. Good(k, e)'
      BY <1>0, <1>2, <2>3, GoodStable DEF ValueInv
    <3> QED BY <2>3, <3>1 DEF Good, Origin
  <2>4. ASSUME NEW u \in Threads, u # t
        PROVE  /\ \A k \in Keys : Good(k, specific[u][k])'
               /\ pc'[u] = "set" => arg'[u].key \in Keys /\ Good(arg[u].key, [seq |-> arg[u].seq, data |-> arg[u].val])'
    <3>1. pc'[u] = pc[u] /\ arg'[u] = arg[u] /\ specific'[u] = specific[u]
      BY <1>0, <1>2, <2>4, OthersKept
    <3> QED BY <2>2, <2>3, <3>1
  <2>5. pc'[t] = "set" => arg'[t].key \in Keys /\ Good(arg[t].key, [seq |-> arg[t].seq, data |-> arg[t].val])'
    <3>1. CASE Set(t)
      <4>1. PICK k \in held : \E v \in {NULL, Origin(k, keySeq[k])} : Pass(t, k, keySeq[k], v)
        BY <3>1 DEF Set
      <4>2. PICK v \in {NULL, Origin(k, keySeq[k])} : Pass(t, k, keySeq[k], v)
        BY <4>1
      <4>3. arg'[t].key = k /\ arg'[t].seq = keySeq[k] /\ arg'[t].val = v /\ k \in Keys
        BY <1>0, <4>2 DEF Pass, TsdTypeOK
      <4>4. keySeq' = keySeq /\ gen' = gen /\ keySeq[k] \in Nat /\ Settled(k)'
        BY <1>0, <1>2, <3>1, <4>3, KeysGrow DEF Set, keys, KeyInv, TsdTypeOK
      <4> QED BY <4>3, <4>4 DEF Good, Origin
    <3>2. CASE ~ Set(t)
      <4>1. pc'[t] # "set"
        BY <1>0, <1>2, <3>2 DEF TsdCall, TsdStep, Call, Create, CreateLook, CreateCas, CreateStore, Delete, DeleteAdd,
          SetStore, Get, DeallocTsd, Find, Compare, Fetch, EndOfPass, DestructorReturns, Move, Caller, TsdTypeOK, control
      <4> QED BY <4>1
    <3> QED BY <3>1, <3>2
  <2>6. ASSUME NEW k \in Keys PROVE Good(k, specific[t][k])'
    <3>a. NoEntry.data = NULL
      BY TsdFacts
    <3>1. CASE SetStore(t)
      <4>1. CASE specific' = specific
        BY <2>2, <4>1
      <4>2. CASE specific' = [specific EXCEPT ![t][arg[t].key] = Entry(arg[t].seq, arg[t].val)]
        <5>1. CASE k # arg[t].key
          BY <1>0, <2>1, <4>2, <5>1 DEF ValueInv, TsdTypeOK
        <5>2. CASE k = arg[t].key
          <6>1. specific'[t][k] = Entry(arg[t].seq, arg[t].val)
            BY <1>0, <4>2, <5>2 DEF TsdTypeOK
          <6>2. CASE arg[t].val = NULL
            BY <3>a, <6>1, <6>2 DEF Entry, Good
          <6>3. CASE arg[t].val # NULL
            <7> PICK e \in Entries : e = [seq |-> arg[t].seq, data |-> arg[t].val]
              BY <1>b
            <7>1. Good(k, e)'
              BY <1>0, <1>2, <3>1, <5>2, GoodStable DEF ValueInv, SetStore, Move
            <7>2. specific'[t][k] = e
              BY <6>1, <6>3 DEF Entry
            <7> QED BY <7>1, <7>2 DEF Good, Origin
          <6> QED BY <6>2, <6>3
        <5> QED BY <5>1, <5>2
      <4> QED BY <3>1, <4>1, <4>2 DEF SetStore, table
    <3>2. CASE \E j \in Keys : specific' = [specific EXCEPT ![t][j] = NoEntry]
      <4>1. specific'[t][k] \in {specific[t][k], NoEntry}
        BY <1>0, <3>2 DEF TsdTypeOK
      <4>2. CASE specific'[t][k] = NoEntry
        BY <3>a, <4>2 DEF Good
      <4> QED BY <1>0, <2>1, <4>1, <4>2 DEF ValueInv
    <3>3. CASE Clear(t)
      <4>1. specific'[t][k] = NoEntry
        BY <1>0, <3>3 DEF TsdTypeOK, Clear
      <4> QED BY <3>a, <4>1 DEF Good
    <3>4. CASE specific' = specific
      BY <2>2, <3>4
    <3>5. Get(t) \/ Find(t) => \E j \in Keys : specific' = [specific EXCEPT ![t][j] = NoEntry]
      BY <1>0 DEF Get, Find, Left, TsdTypeOK
    <3>6. EndOfPass(t) => Clear(t) \/ specific' = specific
      BY DEF EndOfPass
    <3> QED BY <1>2, <3>1, <3>2, <3>3, <3>4, <3>5, <3>6
        DEF TsdCall, TsdStep, Call, Create, CreateLook, CreateCas, CreateStore, Delete,
            DeleteAdd, Set, DeallocTsd, Compare, Fetch, DestructorReturns, table
  <2> QED BY <2>4, <2>5, <2>6 DEF ValueInv
<1> QED BY <1>1, <1>2

LEMMA ScanInvStep == TsdInv /\ [TsdNext]_tsdVars => ScanInv'
<1> SUFFICES ASSUME TsdInv, TsdNext PROVE ScanInv'
  <2> SUFFICES ASSUME TsdInv, UNCHANGED tsdVars PROVE ScanInv'
    OBVIOUS
  <2>1. UNCHANGED <<keySeq, destr, gen, pc, arg, scan>>
    BY DEF tsdVars, keys, table, control
  <2>2. ScanInv
    BY DEF TsdInv
  <2> QED BY <2>1, <2>2 DEF ScanInv, Exiting, Good, Settled, Storing, Origin
<1> PICK t \in Threads : TsdCall(t) \/ ForkChild(t)
  BY TsdActions
<1>0. TsdTypeOK /\ TsdTypeOK' /\ KeyInv /\ ValueInv /\ ScanInv
  BY TsdTypeStep DEF TsdInv
<1>1. CASE ForkChild(t)
  BY <1>1, TsdFacts DEF ForkChild, ScanInv, Exiting
<1>2. CASE TsdCall(t)
  <2> DEFINE Held(u) == /\ pc[u] \in {"run", "look", "cas", "store", "delete", "gone"} => ~ Exiting(u)
                        /\ pc[u] \in {"scan", "compare", "fetch", "destr"} => Exiting(u)
                        /\ Exiting(u) => scan[u].iter < Iterations
                        /\ pc[u] \in {"compare", "fetch", "destr"} \/ (pc[u] = "set" /\ Exiting(u))
                             => scan[u].lp.data # NULL
                        /\ pc[u] = "compare" => scan[u].fn = NULL
                        /\ pc[u] = "fetch" /\ scan[u].q = scan[u].p => scan[u].seen = scan[u].lp.seq
             InHand(u) == scan[u].lp.data # NULL => scan[u].p \in Keys /\ Good(scan[u].p, scan[u].lp)
             Fits(u) == scan[u].fn # NULL =>
                          /\ scan[u].lp.data # NULL
                          /\ \/ scan[u].q # scan[u].p \/ scan[u].lp.data.gen # gen
                             \/ scan[u].seen < keySeq[scan[u].p] \/ scan[u].fn = scan[u].lp.data
  <2>a. \A u \in Threads : Held(u) /\ InHand(u) /\ Fits(u)
    BY <1>0 DEF ScanInv
  <2>b. /\ gen' = gen
        /\ \A k \in Keys : keySeq[k] \in Nat /\ keySeq'[k] \in Nat /\ keySeq'[k] >= keySeq[k]
    BY <1>0, <1>2, KeysGrow DEF TsdTypeOK
  <2>c. \A u \in Threads : /\ scan[u].lp \in Entries /\ scan[u].fn \in Data /\ scan[u].seen \in Nat
                           /\ scan[u].iter \in Nat /\ scan[u].p \in Nat /\ scan[u].q \in Int
    BY <1>0 DEF TsdTypeOK, Scans
  <2>1. ASSUME NEW u \in Threads, scan'[u].lp = scan[u].lp, scan'[u].p = scan[u].p PROVE InHand(u)'
    <3> SUFFICES ASSUME scan[u].lp.data # NULL PROVE scan[u].p \in Keys /\ Good(scan[u].p, scan[u].lp)'
      BY <2>1 DEF Good, Origin
    <3> PICK e \in Entries : e = scan[u].lp
      BY <2>c
    <3> PICK k \in Keys : k = scan[u].p
      BY <2>a
    <3>1. Good(k, e)'
      BY <1>2, <2>a, GoodStable
    <3> QED BY <2>1, <3>1 DEF Good, Origin
  <2>2. ASSUME NEW u \in Threads, scan'[u] = scan[u] PROVE InHand(u)' /\ Fits(u)'
    <3>1. InHand(u)'
      BY <2>1, <2>2
    <3>2. Fits(u)'
      <4> SUFFICES ASSUME scan[u].fn # NULL PROVE Fits(u)'
        BY <2>2
      <4>1. scan[u].lp.data # NULL /\ scan[u].p \in Keys
        BY <2>a
      <4>2. scan[u].seen < keySeq[scan[u].p] => scan[u].seen < keySeq'[scan[u].p]
        BY <2>b, <2>c, <4>1
      <4> QED BY <2>2, <2>a, <2>b, <4>1, <4>2
    <3> QED BY <3>1, <3>2
  <2>3. ASSUME NEW u \in Threads, u # t PROVE Held(u)' /\ InHand(u)' /\ Fits(u)'
    <3>1. pc'[u] = pc[u] /\ scan'[u] = scan[u]
      BY <1>0, <1>2, <2>3, OthersKept
    <3>2. Held(u)'
      BY <2>a, <3>1 DEF Exiting
    <3> QED BY <2>2, <3>1, <3>2
  <2>4. Held(t)' /\ InHand(t)' /\ Fits(t)'
    <3> USE DEF Move
    <3>1. CASE Create(t) \/ CreateLook(t) \/ CreateCas(t) \/ CreateStore(t) \/ Delete(t) \/ DeleteAdd(t)
      <4>1. scan' = scan /\ pc[t] \in {"run", "look", "cas", "store", "delete"}
            /\ pc'[t] \in {"run", "look", "cas", "store", "delete"}
        BY <1>0, <3>1 DEF Create, CreateLook, CreateCas, CreateStore, Delete, DeleteAdd, TsdTypeOK, table
      <4>2. Held(t)'
        BY <2>a, <4>1 DEF Exiting
      <4> QED BY <2>2, <4>1, <4>2
    <3>2. CASE Set(t) \/ SetStore(t) \/ Get(t)
      <4>1. /\ scan' = scan
            /\ \/ pc[t] \in {"run", "destr"} /\ pc'[t] \in {pc[t], "set"}
               \/ pc[t] = "set" /\ pc'[t] = Caller(t)
        BY <1>0, <3>2 DEF Set, SetStore, Get, TsdTypeOK, table, control
      <4>2. Held(t)'
        BY <2>a, <4>1 DEF Exiting, Caller
      <4> QED BY <2>2, <4>1, <4>2
    <3>3. CASE DeallocTsd(t)
      <4>1. CASE pc'[t] = "gone" /\ scan' = scan
        <5>1. Held(t)'
          BY <2>a, <3>3, <4>1 DEF DeallocTsd, Exiting
        <5> QED BY <2>2, <4>1, <5>1
      <4>2. CASE pc'[t] = "scan" /\ At(t, 0, 0, 0, NoEntry, NULL)
        <5>1. scan'[t].iter = 0 /\ scan'[t].lp.data = NULL /\ scan'[t].fn = NULL
          BY <1>0, <4>2, TsdFacts DEF At, TsdTypeOK
        <5> QED BY <4>2, <5>1, TsdFacts DEF Exiting
      <4> QED BY <1>0, <3>3, <4>1, <4>2 DEF DeallocTsd, TsdTypeOK
    <3>4. CASE Find(t)
      <4>1. PICK p \in Left(t) : At(t, scan[t].iter, p, KeyOf(t, p), specific[t][p], NULL)
        BY <3>4 DEF Find
      <4>2. p \in Keys /\ specific[t][p].data # NULL
        BY DEF Left
      <4>3. /\ scan'[t].iter = scan[t].iter /\ scan'[t].p = p /\ scan'[t].lp = specific[t][p]
            /\ scan'[t].fn = NULL
        BY <1>0, <4>1 DEF At, TsdTypeOK
      <4>4. pc[t] = "scan" /\ pc'[t] = "compare"
        BY <1>0, <3>4 DEF Find, TsdTypeOK
      <4>5. scan'[t].iter < Iterations
        BY <2>a, <4>3, <4>4
      <4>6. Held(t)'
        BY <4>2, <4>3, <4>4, <4>5, TsdFacts DEF Exiting
      <4>7. InHand(t)'
        <5> PICK e \in Entries : e = specific[t][p]
          BY <1>0, <4>2 DEF TsdTypeOK
        <5>1. Good(p, e)'
          BY <1>0, <1>2, <4>2, GoodStable DEF ValueInv
        <5> QED BY <4>2, <4>3, <5>1 DEF Good, Origin
      <4> QED BY <4>3, <4>6, <4>7
    <3>a. ASSUME SkipOn(t), pc'[t] = "scan", Exiting(t) PROVE Held(t)' /\ InHand(t)' /\ Fits(t)'
      <4>1. scan'[t].iter = scan[t].iter /\ scan'[t].lp.data = NULL /\ scan'[t].fn = NULL
        BY <1>0, <3>a, TsdFacts DEF SkipOn, At, TsdTypeOK
      <4>2. scan'[t].iter < Iterations
        BY <2>a, <3>a, <4>1
      <4> QED BY <3>a, <4>1, <4>2, TsdFacts DEF Exiting
    <3>5. CASE Compare(t)
      <4>0. pc[t] = "compare" /\ Exiting(t)
        BY <2>a, <3>5 DEF Compare
      <4>1. CASE SkipOn(t) /\ pc'[t] = "scan"
        BY <3>a, <4>0, <4>1
      <4>2. CASE Saw(t) /\ pc'[t] = "fetch" /\ (scan[t].q \in Keys => keySeq[scan[t].q] = scan[t].lp.seq)
        <5>1. /\ scan'[t].iter = scan[t].iter /\ scan'[t].lp = scan[t].lp /\ scan'[t].p = scan[t].p
              /\ scan'[t].q = scan[t].q /\ scan'[t].fn = scan[t].fn
              /\ scan[t].q \in Keys => scan'[t].seen = keySeq[scan[t].q]
          BY <1>0, <4>2 DEF Saw, TsdTypeOK, Scans
        <5>2. scan'[t].iter < Iterations /\ scan'[t].lp.data # NULL /\ scan'[t].p \in Keys
          BY <2>a, <4>0, <5>1
        <5>3. Held(t)'
          BY <4>2, <5>1, <5>2, TsdFacts DEF Exiting
        <5>4. InHand(t)'
          BY <2>1, <5>1
        <5>5. Fits(t)'
          BY <2>a, <4>0, <5>1
        <5> QED BY <5>3, <5>4, <5>5
      <4> QED BY <1>0, <3>5, <4>1, <4>2 DEF Compare, TsdTypeOK
    <3>6. CASE Fetch(t)
      <4>0. pc[t] = "fetch" /\ Exiting(t) /\ scan[t].lp.data # NULL /\ scan[t].p \in Keys
        BY <2>a, <3>6 DEF Fetch
      <4>1. PICK fn \in IF scan[t].q \in Keys THEN {destr[scan[t].q]} ELSE {NULL, Wild} :
              \/ fn = NULL /\ pc'[t] = "scan" /\ SkipOn(t)
              \/ fn # NULL /\ pc'[t] = "destr" /\ scan' = [scan EXCEPT ![t].fn = fn]
        BY <1>0, <3>6 DEF Fetch, TsdTypeOK
      <4>2. CASE SkipOn(t) /\ pc'[t] = "scan"
        BY <3>a, <4>0, <4>2
      <4>3. CASE pc'[t] = "destr" /\ scan' = [scan EXCEPT ![t].fn = fn]
        <5>1. /\ scan'[t].iter = scan[t].iter /\ scan'[t].lp = scan[t].lp /\ scan'[t].p = scan[t].p
              /\ scan'[t].q = scan[t].q /\ scan'[t].fn = fn /\ scan'[t].seen = scan[t].seen
          BY <1>0, <4>3 DEF TsdTypeOK, Scans
        <5>2. scan'[t].iter < Iterations
          BY <2>a, <4>0, <5>1
        <5>3. Held(t)'
          BY <4>0, <4>3, <5>1, <5>2, TsdFacts DEF Exiting
        <5>4. InHand(t)'
          BY <2>1, <5>1
        <5>5. Fits(t)'
          <6> SUFFICES ASSUME fn # NULL, scan[t].q = scan[t].p, scan[t].lp.data.gen = gen
                       PROVE  scan[t].seen < keySeq[scan[t].p] \/ fn = scan[t].lp.data
            <7>1. keySeq' = keySeq /\ gen' = gen
              BY <3>6 DEF Fetch, keys
            <7> QED BY <4>0, <5>1, <7>1
          <6>1. fn = destr[scan[t].p] /\ scan[t].seen = scan[t].lp.seq
            BY <2>a, <4>0, <4>1
          <6>2. Good(scan[t].p, scan[t].lp) /\ gen \in Nat
            BY <1>0, <2>a, <4>0 DEF TsdTypeOK
          <6>3. scan[t].lp.data = Origin(scan[t].p, scan[t].lp.seq) /\ scan[t].lp.seq <= keySeq[scan[t].p]
            BY <4>0, <6>2 DEF Good
          <6>4. CASE scan[t].lp.seq = keySeq[scan[t].p]
            BY <4>0, <6>1, <6>2, <6>3, <6>4 DEF Good, Settled
          <6>5. scan[t].lp.seq \in Nat /\ keySeq[scan[t].p] \in Nat
            BY <2>b, <2>c, <4>0 DEF Entries
          <6> QED BY <6>1, <6>3, <6>4, <6>5
        <5> QED BY <5>3, <5>4, <5>5
      <4> QED BY <4>1, <4>2, <4>3
    <3>7. CASE DestructorReturns(t)
      <4>1. pc[t] = "destr" /\ pc'[t] = "scan" /\ SkipOn(t)
        BY <1>0, <3>7 DEF DestructorReturns, TsdTypeOK
      <4> QED BY <2>a, <3>a, <4>1
    <3>8. CASE EndOfPass(t)
      <4>1. CASE pc'[t] = "gone" /\ scan' = [scan EXCEPT ![t] = NotExiting]
        <5>1. scan'[t] = NotExiting
          BY <1>0, <4>1 DEF TsdTypeOK
        <5> QED BY <4>1, <5>1, TsdFacts DEF Exiting
      <4>2. CASE pc'[t] = "scan" /\ scan[t].iter + 1 < Iterations /\ At(t, scan[t].iter + 1, 0, 0, NoEntry, NULL)
        <5>1. scan'[t].iter = scan[t].iter + 1 /\ scan'[t].lp.data = NULL /\ scan'[t].fn = NULL
          BY <1>0, <4>2, TsdFacts DEF At, TsdTypeOK
        <5> QED BY <2>c, <4>2, <5>1, TsdFacts DEF Exiting
      <4> QED BY <1>0, <3>8, <4>1, <4>2 DEF EndOfPass, TsdTypeOK
    <3> QED BY <1>2, <3>1, <3>2, <3>3, <3>4, <3>5, <3>6, <3>7, <3>8 DEF TsdCall, TsdStep, Call
  <2> QED BY <2>3, <2>4 DEF ScanInv
<1> QED BY <1>1, <1>2

LEMMA LeftInvStep == TsdInv /\ [TsdNext]_tsdVars => LeftInv'
<1> SUFFICES ASSUME TsdInv, TsdNext PROVE LeftInv'
  BY DEF TsdInv, LeftInv, tsdVars, keys, table, control
<1> PICK t \in Threads : TsdCall(t) \/ ForkChild(t)
  BY TsdActions
<1>0. TsdTypeOK /\ KeyInv /\ ValueInv /\ ScanInv /\ LeftInv
  BY DEF TsdInv
<1>a. NULL = NoEntry.data /\ Keys \subseteq Nat
  BY TsdFacts
<1>1. CASE ForkChild(t)
  <2>1. \A u \in Threads : scan'[u].p = 0 /\ scan'[u].lp.data = NULL
    BY <1>1, TsdFacts DEF ForkChild
  <2> QED BY <1>a, <2>1 DEF LeftInv
<1>2. CASE TsdCall(t)
  <2> DEFINE Behind(u) == \A k \in Keys :
               k < scan[u].p \/ (k = scan[u].p /\ scan[u].lp.data # NULL) => specific[u][k].data = NULL
  <2>a. \A u \in Threads : specific_used[u] \/ Behind(u)
    BY <1>0 DEF LeftInv
  <2>b. \A u \in Threads : scan[u].p \in Nat
    BY <1>0 DEF TsdTypeOK, Scans
  <2>1. \A u \in Threads : u # t => specific_used'[u] \/ Behind(u)'
    BY <1>0, <1>2, <2>a, OthersKept
  <2>2. specific_used'[t] \/ Behind(t)'
    <3>1. CASE UNCHANGED <<specific, specific_used, scan>>
      BY <2>a, <3>1
    <3>2. CASE SetStore(t)
      <4> DEFINE k == arg[t].key
                 v == arg[t].val
      <4>1. scan' = scan
        BY <3>2 DEF SetStore
      <4>2. CASE /\ specific' = [specific EXCEPT ![t][k] = Entry(arg[t].seq, v)]
                 /\ specific_used' = [specific_used EXCEPT ![t] = @ \/ v # NULL]
        <5>1. specific_used'[t] <=> specific_used[t] \/ v # NULL
          BY <1>0, <4>2 DEF TsdTypeOK
        <5>2. CASE v = NULL
          <6>1. \A j \in Keys : specific'[t][j] \in {specific[t][j], NoEntry}
            BY <1>0, <4>2, <5>2 DEF Entry, TsdTypeOK
          <6> QED BY <1>a, <2>a, <4>1, <5>1, <6>1
        <5> QED BY <5>1, <5>2
      <4> QED BY <3>1, <3>2, <4>1, <4>2 DEF SetStore, table
    <3>3. CASE Get(t)
      <4>1. \A j \in Keys : specific'[t][j] \in {specific[t][j], NoEntry}
        BY <1>0, <3>3 DEF Get, TsdTypeOK
      <4>2. scan' = scan /\ specific_used' = specific_used
        BY <3>3 DEF Get, control
      <4> QED BY <1>a, <2>a, <4>1, <4>2
    <3>4. ASSUME scan'[t].p = 0, scan'[t].lp.data = NULL PROVE Behind(t)'
      BY <1>a, <3>4
    <3>5. CASE DeallocTsd(t)
      <4>1. CASE At(t, 0, 0, 0, NoEntry, NULL)
        <5>1. scan'[t].p = 0 /\ scan'[t].lp.data = NULL
          BY <1>0, <1>a, <4>1 DEF At, TsdTypeOK
        <5> QED BY <3>4, <5>1
      <4>2. CASE UNCHANGED <<scan, specific_used>>
        BY <3>1, <3>5, <4>2 DEF DeallocTsd
      <4> QED BY <3>5, <4>1, <4>2 DEF DeallocTsd
    <3>6. CASE Find(t)
      <4>1. PICK p \in Left(t) : /\ \A k \in Left(t) : p <= k
                                 /\ At(t, scan[t].iter, p, KeyOf(t, p), specific[t][p], NULL)
                                 /\ specific' = [specific EXCEPT ![t][p] = NoEntry]
        BY <3>6 DEF Find
      <4>2. p \in Keys /\ p >= scan[t].p /\ specific[t][p].data # NULL
        BY DEF Left
      <4>3. scan'[t].p = p /\ specific_used' = specific_used
        BY <1>0, <3>6, <4>1 DEF At, Find, TsdTypeOK
      <4>4. specific'[t][p] = NoEntry /\ \A k \in Keys : k # p => specific'[t][k] = specific[t][k]
        BY <1>0, <4>1, <4>2 DEF TsdTypeOK
      <4>5. \A k \in Keys : k < p /\ ~ (k < scan[t].p) => specific[t][k].data = NULL
        <5> SUFFICES ASSUME NEW k \in Keys, k < p, ~ (k < scan[t].p), specific[t][k].data # NULL PROVE FALSE
          OBVIOUS
        <5>1. k \in Left(t)
          BY <1>a, <2>b DEF Left
        <5> QED BY <1>a, <4>1, <4>2, <5>1
      <4> QED BY <1>a, <2>a, <4>2, <4>3, <4>4, <4>5
    <3>7. ASSUME SkipOn(t), scan[t].lp.data # NULL, UNCHANGED <<specific, specific_used>>
          PROVE  specific_used'[t] \/ Behind(t)'
      <4>1. scan'[t].p = scan[t].p + 1 /\ scan'[t].lp.data = NULL
        BY <1>0, <1>a, <3>7 DEF SkipOn, At, TsdTypeOK
      <4>2. \A k \in Keys : k < scan[t].p + 1 => k < scan[t].p \/ k = scan[t].p
        BY <1>a, <2>b
      <4> QED BY <2>a, <3>7, <4>1, <4>2
    <3>8. CASE Compare(t) \/ Fetch(t) \/ DestructorReturns(t)
      <4>1. scan[t].lp.data # NULL
        BY <1>0, <3>8 DEF ScanInv, Compare, Fetch, DestructorReturns, Move
      <4>2. UNCHANGED <<specific, specific_used>>
        BY <3>8 DEF Compare, Fetch, DestructorReturns, table
      <4>3. CASE SkipOn(t)
        BY <3>7, <4>1, <4>2, <4>3
      <4>4. ASSUME scan'[t].p = scan[t].p, scan'[t].lp = scan[t].lp PROVE specific_used'[t] \/ Behind(t)'
        BY <2>a, <4>2, <4>4
      <4>5. CASE Saw(t) \/ \E fn \in Data : scan' = [scan EXCEPT ![t].fn = fn]
        BY <1>0, <4>4, <4>5 DEF Saw, TsdTypeOK, Scans
      <4>6. Fetch(t) => SkipOn(t) \/ \E fn \in Data : scan' = [scan EXCEPT ![t].fn = fn]
        <5>1. \A fn \in IF scan[t].q \in Keys THEN {destr[scan[t].q]} ELSE {NULL, Wild} : fn \in Data
          BY <1>0, TsdFacts DEF TsdTypeOK
        <5> QED BY <5>1 DEF Fetch
      <4> QED BY <3>8, <4>3, <4>5, <4>6 DEF Compare, DestructorReturns
    <3>9. CASE EndOfPass(t)
      <4>1. CASE At(t, scan[t].iter + 1, 0, 0, NoEntry, NULL)
        <5>1. scan'[t].p = 0 /\ scan'[t].lp.data = NULL
          BY <1>0, <1>a, <4>1 DEF At, TsdTypeOK
        <5> QED BY <3>4, <5>1
      <4>2. CASE scan' = [scan EXCEPT ![t] = NotExiting]
        <5>1. scan'[t].p = 0 /\ scan'[t].lp.data = NULL
          BY <1>0, <4>2, TsdFacts DEF TsdTypeOK
        <5> QED BY <3>4, <5>1
      <4> QED BY <3>9, <4>1, <4>2 DEF EndOfPass
    <3>10. CASE Create(t) \/ CreateLook(t) \/ CreateCas(t) \/ CreateStore(t) \/ Delete(t) \/ DeleteAdd(t) \/ Set(t)
      BY <3>1, <3>10 DEF Create, CreateLook, CreateCas, CreateStore, Delete, DeleteAdd, Set, table
    <3> QED BY <1>2, <3>2, <3>3, <3>5, <3>6, <3>8, <3>9, <3>10 DEF TsdCall, TsdStep, Call
  <2> QED BY <2>1, <2>2 DEF LeftInv
<1> QED BY <1>1, <1>2

THEOREM TsdInvariant == TsdSpec => []TsdInv
<1>1. TsdInv /\ [TsdNext]_tsdVars => TsdInv'
  <2> SUFFICES ASSUME TsdInv /\ [TsdNext]_tsdVars PROVE TsdInv'
    OBVIOUS
  <2> QED BY TsdTypeStep, KeyInvStep, ValueInvStep, ScanInvStep, LeftInvStep DEF TsdInv
<1> QED BY TsdInitInv, <1>1, PTL DEF TsdSpec

\* pthread/specific.c: numbers, values and destructors have their types.
THEOREM TsdTypeCorrect == TsdSpec => []TsdTypeOK
<1>1. TsdInv => TsdTypeOK
  BY DEF TsdInv
<1> QED BY TsdInvariant, <1>1, PTL

\* pthread_getspecific and __pthread_dealloc_tsd: a value and its destructor stay
\* with the incarnation of the key that they were stored for.
THEOREM ValuesTheorem == TsdSpec => []ValuesKeepToTheirKey
<1>1. TsdInv => NoStaleValue
  <2> SUFFICES ASSUME TsdInv, NEW t \in Threads, NEW k \in held, specific[t][k].seq = keySeq[k]
               PROVE  LET v == specific[t][k].data IN v = NULL \/ v.gen # gen \/ v = Origin(k, keySeq[k])
    BY DEF NoStaleValue, Value
  <2>1. k \in Keys /\ gen \in Nat /\ Good(k, specific[t][k])
    BY DEF TsdInv, TsdTypeOK, ValueInv
  <2> QED BY <2>1 DEF Good
<1>2. TsdInv => DestructorsGetTheirOwn
  <2> SUFFICES ASSUME TsdInv, NEW t \in Threads, pc[t] = "destr", scan[t].fn # NULL
               PROVE  scan[t].fn = scan[t].lp.data \/ Misled(t)
    BY DEF DestructorsGetTheirOwn
  <2>1. /\ scan[t].p \in Keys
        /\ \/ scan[t].q # scan[t].p \/ scan[t].lp.data.gen # gen
           \/ scan[t].seen < keySeq[scan[t].p] \/ scan[t].fn = scan[t].lp.data
    BY DEF TsdInv, ScanInv
  <2>2. keySeq[scan[t].p] \in Nat /\ scan[t].seen \in Nat
    BY <2>1 DEF TsdInv, TsdTypeOK, Scans
  <2> QED BY <2>1, <2>2 DEF Misled
<1>3. TsdInv => ValuesKeepToTheirKey
  BY <1>1, <1>2 DEF ValuesKeepToTheirKey
<1> QED BY TsdInvariant, <1>3, PTL

\* __pthread_dealloc_tsd: a thread drops values only after the last pass allowed.
THEOREM PassesTheorem == TsdSpec => NothingDroppedEarly
<1> DEFINE Drop == \A t \in Threads :
             pc[t] = "scan" /\ pc'[t] = "gone" /\ gen' = gen =>
               \/ scan[t].iter + 1 = Iterations
               \/ \A k \in Keys : specific[t][k].data = NULL
<1>1. TsdInv /\ [TsdNext]_tsdVars => [Drop]_tsdVars
  <2> SUFFICES ASSUME TsdInv, TsdNext, NEW t \in Threads, pc[t] = "scan", pc'[t] = "gone", gen' = gen
               PROVE  \/ scan[t].iter + 1 = Iterations
                      \/ \A k \in Keys : specific[t][k].data = NULL
    OBVIOUS
  <2>0. TsdTypeOK /\ LeftInv /\ ScanInv
    BY DEF TsdInv
  <2> PICK u \in Threads : TsdCall(u) \/ ForkChild(u)
    BY TsdActions
  <2>1. TsdCall(u)
    BY <2>0 DEF ForkChild, TsdTypeOK
  <2>2. u = t
    BY <2>0, <2>1, OthersKept
  <2>3. EndOfPass(t)
    BY <2>0, <2>1, <2>2 DEF TsdCall, TsdStep, Call, Create, CreateLook, CreateCas, CreateStore, Delete, DeleteAdd, Set,
      SetStore, Get, DeallocTsd, Find, Compare, Fetch, DestructorReturns, Move, Caller, TsdTypeOK, control
  <2>4. Left(t) = {} /\ (~ specific_used[t] \/ ~ (scan[t].iter + 1 < Iterations))
    BY <2>0, <2>3 DEF EndOfPass, Move, TsdTypeOK
  <2>5. scan[t].iter < Iterations /\ scan[t].iter \in Nat /\ scan[t].p \in Nat
    BY <2>0 DEF ScanInv, TsdTypeOK, Scans
  <2>6. CASE ~ specific_used[t]
    <3>1. \A k \in Keys : k < scan[t].p => specific[t][k].data = NULL
      BY <2>0, <2>6 DEF LeftInv
    <3>2. \A k \in Keys : ~ (k < scan[t].p) => k >= scan[t].p
      BY <2>5, TsdFacts
    <3> QED BY <2>4, <3>1, <3>2 DEF Left
  <2>7. CASE ~ (scan[t].iter + 1 < Iterations)
    BY <2>5, <2>7, TsdFacts
  <2> QED BY <2>4, <2>6, <2>7
<1> QED BY TsdInvariant, <1>1, PTL DEF TsdSpec, NothingDroppedEarly
=============================================================================
