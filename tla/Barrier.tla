------------------------------ MODULE Barrier ------------------------------
(***************************************************************************)
(* pthread/barrier.c: a barrier that releases Count threads at a time, and *)
(* its destruction.  The 64-bit word __seq_cnt is the sequence number seq  *)
(* (lo) and the number of arrivals cnt (hi); nrefs counts the calls in     *)
(* progress, plus one until pthread_barrier_destroy.  Threads sleep in     *)
(* gsync on seq (pc "asleep", "sasleep"), the destroyer on nrefs           *)
(* ("dasleep").                                                            *)
(*                                                                         *)
(* arrived, passed and serial are history: the calls of                    *)
(* pthread_barrier_wait begun, ended, and ended with                       *)
(* PTHREAD_BARRIER_SERIAL_THREAD.                                          *)
(***************************************************************************)
EXTENDS Pthreads, Naturals, FiniteSets

CONSTANTS Counts,     \* the counts that may be given to pthread_barrier_init
          MaxCalls    \* bound: calls of pthread_barrier_wait per thread

ASSUME BarrierAssumption == IsFiniteSet(Threads) /\ Counts \subseteq Nat \ {0} /\ MaxCalls \in Nat

VARIABLES total,            \* __total, set once by pthread_barrier_init
          seq, cnt, nrefs,  \* the other fields of the barrier
          mine,             \* the value each thread loaded: seq, or refc
          arrived, passed,  \* calls begun and ended by each thread
          serial            \* number of serial threads so far

barrierVars == <<total, seq, cnt, nrefs, pc, mine, arrived, passed, serial>>

\* How many threads are released together.
Count == total + 1

\* The "s.." locations are those of a surplus thread, the "d.." ones and
\* "destroyed" those of pthread_barrier_destroy.
WaitPCs == {"load", "count", "check", "wait", "asleep", "release", "bcast",
            "swait", "sasleep", "leave", "sleave", "lastwake"}
DestroyPCs == {"dwait", "dasleep", "dload", "destroyed"}
BarrierPCs == {"out"} \cup WaitPCs \cup DestroyPCs

BarrierTypeOK == /\ total \in Nat /\ Count \in Counts
                 /\ seq \in Nat /\ cnt \in Nat /\ nrefs \in Nat
                 /\ pc \in [Threads -> BarrierPCs]
                 /\ mine \in [Threads -> Nat]
                 /\ arrived \in [Threads -> 0..MaxCalls]
                 /\ passed \in [Threads -> 0..MaxCalls]
                 /\ serial \in Nat

\* pthread_barrier_init
BarrierInit == /\ \E c \in Counts : total = c - 1
               /\ seq = 0 /\ cnt = 0 /\ nrefs = 1
               /\ pc = [t \in Threads |-> "out"]
               /\ mine = [t \in Threads |-> 0]
               /\ arrived = [t \in Threads |-> 0]
               /\ passed = [t \in Threads |-> 0]
               /\ serial = 0

-----------------------------------------------------------------------------

Bump(f, t) == [f EXCEPT ![t] = @ + 1]
history == <<arrived, passed, serial>>

Destroying == \E t \in Threads : pc[t] \in DestroyPCs

\* A call begins: atomic_add (&nrefs, 1).
StartWait(t) == /\ pc[t] = "out" /\ ~ Destroying
                /\ arrived[t] < MaxCalls
                /\ arrived' = Bump(arrived, t)
                /\ nrefs' = nrefs + 1
                /\ Goto(t, "load")
                /\ UNCHANGED <<total, seq, cnt, mine, passed, serial>>

\* seq = atomic_load (&__seq_cnt.lo)
LoadSeq(t) == /\ pc[t] = "load"
              /\ mine' = [mine EXCEPT ![t] = seq]
              /\ Goto(t, "count")
              /\ UNCHANGED <<total, seq, cnt, nrefs, history>>

\* cnt = atomic_add (&__seq_cnt.hi, 1) decides what the thread is.
Arrive(t) == /\ pc[t] = "count"
             /\ cnt' = cnt + 1
             /\ \/ cnt < total /\ Goto(t, "check")
                \/ cnt = total /\ Goto(t, "release")
                \/ cnt > total /\ Goto(t, "swait")
             /\ UNCHANGED <<total, seq, nrefs, mine, history>>

\* while (seq is still mine)
Check(t) == /\ pc[t] = "check"
            /\ Goto(t, IF seq = mine[t] THEN "wait" ELSE "leave")
            /\ UNCHANGED <<total, seq, cnt, nrefs, mine, history>>

\* gsync_wait on seq; a surplus thread leaves after it, for "continue" goes to
\* the condition of do ... while (0).
GsyncWait(t) == /\ \/ pc[t] = "wait" /\ Goto(t, IF seq = mine[t] THEN "asleep" ELSE "check")
                   \/ pc[t] = "swait" /\ Goto(t, IF seq = mine[t] THEN "sasleep" ELSE "leave")
                /\ UNCHANGED <<total, seq, cnt, nrefs, mine, history>>

WaitReturns(l) == CASE l = "asleep" -> "check"
                    [] l = "sasleep" -> "leave"
                    [] OTHER -> l

\* KERN_INTERRUPTED
WaitInterrupted(t) == /\ pc[t] \in {"asleep", "sasleep"}
                      /\ Goto(t, WaitReturns(pc[t]))
                      /\ UNCHANGED <<total, seq, cnt, nrefs, mine, history>>

ReleaseKeepsCount(t) == /\ pc[t] = "release"
                        /\ seq' = seq + 1
                        /\ Goto(t, "bcast")
                        /\ UNCHANGED <<total, cnt, nrefs, mine, history>>

\* atomic_storex (&__seq_cnt, lo + 1): the count is cleared with the bump.
Release(t) == /\ pc[t] = "release"
              /\ seq' = seq + 1 /\ cnt' = 0
              /\ Goto(t, "bcast")
              /\ UNCHANGED <<total, nrefs, mine, history>>

\* lll_wake with GSYNC_BROADCAST; this is the serial thread.
WakeAll(t) == /\ pc[t] = "bcast"
              /\ pc' = [u \in Threads |-> IF u = t THEN "sleave" ELSE WaitReturns(pc[u])]
              /\ UNCHANGED <<total, seq, cnt, nrefs, mine, history>>

LeaveNeverWakes(t) == /\ pc[t] \in {"leave", "sleave"}
                      /\ nrefs' = nrefs - 1
                      /\ passed' = Bump(passed, t)
                      /\ serial' = serial + (IF pc[t] = "sleave" THEN 1 ELSE 0)
                      /\ mine' = [mine EXCEPT ![t] = 0]
                      /\ Goto(t, "out")
                      /\ UNCHANGED <<total, seq, cnt, arrived>>

\* atomic_add (&nrefs, -1): the last to leave notifies the destroying thread.
Leave(t) == /\ pc[t] \in {"leave", "sleave"}
            /\ nrefs' = nrefs - 1
            /\ passed' = Bump(passed, t)
            /\ serial' = serial + (IF pc[t] = "sleave" THEN 1 ELSE 0)
            /\ mine' = [mine EXCEPT ![t] = 0]
            /\ Goto(t, IF nrefs = 1 THEN "lastwake" ELSE "out")
            /\ UNCHANGED <<total, seq, cnt, arrived>>

\* lll_wake on nrefs
LastWake(t) == /\ pc[t] = "lastwake"
               /\ pc' = [u \in Threads |-> IF u = t THEN "out"
                                           ELSE IF pc[u] = "dasleep" THEN "dload" ELSE pc[u]]
               /\ UNCHANGED <<total, seq, cnt, nrefs, mine, history>>

-----------------------------------------------------------------------------
\* pthread_barrier_destroy

Released(t) == pc[t] = "out" \/ pc[t] \in {"bcast", "leave", "sleave", "lastwake"}
               \/ (pc[t] \in {"check", "wait", "asleep", "swait", "sasleep"} /\ mine[t] # seq)

\* The barrier may be destroyed by one thread, once every thread that called
\* pthread_barrier_wait has been released, though not all have returned.
DestroyDoesNotWait(t) == /\ pc[t] = "out" /\ ~ Destroying
                         /\ arrived[t] > 0
                         /\ \A u \in Threads : Released(u)
                         /\ nrefs' = nrefs - 1
                         /\ mine' = [mine EXCEPT ![t] = nrefs - 1]
                         /\ Goto(t, "destroyed")
                         /\ UNCHANGED <<total, seq, cnt, history>>

Destroy(t) == /\ pc[t] = "out" /\ ~ Destroying
              /\ arrived[t] > 0
              /\ \A u \in Threads : Released(u)
              /\ nrefs' = nrefs - 1
              /\ mine' = [mine EXCEPT ![t] = nrefs - 1]
              /\ Goto(t, IF nrefs = 1 THEN "destroyed" ELSE "dwait")
              /\ UNCHANGED <<total, seq, cnt, history>>

\* gsync_wait on nrefs; it may be interrupted.
DestroyWait(t) == /\ \/ pc[t] = "dwait" /\ Goto(t, IF nrefs = mine[t] THEN "dasleep" ELSE "dload")
                     \/ pc[t] = "dasleep" /\ Goto(t, "dload")
                  /\ UNCHANGED <<total, seq, cnt, nrefs, mine, history>>

\* refc = atomic_load (&nrefs)
DestroyLoad(t) == /\ pc[t] = "dload"
                  /\ mine' = [mine EXCEPT ![t] = nrefs]
                  /\ Goto(t, IF nrefs = 0 THEN "destroyed" ELSE "dwait")
                  /\ UNCHANGED <<total, seq, cnt, nrefs, history>>

-----------------------------------------------------------------------------

BarrierStep(t) == \/ LoadSeq(t) \/ Arrive(t) \/ Check(t) \/ GsyncWait(t)
                  \/ Release(t) \/ WakeAll(t) \/ Leave(t) \/ LastWake(t)
                  \/ (pc[t] = "dwait" /\ DestroyWait(t)) \/ DestroyLoad(t)

\* Every thread has made its calls, or the barrier is gone, and all is over.
Finished == /\ \A t \in Threads : pc[t] \in {"out", "destroyed"}
            /\ Destroying \/ \A t \in Threads : arrived[t] = MaxCalls

BarrierNext == \/ \E t \in Threads : \/ StartWait(t) \/ BarrierStep(t) \/ WaitInterrupted(t)
                                     \/ Destroy(t) \/ DestroyWait(t)
               \/ Finished /\ UNCHANGED barrierVars

BarrierSpec == BarrierInit /\ [][BarrierNext]_barrierVars

\* Running threads run on, and every thread makes its calls unless the
\* barrier is destroyed first; nobody has to destroy it.
FairBarrier == /\ BarrierSpec
               /\ \A t \in Threads : WF_barrierVars(BarrierStep(t)) /\ WF_barrierVars(StartWait(t))

-----------------------------------------------------------------------------

\* The calls so far, f[t] of each thread t.
Calls(f) == Cardinality({c \in Threads \X (1..MaxCalls) : c[2] <= f[c[1]]})

\* As many threads use the barrier as it releases together.
Exact == Count = Cardinality(Threads)

\* pthread_barrier_wait: calls return only in whole groups of Count arrivals.
ReleasedInGroups == Calls(passed) <= Count * (Calls(arrived) \div Count)

\* None gets ahead: a call returns only after every thread has made as many.
NobodyGetsAhead == \A t, u \in Threads : passed[t] <= arrived[u]

\* However many threads there are, PTHREAD_BARRIER_SERIAL_THREAD is returned at
\* most once for each Count arrivals: no arrival counts for two groups.
OneSerialPerGroup == serial * Count <= Calls(arrived)

\* With Count threads, pthread_barrier_wait returns in whole groups, in which every
\* thread is once; when all calls so far have returned, each group had exactly one
\* serial thread.
ExactGroups ==
  /\ OneSerialPerGroup
  /\ Exact => /\ ReleasedInGroups
              /\ NobodyGetsAhead
              /\ Calls(passed) = Calls(arrived) => serial * Count = Calls(arrived)

\* pthread_barrier_destroy: it returns only when every call of
\* pthread_barrier_wait has dropped its reference, after which such a call does
\* not read the barrier again (it may still pass its address to gsync_wake).
DestroyedLast == \A t \in Threads : pc[t] = "destroyed" =>
                   \A u \in Threads \ {t} : pc[u] \in {"out", "lastwake"}

\* With Count threads that keep calling, every call returns, and so does a
\* destroy.
BarrierReturns == \A t \in Threads :
                    Exact /\ pc[t] # "out" ~> pc[t] \in {"out", "destroyed"}
=============================================================================
