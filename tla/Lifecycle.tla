----------------------------- MODULE Lifecycle -----------------------------
(***************************************************************************)
(* pthread/create.c, exit.c, join.c and detach.c: threads from their       *)
(* creation to the release of their stacks, which hold their descriptors.  *)
(*                                                                         *)
(* joinpt[u] is who joins u, u itself if it is detached, or NULL.  id[u]   *)
(* is waited on by a join; the kernel clears it when u has terminated, if  *)
(* it was asked to, or else frees the stack of u.                          *)
(*                                                                         *)
(* The application keeps to POSIX: calls on a thread do not overlap, and   *)
(* nobody names a thread that was joined, or is detached, but itself.      *)
(*                                                                         *)
(* The code loses three races that such an application can run into.  The  *)
(* history variable race names the threads they befell, for the properties *)
(* to except those, and only those:                                        *)
(*   missed   the thread has read detached_p as 0 and not yet set          *)
(*            PT_FLG_EXITING: pthread_detach does not see it exiting, and  *)
(*            nobody frees the stack;                                      *)
(*   crossed  the thread has seen itself detached while pthread_detach had *)
(*            still to look at the flags, or waited: the kernel frees the  *)
(*            stack that pthread_detach reads, waits on and frees;         *)
(*   early    pthread_timedjoin_np loaded the id of a thread that had not  *)
(*            begun, and the id that the thread gave itself ended the wait.*)
(* What is read from a stack that was freed is anything; a thread that     *)
(* lost its stack goes on, which is one of the things that it can do.      *)
(***************************************************************************)
EXTENDS Naturals, FiniteSets

CONSTANTS Threads, Main,    \* the threads, and the first of them
          NULL

ASSUME LifeAssumption == IsFiniteSet(Threads) /\ Main \in Threads /\ NULL \notin Threads

VARIABLES id, joinpt,           \* fields of each descriptor
          exiting, terminated,  \* and its flags
          frees,                \* how often its stack was freed
          race,                 \* history: the race that befell it
          total,                \* __pthread_total
          pc, call, target,     \* the next step of each thread, its call, on whom
          tmp,                  \* the id it loaded
          detp                  \* its detached_p

descriptor == <<id, joinpt, exiting, terminated, frees, race>>
locals     == <<call, target, tmp, detp>>
vars       == <<descriptor, total, pc, locals>>

\* "new" is created but not resumed.  "detp" to "release" are __pthread_cleanup,
\* which ends a thread ("dead") or the process ("ended").  Of the calls,
\* "claim" is the exchange of joinpt; "load", "wait" and "sleep" wait for id to be
\* cleared; "unclaim" is the cleanup handler of a join.
ExitPCs == {"detp", "setexit", "count", "release"}
WaitPCs == {"load", "wait", "sleep"}
CallPCs == {"resume", "check", "claim", "flags", "unclaim", "end"} \cup WaitPCs
PCs == {"none", "new", "start", "run", "dead", "ended"} \cup ExitPCs \cup CallPCs

JoinCalls == {"join", "timedjoin", "tryjoin"}
Calls == JoinCalls \cup {"none", "create", "detach", "exit"}
Ids == {"zero", "invalid", "live"}
Races == {"none", "missed", "crossed", "early"}

TypeOK == /\ id \in [Threads -> Ids]
          /\ joinpt \in [Threads -> Threads \cup {NULL}]
          /\ exiting \in [Threads -> BOOLEAN] /\ terminated \in [Threads -> BOOLEAN]
          /\ frees \in [Threads -> 0..2] /\ race \in [Threads -> Races]
          /\ total \in 0..Cardinality(Threads)
          /\ pc \in [Threads -> PCs]
          /\ call \in [Threads -> Calls]
          /\ target \in [Threads -> Threads \cup {NULL}]
          /\ tmp \in [Threads -> Ids]
          /\ detp \in [Threads -> BOOLEAN]

Init == /\ id = [t \in Threads |-> IF t = Main THEN "live" ELSE "invalid"]
        /\ joinpt = [t \in Threads |-> NULL]
        /\ exiting = [t \in Threads |-> FALSE] /\ terminated = [t \in Threads |-> FALSE]
        /\ frees = [t \in Threads |-> 0] /\ race = [t \in Threads |-> "none"]
        /\ total = 1
        /\ pc = [t \in Threads |-> IF t = Main THEN "run" ELSE "none"]
        /\ call = [t \in Threads |-> "none"]
        /\ target = [t \in Threads |-> NULL]
        /\ tmp = [t \in Threads |-> "zero"]
        /\ detp = [t \in Threads |-> FALSE]

-----------------------------------------------------------------------------

Goto(t, l) == pc' = [pc EXCEPT ![t] = l]

\* The call of t returns.
Return(t) == /\ Goto(t, "run")
             /\ call' = [call EXCEPT ![t] = "none"]
             /\ target' = [target EXCEPT ![t] = NULL]
             /\ tmp' = [tmp EXCEPT ![t] = "zero"]
             /\ UNCHANGED detp

\* The call of t goes on at l.
Continue(t, l) == Goto(t, l) /\ UNCHANGED locals

SetJoinpt(u, v) == /\ joinpt' = [joinpt EXCEPT ![u] = v]
                   /\ UNCHANGED <<id, exiting, terminated, frees, race>>

\* What befell u, as the history has it.
Befalls(u, r) == /\ race' = [race EXCEPT ![u] = r]
                 /\ UNCHANGED <<id, joinpt, exiting, terminated, frees>>

\* What a field of the descriptor of u is read as: anything once it is freed.
Read(u, field, values) == IF frees[u] > 0 THEN values ELSE {field[u]}

-----------------------------------------------------------------------------
\* pthread_create

CreateForgetsToCount(t, u) ==
  /\ pc[t] = "run" /\ pc[u] = "none"
  /\ pc' = [pc EXCEPT ![t] = "resume", ![u] = "new"]
  /\ call' = [call EXCEPT ![t] = "create"] /\ target' = [target EXCEPT ![t] = u]
  /\ \E d \in {NULL, u} : SetJoinpt(u, d)
  /\ UNCHANGED <<total, tmp, detp>>

\* pt_allocate maps the stack and makes the descriptor, detached or not; the
\* thread is counted before it runs.
Create(t, u) == /\ pc[t] = "run" /\ pc[u] = "none"
                /\ pc' = [pc EXCEPT ![t] = "resume", ![u] = "new"]
                /\ call' = [call EXCEPT ![t] = "create"] /\ target' = [target EXCEPT ![t] = u]
                /\ \E d \in {NULL, u} : SetJoinpt(u, d)
                /\ total' = total + 1
                /\ UNCHANGED <<tmp, detp>>

Resume(t) == /\ pc[t] = "resume"
             /\ pc' = [pc EXCEPT ![t] = "run", ![target[t]] = "start"]
             /\ call' = [call EXCEPT ![t] = "none"] /\ target' = [target EXCEPT ![t] = NULL]
             /\ UNCHANGED <<descriptor, total, tmp, detp>>

\* __pthread_set_machine_state failed: the stack goes, and EAGAIN is returned.
Undo(t) == /\ pc[t] = "resume"
           /\ pc' = [pc EXCEPT ![t] = "run", ![target[t]] = "none"]
           /\ call' = [call EXCEPT ![t] = "none"] /\ target' = [target EXCEPT ![t] = NULL]
           /\ SetJoinpt(target[t], NULL)
           /\ total' = total - 1
           /\ UNCHANGED <<tmp, detp>>

\* thread_entry: the thread gives itself an id.
Start(t) == /\ pc[t] = "start"
            /\ id' = [id EXCEPT ![t] = "live"]
            /\ Continue(t, "run")
            /\ UNCHANGED <<joinpt, exiting, terminated, frees, race, total>>

-----------------------------------------------------------------------------
\* The end of a thread.

\* Another thread is in pthread_detach (t), and has not found that it may return.
Detaching(t) == \E v \in Threads \ {t} : /\ target[v] = t /\ call[v] = "detach"
                                         /\ pc[v] \in {"flags"} \cup WaitPCs

\* t has read detached_p as 0, and is not marked as exiting.
BetweenMarks(t) == pc[t] = "setexit" /\ ~ detp[t] /\ ~ exiting[t]

\* The start routine returns.
RoutineReturns(t) == /\ pc[t] = "run"
                     /\ Continue(t, "detp")
                     /\ UNCHANGED <<descriptor, total>>

SetExiting(t) == exiting' = [exiting EXCEPT ![t] = TRUE]
                 /\ UNCHANGED <<id, joinpt, terminated, frees, race, total>>

\* pthread_exit
Exit(t) == /\ pc[t] = "run"
           /\ SetExiting(t)
           /\ call' = [call EXCEPT ![t] = "exit"]
           /\ Goto(t, "detp")
           /\ UNCHANGED <<target, tmp, detp>>

\* pthread_cancel of a thread in a join: pthread_exit with the handler pushed.
Cancel(t) == /\ pc[t] \in WaitPCs /\ call[t] \in JoinCalls
             /\ SetExiting(t)
             /\ call' = [call EXCEPT ![t] = "exit"]
             /\ Goto(t, "unclaim")
             /\ UNCHANGED <<target, tmp, detp>>

\* __pthread_cleanup: detached_p = DETACHED_P (pt) ...
ReadDetached(t) == /\ pc[t] = "detp"
                   /\ detp' = [detp EXCEPT ![t] = joinpt[t] = t]
                   /\ Befalls(t, IF joinpt[t] = t /\ Detaching(t) THEN "crossed" ELSE race[t])
                   /\ Goto(t, "setexit")
                   /\ UNCHANGED <<total, call, target, tmp>>

\* ... and then PT_FLG_EXITING.
MarkExiting(t) == pc[t] = "setexit" /\ SetExiting(t) /\ Continue(t, "count")

\* The last thread ends the process, and all threads with it.
CountDown(t) == /\ pc[t] = "count"
                /\ total' = total - 1
                /\ pc' = IF total = 1 THEN [u \in Threads |-> "ended"]
                                      ELSE [pc EXCEPT ![t] = "release"]
                /\ UNCHANGED <<descriptor, locals>>

\* Where a thread that waited for the end of another goes on.
Woken(t) == IF call[t] = "timedjoin" THEN "end" ELSE "load"

ReleaseRereads(t) ==
  /\ pc[t] = "release"
  /\ \/ /\ joinpt[t] = t
        /\ frees' = [frees EXCEPT ![t] = @ + 1]
        /\ Goto(t, "dead") /\ UNCHANGED id
     \/ /\ joinpt[t] # t
        /\ id' = [id EXCEPT ![t] = "zero"]
        /\ pc' = [v \in Threads |-> IF v = t THEN "dead"
                                    ELSE IF pc[v] = "sleep" /\ target[v] = t THEN Woken(v)
                                    ELSE pc[v]]
        /\ UNCHANGED frees
  /\ UNCHANGED <<joinpt, exiting, terminated, race, total, locals>>

ReleaseWakesNobody(t) ==
  /\ pc[t] = "release"
  /\ \/ detp[t] /\ frees' = [frees EXCEPT ![t] = @ + 1] /\ UNCHANGED id
     \/ ~ detp[t] /\ id' = [id EXCEPT ![t] = "zero"] /\ UNCHANGED frees
  /\ Goto(t, "dead")
  /\ UNCHANGED <<joinpt, exiting, terminated, race, total, locals>>

\* thread_terminate_release2: the kernel frees the stack of a detached thread; of
\* another it clears the id and wakes who waits on it.
Release(t) ==
  /\ pc[t] = "release"
  /\ \/ /\ detp[t]
        /\ frees' = [frees EXCEPT ![t] = @ + 1]
        /\ Goto(t, "dead") /\ UNCHANGED id
     \/ /\ ~ detp[t]
        /\ id' = [id EXCEPT ![t] = "zero"]
        /\ pc' = [v \in Threads |-> IF v = t THEN "dead"
                                    ELSE IF pc[v] = "sleep" /\ target[v] = t THEN Woken(v)
                                    ELSE pc[v]]
        /\ UNCHANGED frees
  /\ UNCHANGED <<joinpt, exiting, terminated, race, total, locals>>

-----------------------------------------------------------------------------
\* pthread_join, _timedjoin_np, _tryjoin_np and _detach.

\* The calls that POSIX defines.  A thread may always name itself, unless another is
\* about to claim it.
MayCall(t, u) ==
  /\ u # Main /\ pc[u] \notin {"none", "new"} /\ frees[u] = 0
  /\ \A v \in Threads : target[v] = u => u = t /\ pc[v] \in WaitPCs
  /\ u # t => joinpt[u] # u

Enter(t, u, c) == /\ pc[t] = "run" /\ MayCall(t, u)
                  /\ Goto(t, "check")
                  /\ call' = [call EXCEPT ![t] = c] /\ target' = [target EXCEPT ![t] = u]
                  /\ UNCHANGED <<descriptor, total, tmp, detp>>

\* EINVAL of a detached or claimed thread, EDEADLK, EBUSY, ESRCH of an ended one.
RefusesJoin(t, u) == \/ joinpt[u] # NULL
                     \/ u = t \/ joinpt[t] = u
                     \/ call[t] = "tryjoin" /\ id[u] # "zero"
RefusesDetach(u)  == id[u] = "zero" \/ joinpt[u] = u

Check(t) == /\ pc[t] = "check"
            /\ IF \/ call[t] \in JoinCalls /\ RefusesJoin(t, target[t])
                  \/ call[t] = "detach" /\ RefusesDetach(target[t])
               THEN Return(t)
               ELSE Continue(t, "claim")
            /\ UNCHANGED <<descriptor, total>>

\* The exchange of joinpt: EINVAL of a join, and 0 of a detach, if it fails.
Claim(t) == LET u == target[t]
            IN /\ pc[t] = "claim"
               /\ \/ joinpt[u] # NULL /\ Return(t) /\ UNCHANGED descriptor
                  \/ /\ joinpt[u] = NULL
                     /\ SetJoinpt(u, IF call[t] = "detach" THEN u ELSE t)
                     /\ Continue(t, CASE call[t] = "detach"  -> "flags"
                                       [] call[t] = "tryjoin" -> "end"
                                       [] OTHER               -> "load")
               /\ UNCHANGED total

DetachNeverWaits(t) == pc[t] = "flags" /\ Return(t) /\ UNCHANGED <<descriptor, total>>

\* pthread_detach waits for a thread that is exiting, and frees its stack.  If the
\* flag is clear it returns: in time, or between the two marks.
Flags(t) == LET u == target[t]
            IN /\ pc[t] = "flags"
               /\ \E flag \in Read(u, exiting, BOOLEAN) :
                    \/ flag /\ Continue(t, "load") /\ UNCHANGED descriptor
                    \/ ~ flag /\ Return(t) /\ Befalls(u, IF frees[u] > 0 THEN race[u]
                                                        ELSE IF BetweenMarks(u) THEN "missed" ELSE "none")
               /\ UNCHANGED total

\* while ((id = pt->id) != 0)
Load(t) == /\ pc[t] = "load"
           /\ \E i \in Read(target[t], id, Ids) :
                /\ tmp' = [tmp EXCEPT ![t] = i]
                /\ Goto(t, IF i = "zero" THEN "end" ELSE "wait")
           /\ UNCHANGED <<descriptor, total, call, target, detp>>

\* gsync_wait returns at once if the id has changed, which to the timed join is the
\* end of the thread, even if it is its beginning.
Wait(t) == LET u == target[t]
           IN /\ pc[t] = "wait"
              /\ \E i \in Read(u, id, Ids) :
                   \/ i = tmp[t] /\ Continue(t, "sleep") /\ UNCHANGED descriptor
                   \/ /\ i # tmp[t] /\ Continue(t, Woken(t))
                      /\ Befalls(u, IF call[t] = "timedjoin" /\ i # "zero" THEN "early" ELSE race[u])
              /\ UNCHANGED total

InterruptionIsTheEnd(t) == pc[t] = "sleep" /\ Continue(t, Woken(t)) /\ UNCHANGED <<descriptor, total>>

\* KERN_INTERRUPTED
Interrupted(t) == pc[t] = "sleep" /\ Continue(t, "load") /\ UNCHANGED <<descriptor, total>>

\* KERN_TIMEDOUT
Timeout(t) == /\ pc[t] \in {"wait", "sleep"} /\ call[t] = "timedjoin"
              /\ Continue(t, "unclaim")
              /\ UNCHANGED <<descriptor, total>>

UnclaimKeepsJoinpt(t) ==
  /\ pc[t] = "unclaim"
  /\ IF call[t] = "exit" THEN Continue(t, "detp") ELSE Return(t)
  /\ UNCHANGED <<descriptor, total>>

\* cleanup: the thread can be joined again.
Unclaim(t) == /\ pc[t] = "unclaim"
              /\ SetJoinpt(target[t], IF joinpt[target[t]] = t THEN NULL ELSE joinpt[target[t]])
              /\ \/ call[t] # "exit" /\ Return(t)
                 \/ /\ call[t] = "exit"
                    /\ Goto(t, "detp")
                    /\ target' = [target EXCEPT ![t] = NULL]
                    /\ tmp' = [tmp EXCEPT ![t] = "zero"]
                    /\ UNCHANGED <<call, detp>>
              /\ UNCHANGED total

\* __pthread_deallocate frees the stack if nobody did.
Deallocate(t) == LET u == target[t]
                 IN /\ pc[t] = "end"
                    /\ terminated' = [terminated EXCEPT ![u] = TRUE]
                    /\ \E flag \in Read(u, terminated, BOOLEAN) :
                         frees' = [frees EXCEPT ![u] = IF flag THEN @ ELSE @ + 1]
                    /\ Return(t)
                    /\ UNCHANGED <<id, joinpt, exiting, race, total>>

-----------------------------------------------------------------------------

\* The steps the code takes by itself, once called.
Step(t) == \/ Resume(t) \/ Start(t) \/ ReadDetached(t) \/ MarkExiting(t) \/ CountDown(t)
           \/ Release(t) \/ Check(t) \/ Claim(t) \/ Flags(t) \/ Load(t) \/ Wait(t)
           \/ Unclaim(t) \/ Deallocate(t)

Next == \E t \in Threads :
          \/ \E u \in Threads : Create(t, u)
          \/ \E u \in Threads, c \in JoinCalls \cup {"detach"} : Enter(t, u, c)
          \/ Step(t) \/ Undo(t) \/ RoutineReturns(t) \/ Exit(t)
          \/ Cancel(t) \/ Interrupted(t) \/ Timeout(t)

Spec == Init /\ [][Next]_vars

\* Running threads run on; nobody has to call, to end, or to be cancelled.
FairSpec == Spec /\ \A t \in Threads : WF_vars(Step(t))

-----------------------------------------------------------------------------

\* In a call on u from the claim of its descriptor on.
Claimers(u) == {t \in Threads : target[t] = u /\ pc[t] \in CallPCs \ {"resume", "check"}}

\* The stack of a thread, and the descriptor on it, are freed only when the
\* thread is dead and no join or detach is still to read the descriptor, and once:
\* the kernel and the threads that join or detach never both free it.  Except for
\* a thread that saw itself detached by a pthread_detach that then waits for it
\* (detach.c:34 after create.c:220), and one that was timed-joined before it began.
StackOutlivesItsUsers ==
  \A u \in Threads : frees[u] > 0 => \/ frees[u] = 1 /\ pc[u] \in {"dead", "ended"} /\ Claimers(u) = {}
                                   \/ race[u] \in {"crossed", "early"}

\* pthread.h:181, "Make THR detached, so that its resources are deallocated
\* immediately upon exit": a detached thread that is dead keeps its stack only while
\* the thread that detached it is about to free it.  Except, and against
\* that comment, if pthread_detach looked at its flags between create.c:220
\* and create.c:224, where it takes the thread for one that runs.
DetachedIsFreed ==
  \A u \in Threads : pc[u] = "dead" /\ joinpt[u] = u
                     => frees[u] > 0 \/ Claimers(u) # {} \/ race[u] = "missed"

\* pthread_join, _timedjoin_np and _tryjoin_np return 0 only after the end.  Except
\* a timed join whose wait the thread ended by giving itself an id (join.c:107).
JoinedAfterTheEnd ==
  \A t \in Threads : pc[t] = "end" => pc[target[t]] = "dead" \/ race[target[t]] = "early"

\* A thread that nobody is joining, whatever became of the joins that timed out or
\* were cancelled, can be joined or detached: joinpt names a thread in a join.
ClaimsAreAlive ==
  \A u \in Threads : LET v == joinpt[u] IN
    v \notin {NULL, u} => (frees[u] > 0 \/ (v \in Claimers(u)))

\* __pthread_cleanup calls exit (0) only when no other thread runs, or is about to
\* be started (create.c:303).
TheLastEndsTheProcess ==
  [][\A t \in Threads : pc[t] = "count" /\ pc'[t] = "ended"
                        => \A u \in Threads \ {t} : pc[u] \in {"none", "release", "dead"}]_vars

\* A join or detach of a thread that is dead, or has just to die, returns: the
\* kernel's change of the id is not missed.  Except a detach that waits for a thread
\* which saw itself detached: the kernel then frees the id instead of clearing it.
Awaits(t) == pc[t] \in WaitPCs /\ pc[target[t]] \in ExitPCs \cup {"dead"}
WaitsEnd == \A t \in Threads : Awaits(t) ~> \/ pc[t] \notin WaitPCs
                                            \/ call[t] = "detach" /\ race[target[t]] = "crossed"
=============================================================================
