-------------------------------- MODULE Once --------------------------------
(***************************************************************************)
(* pthread/once.c: pthread_once on one control variable, with routines     *)
(* that are cancelled and processes that fork.  Control variables live in  *)
(* private memory, so the model follows one process and, at a fork, goes   *)
(* over to the child: it inherits the word, keeps the forking thread alone *)
(* (the other names stand for threads it creates later) and has a new pid. *)
(***************************************************************************)
EXTENDS Pthreads, Naturals, FiniteSets

CONSTANTS Pids,         \* process identifiers
          ForksFrom,    \* where a thread may fork: between calls, in the routine
          Reuse         \* may a child get the pid of a dead ancestor?

ASSUME OnceAssumption == /\ Pids \subseteq Nat
                         /\ ForksFrom \subseteq {"out", "returned", "run"}
                         /\ Reuse \in BOOLEAN

VARIABLES word,       \* the once-control variable
          pid, used,  \* this process, and the pids of it and its ancestors
          val,        \* the word that each thread loaded
          completed   \* history: how often the routine ran to its end here

onceVars == <<word, pid, used, pc, val, completed>>

ONCE_INIT == 0
ONCE_WIP == 1
ONCE_DONE == 2

AnyTag(p) == ONCE_WIP

\* getpid () << ONCE_SHIFT | ONCE_WIP
Tag(p) == 4 * p + ONCE_WIP

Words == {ONCE_INIT, ONCE_DONE} \cup {Tag(p) : p \in Pids}

\* "clean" and "bcast" are the two steps of the cleanup handler, after which
\* the cancelled thread is "exited"; "set" is lll_set_wake.
RunnerPCs == {"run", "set", "clean"}
CallPCs == {"test", "load", "cas", "wait", "asleep", "bcast"} \cup RunnerPCs
OncePCs == {"out", "returned", "exited"} \cup CallPCs

OnceTypeOK == /\ word \in Words
              /\ pid \in used /\ used \subseteq Pids
              /\ pc \in [Threads -> OncePCs]
              /\ val \in [Threads -> Words]
              /\ completed \in Nat

\* PTHREAD_ONCE_INIT
OnceInit == /\ word = ONCE_INIT
            /\ pid \in Pids /\ used = {pid}
            /\ pc = [t \in Threads |-> "out"]
            /\ val = [t \in Threads |-> ONCE_INIT]
            /\ completed = 0

-----------------------------------------------------------------------------

process == <<pid, used>>

\* gsync_wake with GSYNC_BROADCAST: every sleeper goes back to the loop.
GotoWakingAll(t, l) == pc' = [u \in Threads |-> IF u = t THEN l
                                                ELSE IF pc[u] = "asleep" THEN "load" ELSE pc[u]]

\* A thread calls pthread_once, for the first time or again.
Enter(t) == /\ pc[t] \in {"out", "returned"}
            /\ Goto(t, "test")
            /\ UNCHANGED <<word, process, val, completed>>

\* The test before the loop.
FastPath(t) == /\ pc[t] = "test"
               /\ Goto(t, IF word = ONCE_DONE THEN "returned" ELSE "load")
               /\ UNCHANGED <<word, process, val, completed>>

\* val = atomic_load (ctp), and the tests that follow.
Load(t) == /\ pc[t] = "load"
           /\ val' = [val EXCEPT ![t] = word]
           /\ \/ word = ONCE_DONE /\ Goto(t, "returned")
              \/ word = Tag(pid) /\ Goto(t, "wait")
              \/ word \notin {ONCE_DONE, Tag(pid)} /\ Goto(t, "cas")
           /\ UNCHANGED <<word, process, completed>>

\* lll_wait: gsync_wait returns at once when the word has changed.
Wait(t) == /\ pc[t] = "wait"
           /\ Goto(t, IF word = val[t] THEN "asleep" ELSE "load")
           /\ UNCHANGED <<word, process, val, completed>>

\* KERN_INTERRUPTED
Interrupted(t) == /\ pc[t] = "asleep"
                  /\ Goto(t, "load")
                  /\ UNCHANGED <<word, process, val, completed>>

CasAssumed(t) == /\ pc[t] = "cas"
                 /\ word' = Tag(pid) /\ Goto(t, "run")
                 /\ UNCHANGED <<process, val, completed>>

\* atomic_cas_bool (ctp, val, nv)
Cas(t) == /\ pc[t] = "cas"
          /\ \/ word = val[t] /\ word' = Tag(pid) /\ Goto(t, "run")
             \/ word # val[t] /\ UNCHANGED word /\ Goto(t, "load")
          /\ UNCHANGED <<process, val, completed>>

\* fct () returns and its cleanup handler is popped.
RoutineReturns(t) == /\ pc[t] = "run"
                     /\ completed' = completed + 1
                     /\ Goto(t, "set")
                     /\ UNCHANGED <<word, process, val>>

\* lll_set_wake: gsync_wake with GSYNC_MUTATE stores and wakes in one step.
SetDone(t) == /\ pc[t] = "set"
              /\ word' = ONCE_DONE
              /\ GotoWakingAll(t, "returned")
              /\ UNCHANGED <<process, val, completed>>

\* The routine is cancelled, or calls pthread_exit.
RoutineCancelled(t) == /\ pc[t] = "run"
                       /\ Goto(t, "clean")
                       /\ UNCHANGED <<word, process, val, completed>>

CleanupOnlyResets(t) == /\ pc[t] = "clean"
                        /\ word' = ONCE_INIT
                        /\ Goto(t, "exited")
                        /\ UNCHANGED <<process, val, completed>>

\* cleanup: the word goes back to its initial state ...
CleanupReset(t) == /\ pc[t] = "clean"
                   /\ word' = ONCE_INIT
                   /\ Goto(t, "bcast")
                   /\ UNCHANGED <<process, val, completed>>

\* ... and the waiters compete again.
CleanupWake(t) == /\ pc[t] = "bcast"
                  /\ GotoWakingAll(t, "exited")
                  /\ UNCHANGED <<word, process, val, completed>>

\* fork by t, followed in the child.  A routine that the parent has ended but
\* not yet marked done has not completed for the child, which runs it again.
Fork(t) == /\ pc[t] \in ForksFrom
           /\ pid' \in Pids \ (IF Reuse THEN {pid} ELSE used)
           /\ used' = used \cup {pid'}
           /\ pc' = [u \in Threads |-> IF u = t THEN pc[t] ELSE "out"]
           /\ completed' = IF word = ONCE_DONE THEN completed ELSE 0
           /\ UNCHANGED <<word, val>>

-----------------------------------------------------------------------------

\* The steps of a call that the thread takes by itself.
OnceStep(t) == \/ FastPath(t) \/ Load(t) \/ Wait(t) \/ Cas(t)
               \/ RoutineReturns(t) \/ SetDone(t)
               \/ CleanupReset(t) \/ CleanupWake(t)

Exited == \A t \in Threads : pc[t] = "exited"

OnceNext == \/ \E t \in Threads : \/ OnceStep(t) \/ Enter(t) \/ Interrupted(t)
                                  \/ RoutineCancelled(t) \/ Fork(t)
            \/ Exited /\ UNCHANGED onceVars

OnceSpec == OnceInit /\ [][OnceNext]_onceVars

\* Running threads run on; the routine returns unless it is cancelled.
FairOnce == OnceSpec /\ \A t \in Threads : WF_onceVars(OnceStep(t))

-----------------------------------------------------------------------------

Running == {t \in Threads : pc[t] \in RunnerPCs}

\* "We're alone" (once.c:80): in a process, whatever is cancelled and whoever
\* forked it, at most one thread runs the routine or is ending it.
RunsAlone == \A t, u \in Running : t = u

\* "FCT is called only once" (pthread.h:607): the routine runs to its end at most
\* once in a process, and never in a child forked once it was marked done.
\* pthread_once returns in a thread only after that.
CompletesOnce == /\ completed <= 1
                 /\ \A t \in Threads : pc[t] = "returned" => completed > 0

\* A thread asleep in pthread_once will be woken: a thread of its own process is
\* running the routine, or is between the reset and the wake-up of cleanup.
NobodyStranded == (\E t \in Threads : pc[t] = "asleep")
                  => \E t \in Threads : pc[t] \in RunnerPCs \cup {"bcast"}

\* Every call returns, or its thread is cancelled in the routine; the call is also
\* over in a child that another thread forked.
CallsReturn == \A t \in Threads :
                 pc[t] \in CallPCs ~> pc[t] \in {"out", "returned", "exited"}
=============================================================================
