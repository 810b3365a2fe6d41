------------------------------ MODULE RobustLock ------------------------------
(***************************************************************************)
(* The robust locks of pthread/lowlevellock.c: lll_robust_lock,            *)
(* __lll_robust_abstimed_lock, lll_robust_trylock and lll_robust_unlock    *)
(* over one word shared by several processes, any of which may die.  The   *)
(* kernel does not help: a waiter sleeps a bounded slice of time, then     *)
(* looks whether the process named in the word is still there.             *)
(*                                                                         *)
(* A read of the word whose value only feeds the compare-and-swap that     *)
(* follows is one step with it; where the value outlives a failed one, the *)
(* read is a step and val holds the value.                                 *)
(***************************************************************************)
EXTENDS Naturals, FiniteSets

CONSTANTS Threads,      \* the threads of all processes
          Pids,         \* the processes
          pid,          \* the process of each thread
          NoPid         \* 0 in the owner bits of the word

ASSUME PidAssumption == pid \in [Threads -> Pids] /\ NoPid \notin Pids

VARIABLES alive,        \* the processes that have not died
          word,         \* *ptr: owner bits, LLL_WAITERS, LLL_DEAD_OWNER
          val,          \* the value of the word a thread last read
          pc,           \* the next step of each thread
          op            \* the call each thread is in, or made last

lockVars == <<alive, word, val, pc, op>>

Words == [pid : Pids \cup {NoPid}, waiters : BOOLEAN, dead : BOOLEAN]

Free == [pid |-> NoPid, waiters |-> FALSE, dead |-> FALSE]

Taken(t, w) == [pid |-> pid[t], waiters |-> w, dead |-> FALSE]

LockInit == /\ alive = Pids
            /\ word = Free
            /\ val = [t \in Threads |-> Free]

-----------------------------------------------------------------------------

\* Go from one step to another, remembering v.
Move(t, l, m, v) == /\ pc[t] = l
                    /\ pc' = [pc EXCEPT ![t] = m]
                    /\ val' = [val EXCEPT ![t] = v]

Goto(t, l, m) == Move(t, l, m, Free)

Timed(t) == op[t] = "timed"

IgnoresDeath(w) == FALSE

\* valid_pid fails for the owner.
OwnerDied(w) == w.pid \in Pids \ alive

\* The first loop: take a free word, or set LLL_WAITERS and go on to the next.
FirstPass(t) == /\ \/ word = Free /\ word' = Taken(t, FALSE) /\ Goto(t, "first", "got")
                   \/ /\ word # Free
                      /\ word' = [word EXCEPT !.waiters = TRUE]
                      /\ Goto(t, "first", "look")
                /\ UNCHANGED <<alive, op>>

\* The head of the second loop: what was read decides what is tried.
Look(t) == /\ IF word = Free \/ OwnerDied(word)
              THEN Move(t, "look", "cas", word)
              ELSE Move(t, "look", "wait", word)
           /\ UNCHANGED <<alive, word, op>>

\* The two compare-and-swaps of the second loop.  The first one failing leads
\* to a wait for the word to stop being 0, the second one back to the head.
Cas(t) == /\ \/ /\ word = val[t]
                /\ word' = Taken(t, TRUE)
                /\ Goto(t, "cas", IF word = Free THEN "got" ELSE "gotdead")
             \/ /\ word # val[t]
                /\ \/ val[t] = Free /\ Move(t, "cas", "wait", Free)
                   \/ val[t] # Free /\ Goto(t, "cas", "look")
                /\ UNCHANGED word
          /\ UNCHANGED <<alive, op>>

\* lll_timed_wait: returns at once when the word is no longer what was read.
Wait(t) == /\ Goto(t, "wait", IF word = val[t] THEN "asleep" ELSE "look")
           /\ UNCHANGED <<alive, word, op>>

\* compute_reltime < 0: ETIMEDOUT.
Expired(t) == /\ Timed(t)
              /\ Goto(t, "wait", "out")
              /\ UNCHANGED <<alive, word, op>>

\* The slice of time is over: lll_robust_lock looks again, and the timed form
\* returns ETIMEDOUT even if its deadline is still far away.
SliceOver(t) == /\ Goto(t, "asleep", IF Timed(t) THEN "out" ELSE "look")
                /\ UNCHANGED <<alive, word, op>>

\* gsync_wait returns KERN_INTERRUPTED.
Interrupted(t) == /\ Goto(t, "asleep", "look")
                  /\ UNCHANGED <<alive, word, op>>

\* lll_robust_trylock reads the word: EBUSY if a living process has it.
TryLook(t) == /\ IF word = Free \/ OwnerDied(word)
                 THEN Move(t, "try", "trycas", word)
                 ELSE Goto(t, "try", "out")
              /\ UNCHANGED <<alive, word, op>>

\* It stores its process id alone, and drops a dead owner's LLL_WAITERS.
TryCas(t) == /\ \/ /\ word = val[t]
                   /\ word' = Taken(t, FALSE)
                   /\ Goto(t, "trycas", IF word = Free THEN "got" ELSE "gotdead")
                \/ word # val[t] /\ Goto(t, "trycas", "out") /\ UNCHANGED word
             /\ UNCHANGED <<alive, op>>

Sleepers == {t \in Threads : pc[t] = "asleep"}

\* lll_robust_unlock: with waiters, one gsync_wake that also clears the word;
\* without, a compare-and-swap to 0.
Release(t) == /\ pc[t] = "release"
              /\ word' = Free
              /\ \/ /\ ~word.waiters \/ Sleepers = {}
                    /\ Goto(t, "release", "out")
                 \/ /\ word.waiters
                    /\ \E s \in Sleepers :
                         /\ pc' = [pc EXCEPT ![t] = "out", ![s] = "look"]
                         /\ val' = [val EXCEPT ![t] = Free, ![s] = Free]
              /\ UNCHANGED <<alive, op>>

\* The steps a thread takes by itself once it has called.
LockStep(t) == \/ FirstPass(t) \/ Look(t) \/ Cas(t) \/ Wait(t) \/ SliceOver(t)
               \/ TryLook(t) \/ TryCas(t) \/ Release(t)

\* A process dies, with all its threads, wherever they are.
Die(p) == /\ p \in alive
          /\ alive' = alive \ {p}
          /\ pc' = [t \in Threads |-> IF pid[t] = p THEN "dead" ELSE pc[t]]
          /\ val' = [t \in Threads |-> IF pid[t] = p THEN Free ELSE val[t]]
          /\ UNCHANGED <<word, op>>
=============================================================================
