------------------------------- MODULE AtFork -------------------------------
(***************************************************************************)
(* pthread/fork.c: pthread_atfork and the three hooks that fork runs.      *)
(* After a fork the model follows the parent or the child.                 *)
(*                                                                         *)
(* Handlers are numbered as they are registered.  A new one goes to the    *)
(* head of the list: from number i, next leads to i - 1 and prev to i + 1, *)
(* atfork_handlers is the last number and atfork_last stays at 1.          *)
(***************************************************************************)
EXTENDS Naturals, Sequences

CONSTANTS Threads,
          MaxHandlers   \* bound: the handlers registered in a process

Nobody == "nobody"   \* not one of Threads
Locks == {"atfork", "running"}

VARIABLES handlers,  \* the number of the handler at the head; 0, an empty list
          holder,    \* who holds atfork_lock and __running_threads_lock
          pc, next,  \* the next step of each thread, and the handler it runs next
          prepared,  \* history: the prepare callbacks that a fork has run,
          answered   \* history: and the parent or child callbacks

logs == <<prepared, answered>>
vars == <<handlers, holder, pc, next, logs>>

Init == /\ handlers = 0
        /\ holder = [l \in Locks |-> Nobody]
        /\ pc = [t \in Threads |-> "run"]
        /\ next = [t \in Threads |-> [at |-> 0, head |-> 0]]
        /\ prepared = [t \in Threads |-> <<>>]
        /\ answered = [t \in Threads |-> <<>>]

-----------------------------------------------------------------------------

Move(t, l, m) == pc[t] = l /\ pc' = [pc EXCEPT ![t] = m]

Lock(t, l) == holder[l] = Nobody /\ holder' = [holder EXCEPT ![l] = t]
Unlock(l)  == holder' = [holder EXCEPT ![l] = Nobody]

From(t, i, h) == next' = [next EXCEPT ![t] = [at |-> i, head |-> h]]
Log(log, t)   == [log EXCEPT ![t] = Append(@, next[t].at)]

\* pthread_atfork
Atfork(t) == /\ handlers < MaxHandlers
             /\ Move(t, "run", "insert") /\ Lock(t, "atfork")
             /\ UNCHANGED <<handlers, next, logs>>

Insert(t) == /\ Move(t, "insert", "inserted")
             /\ handlers' = handlers + 1
             /\ UNCHANGED <<holder, next, logs>>

AtforkUnlock(t) == /\ Move(t, "inserted", "run") /\ Unlock("atfork")
                   /\ UNCHANGED <<handlers, next, logs>>

-----------------------------------------------------------------------------
\* pt_atfork_prepare: from atfork_last along prev to the head, both read under
\* atfork_lock.

PrepareRead(t) == /\ holder["atfork"] = Nobody
                  /\ Move(t, "run", IF handlers = 0 THEN "prepared" ELSE "prepare")
                  /\ From(t, IF handlers = 0 THEN 0 ELSE 1, handlers)
                  /\ UNCHANGED <<handlers, holder, logs>>

Prepare(t) ==
  /\ \/ /\ next[t].at = next[t].head
        /\ Move(t, "prepare", "prepared") /\ From(t, 0, 0)
     \/ /\ next[t].at # next[t].head
        /\ Move(t, "prepare", "prepare") /\ From(t, next[t].at + 1, next[t].head)
  /\ prepared' = Log(prepared, t)
  /\ UNCHANGED <<handlers, holder, answered>>

\* No thread starts or ends from here until the hooks of the parent are over.
PrepareRunning(t) == /\ Move(t, "prepared", "fork") /\ Lock(t, "running")
                     /\ UNCHANGED <<handlers, next, logs>>

-----------------------------------------------------------------------------
\* pt_atfork_child and pt_atfork_parent run the list from its head along next,
\* with the handlers registered since.

\* The child has one thread, and atfork_lock as it was.
Child(t) == /\ pc[t] = "fork"
            /\ pc' = [u \in Threads |-> IF u = t THEN "child" ELSE "gone"]
            /\ From(t, handlers, 0)
            /\ Unlock("running")
            /\ UNCHANGED <<handlers, logs>>

\* The child's list and atfork_lock are reset after its callbacks.
ChildDone(t) == /\ next[t].at = 0 /\ Move(t, "child", "forked")
                /\ handlers' = 0
                /\ Unlock("atfork")
                /\ UNCHANGED <<next, logs>>

Parent(t) == /\ holder["atfork"] = Nobody
             /\ Move(t, "fork", "parent") /\ From(t, handlers, 0)
             /\ UNCHANGED <<handlers, holder, logs>>

ParentDone(t) == /\ next[t].at = 0 /\ Move(t, "parent", "forked")
                 /\ Unlock("running")
                 /\ UNCHANGED <<handlers, next, logs>>

Answer(t) == /\ pc[t] \in {"parent", "child"} /\ next[t].at > 0
             /\ answered' = Log(answered, t)
             /\ From(t, next[t].at - 1, 0)
             /\ UNCHANGED <<handlers, holder, pc, prepared>>

\* fork returns to the program.
Return(t) == /\ Move(t, "forked", "run")
             /\ prepared' = [prepared EXCEPT ![t] = <<>>]
             /\ answered' = [answered EXCEPT ![t] = <<>>]
             /\ UNCHANGED <<handlers, holder, next>>

-----------------------------------------------------------------------------

Next == \E t \in Threads :
          \/ Atfork(t) \/ Insert(t) \/ AtforkUnlock(t)
          \/ PrepareRead(t) \/ Prepare(t) \/ PrepareRunning(t)
          \/ Child(t) \/ ChildDone(t) \/ Parent(t) \/ ParentDone(t) \/ Answer(t)
          \/ Return(t)

Spec == Init /\ [][Next]_vars

-----------------------------------------------------------------------------

\* pthread_atfork (pthread.h:205, "The PREPARE callbacks are called in LIFO order
\* before the child process is created"): a handler is prepared before those
\* registered earlier.
PreparedInReverse ==
  \A t \in Threads : \A i, j \in 1..Len(prepared[t]) :
    i < j => prepared[t][i] > prepared[t][j]
=============================================================================
