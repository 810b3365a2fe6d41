-------------------------------- MODULE Cancel --------------------------------
(***************************************************************************)
(* Cancellation, pthread/cancel.c: one thread, the target, that sets its   *)
(* cancelability, tests for requests and passes through cancellation       *)
(* points, and others that call pthread_cancel on it.  The flag word is    *)
(* changed by compare-and-swap loops and is one variable, a set of         *)
(* PT_FLG_ flags; the suspension of the target and the change of its       *)
(* program counter are Mach calls, with steps of the target in between.    *)
(***************************************************************************)
EXTENDS Naturals, FiniteSets

CONSTANT Cancellers     \* the threads that call pthread_cancel, once each

VARIABLES flags,        \* pt->flags
          at,           \* where the target is
          port,         \* intr_port of its signal state
          suspended,    \* the cancellers that have suspended it
          call,           \* the next step of each canceller
          old           \* oldval of each canceller

cancelVars == <<flags, at, port, suspended, call, old>>

\* "run" is the program; "begun" to "after" a cancellation point, with "entry"
\* the first instruction of _hurd_intr_rpc_mach_msg and "trap" its trap; "quit"
\* and "exit" are the calls of pthread_exit and exit_thread.
Places == {"run", "begun", "entry", "trap", "after", "quit", "exit", "cleanup", "over"}

Flags == {"cancelled", "cancelling", "async", "disable", "trans", "exiting"}

CancelTypeOK == /\ flags \subseteq Flags /\ at \in Places
                /\ port \in {"null", "dead", "server"}
                /\ suspended \subseteq Cancellers
                /\ call \in [Cancellers -> {"idle", "suspend", "redirect", "done", "missed", "gone"}]
                /\ old \in [Cancellers -> SUBSET Flags]

CancelInit == /\ flags = {} /\ at = "run" /\ port = "null" /\ suspended = {}
              /\ call = [c \in Cancellers |-> "idle"]
              /\ old = [c \in Cancellers |-> {}]

-----------------------------------------------------------------------------

\* CANCELLED_ENABLED_P and CANCELLED_ENABLED_ASYNC_P.
Due(f) == f \cap {"disable", "cancelled", "exiting"} = {"cancelled"}

DueAtOnce(f) == Due(f) /\ "async" \in f

Runs(l) == suspended = {} /\ at = l

cancellers == <<suspended, call, old>>

\* pthread_setcancelstate and pthread_setcanceltype: set or clear one flag, and
\* exit if that lets a request through.
SetFlag(f, on) == /\ Runs("run")
                  /\ flags' = IF on THEN flags \cup {f} ELSE flags \ {f}
                  /\ at' = IF flags' # flags /\ DueAtOnce(flags') THEN "quit" ELSE "run"
                  /\ UNCHANGED <<port, cancellers>>

SetCancelState == \E on \in BOOLEAN : SetFlag("disable", on)

SetCancelType == \E on \in BOOLEAN : SetFlag("async", on)

\* pthread_testcancel.
TestCancel == /\ Runs("run")
              /\ at' = IF Due(flags) THEN "quit" ELSE "run"
              /\ UNCHANGED <<flags, port, cancellers>>

BeginIgnoresRequests ==
  /\ Runs("run") /\ flags \cap {"async", "disable"} = {}
  /\ port' = "dead"
  /\ flags' = flags \cup {"async", "trans"}
  /\ at' = "begun"
  /\ UNCHANGED cancellers

\* __pthread_cancelpoint_begin; it does nothing when asynchronous or disabled.
Begin == /\ Runs("run") /\ flags \cap {"async", "disable"} = {}
         /\ port' = "dead"
         /\ flags' = flags \cup {"async", "trans"}
         /\ at' = IF DueAtOnce(flags') THEN "quit" ELSE "begun"
         /\ UNCHANGED cancellers

\* The RPC of a cancellation point (gsync_wait): it records its server as it
\* enters the trap, and forgets it as the trap returns.
EnterRpc == /\ Runs("begun") /\ at' = "entry"
            /\ UNCHANGED <<flags, port, cancellers>>

Trap == /\ Runs("entry") /\ at' = "trap" /\ port' = "server"
        /\ UNCHANGED <<flags, cancellers>>

TrapReturns == /\ Runs("trap") /\ at' = "after" /\ port' = "null"
               /\ UNCHANGED <<flags, cancellers>>

\* A loop around the RPC enters it again; a past deadline never enters it.
Again == /\ Runs("after") /\ at' = "entry"
         /\ UNCHANGED <<flags, port, cancellers>>

\* __pthread_cancelpoint_end.
End == /\ suspended = {} /\ at \in {"begun", "after"}
       /\ at' = "run" /\ flags' = flags \ {"async", "trans"}
       /\ UNCHANGED <<port, cancellers>>

\* The program calls pthread_exit by itself.
Exit == /\ Runs("run") /\ at' = "quit"
        /\ UNCHANGED <<flags, port, cancellers>>

\* exit_thread, where a canceller sends the target.
ExitThread == /\ Runs("exit") /\ at' = "quit"
              /\ flags' = flags \cup {"cancelled"}
              /\ UNCHANGED <<port, cancellers>>

\* pthread_exit, its cleanup handlers, and the end.
Quit == /\ Runs("quit") /\ at' = "cleanup"
        /\ flags' = flags \cup {"exiting"}
        /\ UNCHANGED <<port, cancellers>>

Finish == /\ Runs("cleanup") /\ at' = "over"
          /\ UNCHANGED <<flags, port, cancellers>>

-----------------------------------------------------------------------------

Request == flags \cup {"cancelling", "cancelled"}

\* pthread_cancel of a thread that is not to be interrupted: leave the request
\* in its flags, where it may be already.
Mark(c) == /\ call[c] = "idle" /\ at # "over"
           /\ Request = flags \/ ~DueAtOnce(Request)
           /\ flags' = Request /\ call' = [call EXCEPT ![c] = "done"]
           /\ UNCHANGED <<at, port, suspended, old>>

\* pthread_cancel of one that is: only PT_FLG_CANCELLING is set.
MarkAsync(c) == /\ call[c] = "idle" /\ at # "over"
                /\ Request # flags /\ DueAtOnce(Request)
                /\ old' = [old EXCEPT ![c] = flags]
                /\ flags' = flags \cup {"cancelling"}
                /\ call' = [call EXCEPT ![c] = "suspend"]
                /\ UNCHANGED <<at, port, suspended>>

\* The same on oneself.
CancelSelf == /\ Runs("run") /\ Request # flags
              /\ \/ DueAtOnce(Request) /\ flags' = flags \cup {"cancelling"} /\ at' = "quit"
                 \/ ~DueAtOnce(Request) /\ flags' = Request /\ UNCHANGED at
              /\ UNCHANGED <<port, cancellers>>

\* INVALID_P, or thread_suspend of a thread that has terminated: ESRCH.
Gone(c) == /\ call[c] \in {"idle", "suspend"} /\ at = "over"
           /\ call' = [call EXCEPT ![c] = "gone"]
           /\ UNCHANGED <<flags, at, port, suspended, old>>

Suspend(c) == /\ call[c] = "suspend" /\ at # "over"
              /\ suspended' = suspended \cup {c}
              /\ call' = [call EXCEPT ![c] = "redirect"]
              /\ UNCHANGED <<flags, at, port, old>>

InAnyRpc == TRUE

\* in_cancelpoint_p.
InCancelPoint == port # "null" /\ at # "entry"

\* thread_abort, which makes a trap return; the new program counter, if the
\* thread was not in transition or is inside the point; thread_resume.
Redirect(c) == /\ call[c] = "redirect"
               /\ suspended' = suspended \ {c}
               /\ \/ /\ "trans" \notin old[c] \/ InCancelPoint
                     /\ at' = "exit" /\ call' = [call EXCEPT ![c] = "done"]
                     /\ UNCHANGED port
                  \/ /\ "trans" \in old[c] /\ ~InCancelPoint
                     /\ call' = [call EXCEPT ![c] = "missed"]
                     /\ UNCHANGED <<at, port>>
               /\ UNCHANGED <<flags, old>>

CancelStep(c) == Mark(c) \/ MarkAsync(c) \/ Gone(c) \/ Suspend(c) \/ Redirect(c)

\* What the target does once it has begun to.
Proceeds == ExitThread \/ Quit \/ Finish \/ EnterRpc \/ Trap

Target == \/ Proceeds \/ SetCancelState \/ SetCancelType \/ TestCancel
          \/ Begin \/ TrapReturns \/ Again \/ End \/ Exit \/ CancelSelf

CancelNext == Target \/ \E c \in Cancellers : CancelStep(c)

CancelSpec == CancelInit /\ [][CancelNext]_cancelVars

\* Cancellers finish their calls, the target runs on, and its program goes on
\* calling pthread_testcancel with cancellation enabled.  No call is ever sure to
\* return from its trap.
Fairness == /\ \A c \in Cancellers : WF_cancelVars(call[c] \notin {"idle"} /\ CancelStep(c))
            /\ WF_cancelVars(Proceeds)
            /\ SF_cancelVars("disable" \notin flags /\ TestCancel)

FairCancel == CancelSpec /\ Fairness

-----------------------------------------------------------------------------

\* The flags that the target itself sets and clears.
Own(f) == f \cap {"async", "disable", "trans", "exiting"}

\* pthread_cancel sends a thread to exit_thread only with its cancelability
\* asynchronous and enabled, or inside a cancellation point, and a thread that
\* it found in a cancellation point never after the call of one has returned, so
\* that nothing the call obtained is lost (cancel.c:170).  The hazard is the time
\* between the compare-and-swap and the suspension.  The code does not look at
\* the flags again, and the first half is promised only to a thread whose own
\* flags are those the canceller read: one that disables cancellation or makes
\* it deferred in between is still forced.
ForcedWhereAllowed ==
  [][\A c \in Cancellers :
       call[c] = "redirect" /\ call'[c] = "done" /\ at \notin {"exit", "quit"} =>
         /\ \/ "async" \in flags /\ flags \cap {"disable", "exiting"} = {}
            \/ Own(flags) # Own(old[c])
         /\ at \in {"entry", "after"} => "trans" \notin old[c]]_cancelVars

\* A request that pthread_cancel has delivered ends the thread, whatever the
\* thread does to its cancelability in the meantime, unless it blocks requests
\* for ever: it never waits in a cancellation point with the request pending.
\* (Not so for a request that found the thread in transition but outside its
\* trap, which leaves no PT_FLG_CANCELLED behind.)
DeliveredRequestsEndIt == \/ <>[]("disable" \in flags)
                          \/ (\E c \in Cancellers : call[c] = "done") ~> at = "over"
=============================================================================
