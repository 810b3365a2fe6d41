-------------------------- MODULE LifecycleProofs --------------------------
(***************************************************************************)
(* For every finite set of threads, and but for the threads that a race    *)
(* befell: a stack is freed once, after the end of its thread and of every *)
(* join and detach of it; a detached thread that is dead has been freed or *)
(* is about to be; joins succeed on dead threads only.  A joinpt always    *)
(* names a thread that is in a join, and the thread that ends the process  *)
(* is the last.                                                            *)
(*                                                                         *)
(* The two orders of detach and exit make the invariant: detached_p says   *)
(* who frees the stack, the kernel or the thread that detached it, and     *)
(* what that thread reads in the flags must agree with it (Detached), or   *)
(* else the history says that the two looks crossed or missed each other;  *)
(* and __pthread_total is exact (TotalInv), so that nobody is in a call    *)
(* when the process ends.  What the history says is exact enough (RaceInv) *)
(* to keep each race to the thread that it befell.  All is inductive only  *)
(* together.                                                               *)
(***************************************************************************)
EXTENDS Lifecycle, FiniteSetTheorems, TLAPS

\* A thread is over, or has set PT_FLG_EXITING in __pthread_cleanup.
Over == {"dead", "ended"}
Marked == {"count", "release", "dead"}

\* From the claim of the descriptor to the end of the call.
HoldPCs == WaitPCs \cup {"unclaim", "end"}

\* The program counter of a thread in a call says which calls it can be in.
CallShape ==
  \A t \in Threads :
    /\ target[t] # NULL <=> pc[t] \in CallPCs
    /\ pc[t] \in {"check", "claim", "end"} => call[t] \in JoinCalls \cup {"detach"}
    /\ pc[t] = "flags" => call[t] = "detach"
    /\ pc[t] \in WaitPCs => call[t] \in {"join", "timedjoin", "detach"}
    /\ pc[t] = "unclaim" => call[t] \in {"timedjoin", "exit"}
    /\ pc[t] \in HoldPCs => target[t] # t
    /\ pc[t] = "claim" /\ target[t] = t => call[t] = "detach"

\* Calls on a thread do not overlap, but for what it does itself while another
\* waits for its end.
OneCaller ==
  /\ \A t, v \in Threads :
       t # v /\ target[t] = target[v] /\ target[t] # NULL => target[t] \in {t, v}
  /\ \A t, v \in Threads : t # v /\ target[t] = t /\ target[v] = t => pc[v] \in HoldPCs
  /\ \A t \in Threads : IF pc[t] = "resume" THEN target[t] # t /\ pc[target[t]] = "new"
                        ELSE target[t] # NULL => pc[target[t]] \notin {"none", "new"}

\* Whom joinpt names: the thread that joins, or the one that is detached.
Claims ==
  \A t \in Threads : LET u == target[t] IN
    /\ pc[t] \in {"check", "claim"} /\ u # t => joinpt[u] # u
    /\ pc[t] = "flags" => joinpt[u] = u
    /\ pc[t] \in HoldPCs => IF call[t] = "detach" THEN joinpt[u] = u ELSE joinpt[u] = t

\* A thread named by the joinpt of another is in a join of it.
ClaimsHeld ==
  \A u, v \in Threads : joinpt[u] = v /\ u # v
                          => frees[u] > 0 \/ (target[v] = u /\ pc[v] \in HoldPCs)

\* PT_FLG_EXITING is set at the end only, and once the two marks are.
Marks ==
  \A u \in Threads :
    /\ exiting[u] => pc[u] \in ExitPCs \cup {"unclaim"} \cup Over
    /\ exiting[u] /\ pc[u] = "unclaim" => call[u] = "exit"
    /\ pc[u] \in Marked => exiting[u]

\* Who frees the stack of u if it is detached: the kernel if u saw that when it read
\* detached_p, and then nobody is in a call on u unless the two looks crossed; else the
\* thread that detached u, unless it missed the exit.
DetachedAt(u) ==
  /\ detp[u] => /\ pc[u] \in {"setexit"} \cup Marked \cup {"ended"}
                /\ joinpt[u] = u
                /\ race[u] = "crossed" \/ \A v \in Threads : target[v] # u
                /\ pc[u] = "dead" => frees[u] > 0
  /\ pc[u] \in {"setexit"} \cup Marked /\ joinpt[u] = u
       => \/ detp[u] \/ frees[u] > 0 \/ race[u] = "missed"
          \/ \E v \in Threads \ {u} : /\ target[v] = u /\ call[v] = "detach"
                                      /\ pc[v] \in {"flags"} \cup HoldPCs
Detached == \A u \in Threads : DetachedAt(u)

\* What befell u: a thread that missed it has left; the kernel frees a thread that
\* crossed its detach; the join that ended early will free u, or has, while u holds on to
\* the joinpt of that join.
RaceAt(u) ==
  /\ race[u] = "missed" => /\ pc[u] \in {"setexit"} \cup Marked \cup {"ended"} /\ joinpt[u] = u
                           /\ \A v \in Threads : target[v] # u
  /\ race[u] = "crossed" => detp[u]
  /\ race[u] = "early" => /\ joinpt[u] \notin {NULL, u} /\ pc[u] \notin {"none", "new"}
                          /\ \A v \in Threads \ {u} : target[v] = u => pc[v] = "end"
                          /\ frees[u] = 0 <=> \E v \in Threads \ {u} : target[v] = u
RaceInv == \A u \in Threads : RaceAt(u)

\* What id says of a thread's life.
IdInv ==
  /\ \A u \in Threads : id[u] = "zero" => pc[u] \in Over
  /\ \A t \in Threads :
       /\ pc[t] = "claim" /\ call[t] = "tryjoin" => id[target[t]] = "zero"
       /\ pc[t] = "end" => pc[target[t]] = "dead" \/ race[target[t]] = "early"

\* A stack that is freed was that of a dead thread, whom no call names, unless a race
\* befell it; only the kernel and the thread that crossed it both free it.
FreesAt(u) ==
  /\ frees[u] > 0 => \/ race[u] = "early" /\ frees[u] = 1 
                     \/ pc[u] \in Over /\ (race[u] = "crossed" \/ \A v \in Threads : target[v] # u)
  /\ frees[u] > 1 => race[u] = "crossed" /\ \A v \in Threads : target[v] # u
  /\ terminated[u] => frees[u] > 0
FreesInv == \A u \in Threads : FreesAt(u)

\* __pthread_total counts the threads from their creation to their exit.
Counted == {u \in Threads : pc[u] \notin {"none", "release", "dead"}}
TotalInv == \/ \A u \in Threads : pc[u] = "ended"
            \/ total = Cardinality(Counted) /\ \A u \in Threads : pc[u] # "ended"

IInv == /\ TypeOK /\ CallShape /\ OneCaller /\ Claims /\ ClaimsHeld
        /\ Marks /\ Detached /\ RaceInv /\ IdInv /\ FreesInv /\ TotalInv

-----------------------------------------------------------------------------

\* The steps that t takes.
Act(t) == \/ \E u \in Threads : Create(t, u)
          \/ \E u \in Threads, c \in JoinCalls \cup {"detach"} : Enter(t, u, c)
          \/ Step(t) \/ Undo(t) \/ RoutineReturns(t) \/ Exit(t)
          \/ Cancel(t) \/ Interrupted(t) \/ Timeout(t)

\* While a thread takes a step, the process has not ended.
LEMMA NotEnded ==
  ASSUME IInv, NEW t \in Threads, Act(t) PROVE \A u \in Threads : pc[u] # "ended"
<1>1. pc[t] # "ended"
  BY
     DEF Act, Step, Create, Enter, Resume, Undo, Start, RoutineReturns, Exit, Cancel,
         ReadDetached,
         MarkExiting, CountDown, Release, Check, Claim, Flags, Load, Wait, Interrupted, Timeout,
         Unclaim, Deallocate, WaitPCs
<1> QED BY <1>1 DEF IInv, TotalInv

\* A call is made of the steps that its kind has.
LEMMA CallShapeStep ==
  ASSUME IInv, NEW t \in Threads, Act(t), ~ (CountDown(t) /\ total = 1)
  PROVE  CallShape'
<1>0. TypeOK /\ CallShape /\ OneCaller /\ Claims /\ ClaimsHeld
      /\ Marks /\ Detached /\ RaceInv /\ IdInv /\ FreesInv
  BY DEF IInv
<1>n. NULL \notin Threads
  BY LifeAssumption
<1>e. \A u \in Threads : pc[u] # "ended"
  BY NotEnded
<1> USE <1>0, <1>n DEF TypeOK, Goto, Continue, Return, descriptor, locals, PCs, ExitPCs, WaitPCs,
           CallPCs, HoldPCs, Over, Marked, JoinCalls, Calls, Befalls, Read
<1>1. CASE \E w \in Threads : Create(t, w)
  BY <1>1 DEF Create, SetJoinpt, CallShape, OneCaller, Claims, Marks
<1>2. CASE \E w \in Threads, c \in JoinCalls \cup {"detach"} : Enter(t, w, c)
  BY <1>2 DEF Enter, MayCall, CallShape, OneCaller, Claims, Marks
<1>3. CASE Resume(t) \/ Undo(t)
  BY <1>3 DEF Resume, Undo, SetJoinpt, CallShape, OneCaller, Claims, Marks
<1>4. CASE Start(t) \/ RoutineReturns(t)
  BY <1>4 DEF Start, RoutineReturns, CallShape, OneCaller, Claims, Marks
<1>5. CASE Exit(t) \/ Cancel(t) \/ MarkExiting(t)
  BY <1>5 DEF Exit, Cancel, MarkExiting, SetExiting, CallShape, OneCaller, Claims, Marks
<1>6. CASE ReadDetached(t)
  BY <1>6 DEF ReadDetached, CallShape, OneCaller, Claims, Marks
<1>7. CASE CountDown(t) /\ total # 1
  BY <1>7 DEF CountDown, CallShape, OneCaller, Claims, Marks
<1>8. CASE Release(t)
  BY <1>8 DEF Release, Woken, CallShape, OneCaller, Claims, Marks
<1>9. CASE Check(t)
  BY <1>9 DEF Check, RefusesJoin, RefusesDetach, CallShape, OneCaller, Claims, Marks
<1>10. CASE Claim(t)
  BY <1>10 DEF Claim, SetJoinpt, CallShape, OneCaller, Claims, Marks
<1>11. CASE Flags(t)
  <2>0. /\ pc[t] = "flags" /\ call[t] = "detach" /\ target[t] \in Threads /\ joinpt[target[t]] = target[t]
        /\ UNCHANGED <<exiting, frees>>
    BY <1>11 DEF Flags, CallShape, Claims
  <2>1. CASE pc' = [pc EXCEPT ![t] = "load"] /\ UNCHANGED <<call, target>> /\ target[t] # t
    BY <2>0, <2>1 DEF CallShape
  <2>2. CASE Return(t)
    BY <2>0, <2>2 DEF CallShape
  <2>3. target[t] = t => ~ exiting[t] /\ frees[t] = 0
    BY <1>e, <2>0 DEF Marks, FreesInv, FreesAt, RaceInv, RaceAt
  <2>4. \/ Return(t)
        \/ pc' = [pc EXCEPT ![t] = "load"] /\ UNCHANGED <<call, target>> /\ target[t] # t
    BY <1>11, <2>3 DEF Flags
  <2> QED BY <2>1, <2>2, <2>4
<1>12. CASE Load(t) \/ Wait(t)
  BY <1>12 DEF Load, Wait, Woken, CallShape, OneCaller, Claims, Marks
<1>13. CASE Interrupted(t) \/ Timeout(t)
  BY <1>13 DEF Interrupted, Timeout, CallShape, OneCaller, Claims, Marks
<1>14. CASE Unclaim(t)
  BY <1>14 DEF Unclaim, SetJoinpt, CallShape, OneCaller, Claims, Marks
<1>15. CASE Deallocate(t)
  BY <1>15 DEF Deallocate, CallShape, OneCaller, Claims, Marks
<1> QED BY <1>1, <1>2, <1>3, <1>4, <1>5, <1>6, <1>7, <1>8, <1>9, <1>10, <1>11,
       <1>12, <1>13, <1>14, <1>15 DEF Act, Step

\* MayCall keeps the calls on one thread apart, and a new thread has one creator.
LEMMA OneCallerStep ==
  ASSUME IInv, NEW t \in Threads, Act(t), ~ (CountDown(t) /\ total = 1)
  PROVE  OneCaller'
<1>0. TypeOK /\ CallShape /\ OneCaller /\ Claims /\ ClaimsHeld
      /\ Marks /\ Detached /\ RaceInv /\ IdInv /\ FreesInv
  BY DEF IInv
<1>n. NULL \notin Threads
  BY LifeAssumption
<1>e. \A u \in Threads : pc[u] # "ended"
  BY NotEnded
<1>r. ASSUME NEW l \in PCs \ {"none", "new", "resume"}, pc[t] \in CallPCs \ {"resume"},
             pc' = [pc EXCEPT ![t] = l], target' = [target EXCEPT ![t] = NULL]
      PROVE  OneCaller'
  <2>1. pc \in [Threads -> PCs] /\ target \in [Threads -> Threads \cup {NULL}]
    BY <1>0 DEF TypeOK
  <2>2. /\ pc'[t] = l /\ target'[t] = NULL
        /\ \A u \in Threads \ {t} : pc'[u] = pc[u] /\ target'[u] = target[u]
    BY <1>r, <2>1
  <2>3. pc[t] \notin {"none", "new", "resume"}
    BY <1>r DEF CallPCs, WaitPCs
  <2>4. \A u, v \in Threads : u # v /\ target'[u] = target'[v] /\ target'[u] # NULL =>
          target'[u] \in {u, v}
    BY <1>0, <2>2 DEF OneCaller
  <2>5. \A u, v \in Threads : u # v /\ target'[u] = u /\ target'[v] = u => pc'[v] \in HoldPCs
    BY <1>0, <1>n, <2>2 DEF OneCaller
  <2>6. ASSUME NEW u \in Threads
        PROVE  IF pc'[u] = "resume" THEN target'[u] # u /\ pc'[target'[u]] = "new"
               ELSE target'[u] # NULL => pc'[target'[u]] \notin {"none", "new"}
    <3>1. CASE u = t
      BY <2>2, <3>1
    <3>2. CASE u # t
      <4>1. IF pc[u] = "resume" THEN target[u] # u /\ pc[target[u]] = "new"
            ELSE target[u] # NULL => pc[target[u]] \notin {"none", "new"}
        BY <1>0 DEF OneCaller
      <4>2. target[u] \in Threads \/ (target[u] = NULL /\ pc[u] # "resume")
        BY <1>0, <2>1 DEF CallShape, CallPCs
      <4> QED BY <2>2, <2>3, <3>2, <4>1, <4>2
    <3> QED BY <3>1, <3>2
  <2> QED BY <2>4, <2>5, <2>6 DEF OneCaller
<1> USE <1>0, <1>n DEF TypeOK, Goto, Continue, Return, descriptor, locals, PCs, ExitPCs, WaitPCs,
           CallPCs, HoldPCs, Over, Marked, JoinCalls, Calls, Befalls, Read
<1>1. CASE \E w \in Threads : Create(t, w)
  BY <1>1 DEF Create, SetJoinpt, CallShape, OneCaller, Claims
<1>2. CASE \E w \in Threads, c \in JoinCalls \cup {"detach"} : Enter(t, w, c)
  BY <1>2 DEF Enter, MayCall, CallShape, OneCaller, Claims
<1>3. CASE Resume(t) \/ Undo(t)
  BY <1>3 DEF Resume, Undo, SetJoinpt, CallShape, OneCaller, Claims
<1>4. CASE Start(t) \/ RoutineReturns(t)
  BY <1>4 DEF Start, RoutineReturns, CallShape, OneCaller, Claims
<1>5. CASE Exit(t) \/ Cancel(t) \/ MarkExiting(t)
  BY <1>5 DEF Exit, Cancel, MarkExiting, SetExiting, CallShape, OneCaller, Claims
<1>6. CASE ReadDetached(t)
  BY <1>6 DEF ReadDetached, CallShape, OneCaller, Claims
<1>7. CASE CountDown(t) /\ total # 1
  BY <1>7 DEF CountDown, CallShape, OneCaller, Claims
<1>8. CASE Release(t)
  BY <1>8 DEF Release, Woken, CallShape, OneCaller, Claims
<1>9. CASE Check(t)
  <2>0. pc[t] = "check" /\ target[t] \in Threads /\ pc[target[t]] \notin {"none", "new"}
    BY <1>9 DEF Check, CallShape, OneCaller
  <2>1. CASE UNCHANGED target /\ \E l \in {"claim"} : pc' = [pc EXCEPT ![t] = l]
    BY <2>0, <2>1 DEF OneCaller, CallShape
  <2>2. CASE pc' = [pc EXCEPT ![t] = "run"] /\ target' = [target EXCEPT ![t] = NULL]
    BY <2>0, <2>2 DEF OneCaller, CallShape
  <2> QED BY <1>9, <2>1, <2>2 DEF Check
<1>10. CASE Claim(t)
  <2>0. pc[t] = "claim" /\ target[t] \in Threads /\ pc[target[t]] \notin {"none", "new"}
    BY <1>10 DEF Claim, CallShape, OneCaller
  <2>1. CASE UNCHANGED target /\ \E l \in {"flags", "end", "load"} : pc' = [pc EXCEPT ![t] = l]
    BY <2>0, <2>1 DEF OneCaller, CallShape
  <2>2. CASE pc' = [pc EXCEPT ![t] = "run"] /\ target' = [target EXCEPT ![t] = NULL]
    BY <2>0, <2>2 DEF OneCaller, CallShape
  <2> QED BY <1>10, <2>1, <2>2 DEF Claim
<1>11. CASE Flags(t)
  BY <1>11 DEF Flags, CallShape, OneCaller, Claims
<1>12. CASE Load(t) \/ Wait(t)
  BY <1>12 DEF Load, Wait, Woken, CallShape, OneCaller, Claims
<1>13. CASE Interrupted(t) \/ Timeout(t)
  BY <1>13 DEF Interrupted, Timeout, CallShape, OneCaller, Claims
<1>14. CASE Unclaim(t)
  <2>1. /\ \E l \in {"run", "detp"} : pc' = [pc EXCEPT ![t] = l]
        /\ target' = [target EXCEPT ![t] = NULL] /\ pc[t] = "unclaim"
    BY <1>14 DEF Unclaim
  <2> QED BY <1>r, <2>1
<1>15. CASE Deallocate(t)
  <2>1. pc' = [pc EXCEPT ![t] = "run"] /\ target' = [target EXCEPT ![t] = NULL] /\ pc[t] = "end"
    BY <1>15 DEF Deallocate
  <2> QED BY <1>r, <2>1
<1> QED BY <1>1, <1>2, <1>3, <1>4, <1>5, <1>6, <1>7, <1>8, <1>9, <1>10, <1>11,
       <1>12, <1>13, <1>14, <1>15 DEF Act, Step

\* The exchange of joinpt succeeds for one caller, and only that one clears it.
LEMMA ClaimsStep ==
  ASSUME IInv, NEW t \in Threads, Act(t), ~ (CountDown(t) /\ total = 1)
  PROVE  Claims'
<1>0. TypeOK /\ CallShape /\ OneCaller /\ Claims /\ ClaimsHeld
      /\ Marks /\ Detached /\ RaceInv /\ IdInv /\ FreesInv
  BY DEF IInv
<1>n. NULL \notin Threads
  BY LifeAssumption
<1>e. \A u \in Threads : pc[u] # "ended"
  BY NotEnded
<1> USE <1>0, <1>n DEF TypeOK, Goto, Continue, Return, descriptor, locals, PCs, ExitPCs, WaitPCs,
           CallPCs, HoldPCs, Over, Marked, JoinCalls, Calls, Befalls, Read
<1>1. CASE \E w \in Threads : Create(t, w)
  BY <1>1
     DEF Create, SetJoinpt, CallShape, OneCaller, Claims, Marks, Detached, DetachedAt
<1>2. CASE \E w \in Threads, c \in JoinCalls \cup {"detach"} : Enter(t, w, c)
  BY <1>2
     DEF Enter, MayCall, CallShape, OneCaller, Claims, Marks, Detached, DetachedAt
<1>3. CASE Resume(t) \/ Undo(t)
  BY <1>3
     DEF Resume, Undo, SetJoinpt, CallShape, OneCaller, Claims, Marks, Detached, DetachedAt
<1>4. CASE Start(t) \/ RoutineReturns(t)
  BY <1>4
     DEF Start, RoutineReturns, CallShape, OneCaller, Claims, Marks, Detached, DetachedAt
<1>5. CASE Exit(t) \/ Cancel(t) \/ MarkExiting(t)
  BY <1>5
     DEF Exit, Cancel, MarkExiting, SetExiting, CallShape, OneCaller, Claims, Marks, Detached,
         DetachedAt
<1>6. CASE ReadDetached(t)
  BY <1>6
     DEF ReadDetached, CallShape, OneCaller, Claims, Marks, Detached, DetachedAt
<1>7. CASE CountDown(t) /\ total # 1
  BY <1>7
     DEF CountDown, CallShape, OneCaller, Claims, Marks, Detached, DetachedAt
<1>8. CASE Release(t)
  BY <1>8
     DEF Release, Woken, CallShape, OneCaller, Claims, Marks, Detached, DetachedAt
<1>9. CASE Check(t)
  BY <1>9
     DEF Check, RefusesJoin, RefusesDetach, CallShape, OneCaller, Claims, Marks, Detached,
         DetachedAt
<1>10. CASE Claim(t)
  BY <1>10
     DEF Claim, SetJoinpt, CallShape, OneCaller, Claims, Marks, Detached, DetachedAt
<1>11. CASE Flags(t)
  BY <1>11 DEF Flags, CallShape, OneCaller, Claims
<1>12. CASE Load(t) \/ Wait(t)
  BY <1>12
     DEF Load, Wait, Woken, CallShape, OneCaller, Claims, Marks, Detached, DetachedAt
<1>13. CASE Interrupted(t) \/ Timeout(t)
  BY <1>13
     DEF Interrupted, Timeout, CallShape, OneCaller, Claims, Marks, Detached, DetachedAt
<1>14. CASE Unclaim(t)
  BY <1>14
     DEF Unclaim, SetJoinpt, CallShape, OneCaller, Claims, Marks, Detached, DetachedAt
<1>15. CASE Deallocate(t)
  BY <1>15
     DEF Deallocate, CallShape, OneCaller, Claims, Marks, Detached, DetachedAt
<1> QED BY <1>1, <1>2, <1>3, <1>4, <1>5, <1>6, <1>7, <1>8, <1>9, <1>10, <1>11,
       <1>12, <1>13, <1>14, <1>15 DEF Act, Step

\* A join that does not end with the release of the descriptor clears joinpt.
LEMMA ClaimsHeldStep ==
  ASSUME IInv, NEW t \in Threads, Act(t), ~ (CountDown(t) /\ total = 1)
  PROVE  ClaimsHeld'
<1>0. TypeOK /\ CallShape /\ OneCaller /\ Claims /\ ClaimsHeld
      /\ Marks /\ Detached /\ RaceInv /\ IdInv /\ FreesInv
  BY DEF IInv
<1>n. NULL \notin Threads
  BY LifeAssumption
<1>e. \A u \in Threads : pc[u] # "ended"
  BY NotEnded
<1> USE <1>0, <1>n DEF TypeOK, Goto, Continue, Return, descriptor, locals, PCs, ExitPCs, WaitPCs,
           CallPCs, HoldPCs, Over, Marked, JoinCalls, Calls, Befalls, Read
<1>1. CASE \E w \in Threads : Create(t, w)
  BY <1>1 DEF Create, SetJoinpt, CallShape, OneCaller, Claims, ClaimsHeld, FreesInv
<1>2. CASE \E w \in Threads, c \in JoinCalls \cup {"detach"} : Enter(t, w, c)
  BY <1>2 DEF Enter, MayCall, CallShape, OneCaller, Claims, ClaimsHeld, FreesInv
<1>3. CASE Resume(t) \/ Undo(t)
  BY <1>3 DEF Resume, Undo, SetJoinpt, CallShape, OneCaller, Claims, ClaimsHeld, FreesInv
<1>4. CASE Start(t) \/ RoutineReturns(t)
  BY <1>4 DEF Start, RoutineReturns, CallShape, OneCaller, Claims, ClaimsHeld, FreesInv
<1>5. CASE Exit(t) \/ Cancel(t) \/ MarkExiting(t)
  BY <1>5
     DEF Exit, Cancel, MarkExiting, SetExiting, CallShape, OneCaller, Claims, ClaimsHeld, FreesInv
<1>6. CASE ReadDetached(t)
  BY <1>6 DEF ReadDetached, CallShape, OneCaller, Claims, ClaimsHeld, FreesInv
<1>7. CASE CountDown(t) /\ total # 1
  BY <1>7 DEF CountDown, CallShape, OneCaller, Claims, ClaimsHeld, FreesInv
<1>8. CASE Release(t)
  BY <1>8 DEF Release, Woken, CallShape, OneCaller, Claims, ClaimsHeld, FreesInv
<1>9. CASE Check(t)
  BY <1>9
     DEF Check, RefusesJoin, RefusesDetach, CallShape, OneCaller, Claims, ClaimsHeld, FreesInv
<1>10. CASE Claim(t)
  BY <1>10 DEF Claim, SetJoinpt, CallShape, OneCaller, Claims, ClaimsHeld, FreesInv
<1>11. CASE Flags(t)
  BY <1>11 DEF Flags, CallShape, OneCaller, Claims, ClaimsHeld, FreesInv
<1>12. CASE Load(t) \/ Wait(t)
  BY <1>12 DEF Load, Wait, Woken, CallShape, OneCaller, Claims, ClaimsHeld, FreesInv
<1>13. CASE Interrupted(t) \/ Timeout(t)
  BY <1>13 DEF Interrupted, Timeout, CallShape, OneCaller, Claims, ClaimsHeld, FreesInv
<1>14. CASE Unclaim(t)
  BY <1>14 DEF Unclaim, SetJoinpt, CallShape, OneCaller, Claims, ClaimsHeld, FreesInv
<1>15. CASE Deallocate(t)
  <2>w. PICK w \in Threads : w = target[t]
    BY <1>15 DEF Deallocate, CallShape
  <2>0. /\ pc[t] = "end" /\ UNCHANGED joinpt
        /\ \A u \in Threads \ {w} : frees'[u] = frees[u]
        /\ \A v \in Threads \ {t} : target'[v] = target[v] /\ pc'[v] = pc[v]
    BY <1>15, <2>w DEF Deallocate
  <2>1. frees'[w] > 0
    BY <1>15, <2>w DEF Deallocate, FreesInv, FreesAt
  <2>2. \A u \in Threads \ {w} : target[t] # u
    BY <2>w
  <2> QED BY <2>0, <2>1, <2>2 DEF ClaimsHeld
<1> QED BY <1>1, <1>2, <1>3, <1>4, <1>5, <1>6, <1>7, <1>8, <1>9, <1>10, <1>11,
       <1>12, <1>13, <1>14, <1>15 DEF Act, Step

\* The marks of an exit are not set while another thread is about to look at them.
LEMMA MarksStep ==
  ASSUME IInv, NEW t \in Threads, Act(t), ~ (CountDown(t) /\ total = 1)
  PROVE  Marks'
<1>0. TypeOK /\ CallShape /\ OneCaller /\ Claims /\ ClaimsHeld
      /\ Marks /\ Detached /\ RaceInv /\ IdInv /\ FreesInv
  BY DEF IInv
<1>n. NULL \notin Threads
  BY LifeAssumption
<1>e. \A u \in Threads : pc[u] # "ended"
  BY NotEnded
<1> USE <1>0, <1>n DEF TypeOK, Goto, Continue, Return, descriptor, locals, PCs, ExitPCs, WaitPCs,
           CallPCs, HoldPCs, Over, Marked, JoinCalls, Calls, Befalls, Read
<1>1. CASE \E w \in Threads : Create(t, w)
  BY <1>1 DEF Create, SetJoinpt, CallShape, OneCaller, Marks
<1>2. CASE \E w \in Threads, c \in JoinCalls \cup {"detach"} : Enter(t, w, c)
  BY <1>2 DEF Enter, MayCall, CallShape, OneCaller, Marks
<1>3. CASE Resume(t) \/ Undo(t)
  BY <1>3 DEF Resume, Undo, SetJoinpt, CallShape, OneCaller, Marks
<1>4. CASE Start(t) \/ RoutineReturns(t)
  BY <1>4 DEF Start, RoutineReturns, CallShape, OneCaller, Marks
<1>5. CASE Exit(t) \/ Cancel(t) \/ MarkExiting(t)
  BY <1>5
     DEF Exit, Cancel, MarkExiting, SetExiting, CallShape, OneCaller, Marks
<1>6. CASE ReadDetached(t)
  BY <1>6 DEF ReadDetached, CallShape, OneCaller, Marks
<1>7. CASE CountDown(t) /\ total # 1
  BY <1>7 DEF CountDown, CallShape, OneCaller, Marks
<1>8. CASE Release(t)
  BY <1>8 DEF Release, Woken, CallShape, OneCaller, Marks
<1>9. CASE Check(t)
  BY <1>9
     DEF Check, RefusesJoin, RefusesDetach, CallShape, OneCaller, Marks
<1>10. CASE Claim(t)
  BY <1>10 DEF Claim, SetJoinpt, CallShape, OneCaller, Marks
<1>11. CASE Flags(t)
  BY <1>11 DEF Flags, CallShape, OneCaller, Marks
<1>12. CASE Load(t) \/ Wait(t)
  BY <1>12 DEF Load, Wait, Woken, CallShape, OneCaller, Marks
<1>13. CASE Interrupted(t) \/ Timeout(t)
  BY <1>13 DEF Interrupted, Timeout, CallShape, OneCaller, Marks
<1>14. CASE Unclaim(t)
  <2>1. CASE call[t] = "exit"
    BY <1>14, <2>1 DEF Unclaim, SetJoinpt, CallShape, OneCaller, Marks
  <2>2. CASE call[t] # "exit"
    BY <1>14, <2>2 DEF Unclaim, SetJoinpt, CallShape, OneCaller, Marks
  <2> QED BY <2>1, <2>2
<1>15. CASE Deallocate(t)
  BY <1>15 DEF Deallocate, CallShape, OneCaller, Marks
<1> QED BY <1>1, <1>2, <1>3, <1>4, <1>5, <1>6, <1>7, <1>8, <1>9, <1>10, <1>11,
       <1>12, <1>13, <1>14, <1>15 DEF Act, Step

\* Whoever detaches u in time is seen by u; whoever comes later sees u exiting.
LEMMA DetachedStep ==
  ASSUME IInv, NEW t \in Threads, Act(t), ~ (CountDown(t) /\ total = 1)
  PROVE  Detached'
<1>0. TypeOK /\ CallShape /\ OneCaller /\ Claims /\ ClaimsHeld
      /\ Marks /\ Detached /\ RaceInv /\ IdInv /\ FreesInv
  BY DEF IInv
<1>n. NULL \notin Threads
  BY LifeAssumption
<1>e. \A u \in Threads : pc[u] # "ended"
  BY NotEnded
<1> USE <1>0, <1>n DEF TypeOK, Goto, Continue, Return, descriptor, locals, PCs, ExitPCs, WaitPCs,
           CallPCs, HoldPCs, Over, Marked, JoinCalls, Calls, Befalls, Read
<1>1. CASE \E w \in Threads : Create(t, w)
  <2>1. PICK w \in Threads : Create(t, w)
    BY <1>1
  <2>2. /\ pc[w] = "none" /\ pc' = [pc EXCEPT ![t] = "resume", ![w] = "new"] /\ pc[t] = "run"
        /\ target' = [target EXCEPT ![t] = w] /\ \A v \in Threads \ {t} : call'[v] = call[v]
        /\ UNCHANGED <<frees, race, detp>> /\ \A v \in Threads \ {w} : joinpt'[v] = joinpt[v]
    BY <2>1 DEF Create, SetJoinpt
  <2>3. ASSUME NEW u \in Threads PROVE DetachedAt(u)'
    BY <2>2, <2>3 DEF Detached, DetachedAt, CallShape
  <2> QED BY <2>3 DEF Detached
<1>2. CASE \E w \in Threads, c \in JoinCalls \cup {"detach"} : Enter(t, w, c)
  BY <1>2
     DEF Enter, MayCall, CallShape, OneCaller, Claims, Marks, Detached, DetachedAt, RaceInv, RaceAt, FreesInv, FreesAt
<1>3. CASE Resume(t) \/ Undo(t)
  <2>1. CASE Resume(t)
    <3>1. /\ pc[t] = "resume" /\ pc[target[t]] = "new" /\ UNCHANGED <<joinpt, frees, race, detp>>
          /\ \A v \in Threads \ {t} : target'[v] = target[v] /\ call'[v] = call[v]
          /\ \A v \in Threads \ {t, target[t]} : pc'[v] = pc[v]
          /\ target'[t] = NULL /\ pc'[t] = "run" /\ pc'[target[t]] = "start"
      BY <2>1 DEF Resume, CallShape, OneCaller
    <3>2. ASSUME NEW u \in Threads PROVE DetachedAt(u)'
      BY <3>1, <3>2 DEF Detached, DetachedAt
    <3> QED BY <3>2 DEF Detached
  <2>2. CASE Undo(t)
    <3>1. /\ pc[t] = "resume" /\ pc[target[t]] = "new" /\ UNCHANGED <<frees, race, detp>>
          /\ \A v \in Threads \ {target[t]} : joinpt'[v] = joinpt[v]
          /\ \A v \in Threads \ {t} : target'[v] = target[v] /\ call'[v] = call[v]
          /\ \A v \in Threads \ {t, target[t]} : pc'[v] = pc[v]
          /\ target'[t] = NULL /\ pc'[t] = "run" /\ pc'[target[t]] = "none"
      BY <2>2 DEF Undo, SetJoinpt, CallShape, OneCaller
    <3>2. ASSUME NEW u \in Threads PROVE DetachedAt(u)'
      BY <3>1, <3>2 DEF Detached, DetachedAt
    <3> QED BY <3>2 DEF Detached
  <2> QED BY <1>3, <2>1, <2>2
<1>4. CASE Start(t) \/ RoutineReturns(t)
  BY <1>4
     DEF Start, RoutineReturns, CallShape, OneCaller, Claims, Marks, Detached, DetachedAt, RaceInv, RaceAt, FreesInv,
         FreesAt
<1>5. CASE Exit(t) \/ Cancel(t) \/ MarkExiting(t)
  BY <1>5
     DEF Exit, Cancel, MarkExiting, SetExiting, CallShape, OneCaller, Claims, Marks, Detached,
         DetachedAt, RaceInv, RaceAt, FreesInv, FreesAt
<1>6. CASE ReadDetached(t)
  <2>0. /\ pc[t] = "detp" /\ pc' = [pc EXCEPT ![t] = "setexit"]
        /\ \A u \in Threads \ {t} : detp'[u] = detp[u]
        /\ UNCHANGED <<joinpt, frees, call, target>>
        /\ \A u \in Threads \ {t} : race'[u] = race[u]
    BY <1>6 DEF ReadDetached
  <2>1. ASSUME NEW u \in Threads \ {t} PROVE DetachedAt(u)'
    <3>1. pc'[u] = pc[u] /\ detp'[u] = detp[u]
      BY <2>0
    <3>2. \A v \in Threads : target[v] = u /\ call[v] = "detach" /\ pc[v] \in {"flags"} \cup HoldPCs
                               => pc'[v] = pc[v]
      BY <2>0
    <3> QED BY <2>0, <2>1, <3>1, <3>2 DEF Detached, DetachedAt
  <2>2. CASE joinpt[t] = t
    <3>1. detp'[t]
      BY <1>6, <2>2 DEF ReadDetached
    <3>2. race'[t] = "crossed" \/ \A v \in Threads : target[v] # t
      <4>1. SUFFICES ASSUME NEW v \in Threads, target[v] = t, ~ Detaching(t) PROVE FALSE
        BY <1>6, <2>2 DEF ReadDetached
      <4>2. v # t /\ race[t] # "early"
        BY <2>0, <2>2, <4>1 DEF CallShape, RaceInv, RaceAt
      <4>3. pc[v] \in {"flags", "end"} \cup WaitPCs /\ call[v] = "detach"
        BY <2>0, <2>2, <4>1, <4>2 DEF CallShape, OneCaller, Claims
      <4>4. pc[v] # "end"
        BY <2>0, <4>1, <4>2 DEF IdInv
      <4> QED BY <4>1, <4>2, <4>3, <4>4 DEF Detaching
    <3> QED BY <2>0, <2>1, <2>2, <3>1, <3>2 DEF Detached, DetachedAt
  <2>3. CASE joinpt[t] # t
    <3>1. ~ detp'[t]
      BY <1>6, <2>3 DEF ReadDetached
    <3> QED BY <2>0, <2>1, <2>3, <3>1 DEF Detached, DetachedAt
  <2> QED BY <2>2, <2>3
<1>7. CASE CountDown(t) /\ total # 1
  BY <1>7
     DEF CountDown, CallShape, OneCaller, Claims, Marks, Detached, DetachedAt, RaceInv, RaceAt, FreesInv, FreesAt
<1>8. CASE Release(t)
  BY <1>8
     DEF Release, Woken, CallShape, OneCaller, Claims, Marks, Detached, DetachedAt, RaceInv, RaceAt, FreesInv, FreesAt
<1>9. CASE Check(t)
  BY <1>9
     DEF Check, RefusesJoin, RefusesDetach, CallShape, OneCaller, Claims, Marks, Detached,
         DetachedAt, RaceInv, RaceAt, FreesInv, FreesAt
<1>10. CASE Claim(t)
  <2>w. PICK w \in Threads : w = target[t]
    BY <1>10 DEF Claim, CallShape
  <2>0. pc[t] = "claim" /\ w = target[t] /\ UNCHANGED <<frees, race, detp>>
    BY <1>10, <2>w DEF Claim, SetJoinpt
  <2>2. CASE joinpt[w] # NULL
    BY <1>10, <2>0, <2>2 DEF Claim, Detached, DetachedAt, CallShape, OneCaller, Marks
  <2>3. CASE joinpt[w] = NULL
    <3>1. /\ joinpt' = [joinpt EXCEPT ![w] = IF call[t] = "detach" THEN w ELSE t]
          /\ UNCHANGED <<target, call>>
          /\ \A v \in Threads \ {t} : pc'[v] = pc[v]
          /\ pc'[t] \in {"flags", "end", "load"} /\ (call[t] = "detach" => pc'[t] = "flags")
      BY <1>10, <2>0, <2>3 DEF Claim, SetJoinpt
    <3>2. ASSUME NEW u \in Threads \ {w} PROVE DetachedAt(u)'
      BY <2>0, <3>1, <3>2 DEF Detached, DetachedAt
    <3>3. DetachedAt(w)'
      <4>1. pc'[w] \in {"setexit"} \cup Marked /\ joinpt'[w] = w => t # w /\ call[t] = "detach"
        BY <2>0, <3>1 DEF CallShape
      <4>2. ~ detp'[w]
        BY <1>n, <2>0, <2>3 DEF Detached, DetachedAt
      <4>3. target'[t] = w /\ call'[t] = call[t]
        BY <2>0, <3>1
      <4> QED BY <3>1, <4>1, <4>2, <4>3 DEF DetachedAt
    <3> QED BY <3>2, <3>3 DEF Detached
  <2> QED BY <2>2, <2>3
<1>11. CASE Flags(t)
  <2>w. PICK w \in Threads : w = target[t]
    BY <1>11 DEF Flags, CallShape
  <2>0. /\ pc[t] = "flags" /\ call[t] = "detach" /\ joinpt[w] = w
        /\ UNCHANGED <<joinpt, frees, detp, exiting>>
        /\ \A v \in Threads \ {t} : pc'[v] = pc[v] /\ target'[v] = target[v] /\ call'[v] = call[v]
        /\ \A v \in Threads \ {w} : race'[v] = race[v]
    BY <1>11, <2>w DEF Flags, CallShape, Claims
  <2>1. \A u \in Threads \ {w} : target[t] # u /\ (target'[t] # u) /\ (pc[u] = pc'[u] \/ u = t)
    BY <1>11, <1>n, <2>w, <2>0 DEF Flags
  <2>2. ASSUME NEW u \in Threads \ {w} PROVE DetachedAt(u)'
    <3>1. pc'[u] \in {"setexit"} \cup Marked \cup {"ended"} => pc'[u] = pc[u]
      BY <1>11, <2>1 DEF Flags
    <3>2. u = t => ~ detp[u]
      BY <2>0 DEF Detached, DetachedAt
    <3> QED BY <2>0, <2>1, <2>2, <3>1, <3>2 DEF Detached, DetachedAt
  <2>3. CASE pc'[t] = "load"
    <3>1. UNCHANGED <<target, call, race>>
      BY <1>11, <2>3 DEF Flags
    <3>2. w # t => pc'[w] = pc[w]
      BY <2>0
    <3>3. w = t => ~ detp[w]
      BY <2>0 DEF Detached, DetachedAt
    <3>4. DetachedAt(w)'
      BY <2>w, <2>0, <2>3, <3>1, <3>2, <3>3 DEF Detached, DetachedAt
    <3> QED BY <2>2, <3>4 DEF Detached
  <2>4. CASE pc'[t] # "load"
    <3>1. /\ target' = [target EXCEPT ![t] = NULL] /\ pc'[t] = "run"
          /\ race'[w] = (IF frees[w] > 0 THEN race[w] ELSE IF BetweenMarks(w) THEN "missed" ELSE "none")
          /\ frees[w] = 0 => ~ exiting[w]
      BY <1>11, <2>w, <2>4 DEF Flags
    <3>2. CASE w = t
      BY <2>0, <2>2, <3>1, <3>2 DEF Detached, DetachedAt
    <3>3. CASE w # t
      <4>1. pc'[w] = pc[w]
        BY <2>0, <3>3
      <4>2. pc[w] \in {"setexit"} \cup Marked \cup {"ended"} => \A v \in Threads : target'[v] # w
        BY <1>n, <2>w, <2>0, <3>1, <3>3 DEF CallShape, OneCaller
      <4>3. DetachedAt(w)'
        BY <1>e, <2>0, <3>1, <4>1, <4>2 DEF Detached, DetachedAt, Marks, BetweenMarks
      <4> QED BY <2>2, <4>3 DEF Detached
    <3> QED BY <3>2, <3>3
  <2> QED BY <2>3, <2>4
<1>12. CASE Load(t) \/ Wait(t)
  BY <1>12
     DEF Load, Wait, Woken, CallShape, OneCaller, Claims, Marks, Detached, DetachedAt, RaceInv, RaceAt, FreesInv, FreesAt
<1>13. CASE Interrupted(t) \/ Timeout(t)
  BY <1>13
     DEF Interrupted, Timeout, CallShape, OneCaller, Claims, Marks, Detached, DetachedAt, RaceInv, RaceAt, FreesInv,
         FreesAt
<1>14. CASE Unclaim(t)
  <2>w. PICK w \in Threads : w = target[t]
    BY <1>14 DEF Unclaim, CallShape
  <2>0. /\ pc[t] = "unclaim" /\ joinpt[w] = t /\ w # t /\ joinpt'[w] = NULL
        /\ \A u \in Threads \ {w} : joinpt'[u] = joinpt[u]
        /\ pc'[t] \in {"run", "detp"} /\ target'[t] = NULL
        /\ \A v \in Threads \ {t} : pc'[v] = pc[v] /\ target'[v] = target[v] /\ call'[v] = call[v]
        /\ UNCHANGED <<frees, race, detp>>
    BY <1>14, <2>w DEF Unclaim, SetJoinpt, CallShape, Claims
  <2>1. ASSUME NEW u \in Threads PROVE DetachedAt(u)'
    <3>1. u = w => ~ detp[u]
      BY <2>0 DEF Detached, DetachedAt
    <3>2. u = t => ~ detp[u]
      BY <2>0 DEF Detached, DetachedAt
    <3> QED BY <1>n, <2>w, <2>0, <2>1, <3>1, <3>2 DEF Detached, DetachedAt
  <2> QED BY <2>1 DEF Detached
<1>15. CASE Deallocate(t)
  BY <1>15
     DEF Deallocate, CallShape, OneCaller, Claims, Marks, Detached, DetachedAt, RaceInv, RaceAt, FreesInv, FreesAt
<1> QED BY <1>1, <1>2, <1>3, <1>4, <1>5, <1>6, <1>7, <1>8, <1>9, <1>10, <1>11,
       <1>12, <1>13, <1>14, <1>15 DEF Act, Step

\* The kernel alone clears id, when the thread is dead.
LEMMA IdInvStep ==
  ASSUME IInv, NEW t \in Threads, Act(t), ~ (CountDown(t) /\ total = 1)
  PROVE  IdInv'
<1>0. TypeOK /\ CallShape /\ OneCaller /\ Claims /\ ClaimsHeld
      /\ Marks /\ Detached /\ RaceInv /\ IdInv /\ FreesInv
  BY DEF IInv
<1>n. NULL \notin Threads
  BY LifeAssumption
<1>e. \A u \in Threads : pc[u] # "ended"
  BY NotEnded
<1> USE <1>0, <1>n DEF TypeOK, Goto, Continue, Return, descriptor, locals, PCs, ExitPCs, WaitPCs,
           CallPCs, HoldPCs, Over, Marked, JoinCalls, Calls, Befalls, Read
<1>1. CASE \E w \in Threads : Create(t, w)
  BY <1>1, <1>e DEF Create, SetJoinpt, CallShape, OneCaller, Claims, IdInv, Ids, FreesInv, FreesAt, RaceInv, RaceAt
<1>2. CASE \E w \in Threads, c \in JoinCalls \cup {"detach"} : Enter(t, w, c)
  BY <1>2, <1>e DEF Enter, MayCall, CallShape, OneCaller, Claims, IdInv, Ids, FreesInv, FreesAt, RaceInv, RaceAt
<1>3. CASE Resume(t) \/ Undo(t)
  BY <1>3, <1>e DEF Resume, Undo, SetJoinpt, CallShape, OneCaller, IdInv, Ids, RaceInv, RaceAt
<1>4. CASE Start(t) \/ RoutineReturns(t)
  BY <1>4, <1>e DEF Start, RoutineReturns, CallShape, OneCaller, Claims, IdInv, Ids, FreesInv, FreesAt, RaceInv, RaceAt
<1>5. CASE Exit(t) \/ Cancel(t) \/ MarkExiting(t)
  BY <1>5, <1>e DEF Exit, Cancel, MarkExiting, SetExiting, CallShape, OneCaller, Claims, IdInv, Ids, FreesInv, FreesAt, RaceInv, RaceAt
<1>6. CASE ReadDetached(t)
  BY <1>6, <1>e DEF ReadDetached, CallShape, OneCaller, Claims, IdInv, Ids, FreesInv, FreesAt, RaceInv, RaceAt
<1>7. CASE CountDown(t) /\ total # 1
  BY <1>7, <1>e DEF CountDown, CallShape, OneCaller, Claims, IdInv, Ids, FreesInv, FreesAt, RaceInv, RaceAt
<1>8. CASE Release(t)
  <2>0. /\ pc[t] = "release" /\ UNCHANGED <<locals, race>> /\ pc'[t] = "dead"
        /\ \/ UNCHANGED id /\ \A v \in Threads \ {t} : pc'[v] = pc[v]
           \/ /\ id' = [id EXCEPT ![t] = "zero"]
              /\ \A v \in Threads \ {t} :
                   IF pc[v] = "sleep" /\ target[v] = t THEN pc'[v] = Woken(v) ELSE pc'[v] = pc[v]
    BY <1>8 DEF Release
  <2>1. \A v \in Threads : pc[v] = "dead" => pc'[v] = "dead"
    BY <2>0
  <2>2. ASSUME NEW v \in Threads, pc'[v] = "end"
        PROVE  pc'[target[v]] = "dead" \/ race[target[v]] = "early"
    <3>1. target[v] \in Threads
      BY <2>0, <2>2 DEF CallShape
    <3>2. pc[v] = "end" \/ target[v] = t
      BY <2>0, <2>2
    <3> QED BY <2>0, <2>1, <3>1, <3>2 DEF IdInv
  <2>4. \A v \in Threads : id'[v] = "zero" => pc'[v] = "dead"
    BY <2>0, <2>1, <1>e DEF IdInv
  <2>6. \A v \in Threads : pc'[v] = "claim" => pc[v] = "claim"
    BY <2>0 DEF Woken
  <2>7. \A v \in Threads : pc'[v] = "claim" /\ call[v] = "tryjoin" => id'[target[v]] = "zero"
    BY <2>0, <2>6 DEF IdInv, CallShape
  <2> QED BY <2>0, <2>2, <2>4, <2>7 DEF IdInv
<1>9. CASE Check(t)
  BY <1>9, <1>e DEF Check, RefusesJoin, RefusesDetach, CallShape, OneCaller, Claims, IdInv, Ids, FreesInv, FreesAt, RaceInv, RaceAt
<1>10. CASE Claim(t)
  BY <1>10, <1>e DEF Claim, SetJoinpt, CallShape, OneCaller, Claims, IdInv, Ids, FreesInv, FreesAt, RaceInv, RaceAt
<1>11. CASE Flags(t)
  BY <1>11, <1>e DEF Flags, CallShape, OneCaller, Claims, IdInv, Ids, FreesInv, FreesAt, RaceInv, RaceAt
<1>12. CASE Load(t) \/ Wait(t)
  BY <1>12, <1>e DEF Load, Wait, Woken, CallShape, OneCaller, Claims, IdInv, Ids, FreesInv, FreesAt, RaceInv, RaceAt
<1>13. CASE Interrupted(t) \/ Timeout(t)
  BY <1>13, <1>e DEF Interrupted, Timeout, CallShape, OneCaller, Claims, IdInv, Ids, FreesInv, FreesAt, RaceInv, RaceAt
<1>14. CASE Unclaim(t)
  <2>1. CASE call[t] = "exit"
    BY <1>14, <2>1, <1>e DEF Unclaim, SetJoinpt, CallShape, OneCaller, Claims, IdInv, Ids, FreesInv, FreesAt, RaceInv, RaceAt
  <2>2. CASE call[t] # "exit"
    BY <1>14, <2>2, <1>e DEF Unclaim, SetJoinpt, CallShape, OneCaller, Claims, IdInv, Ids, FreesInv, FreesAt, RaceInv, RaceAt
  <2> QED BY <2>1, <2>2
<1>15. CASE Deallocate(t)
  BY <1>15, <1>e DEF Deallocate, CallShape, OneCaller, Claims, IdInv, Ids, FreesInv, FreesAt, RaceInv, RaceAt
<1> QED BY <1>1, <1>2, <1>3, <1>4, <1>5, <1>6, <1>7, <1>8, <1>9, <1>10, <1>11,
       <1>12, <1>13, <1>14, <1>15 DEF Act, Step

\* Each race befalls one thread, and stays with it.
LEMMA RaceInvStep ==
  ASSUME IInv, NEW t \in Threads, Act(t), ~ (CountDown(t) /\ total = 1)
  PROVE  RaceInv'
<1>0. TypeOK /\ CallShape /\ OneCaller /\ Claims /\ ClaimsHeld
      /\ Marks /\ Detached /\ RaceInv /\ IdInv /\ FreesInv
  BY DEF IInv
<1>n. NULL \notin Threads
  BY LifeAssumption
<1>e. \A u \in Threads : pc[u] # "ended"
  BY NotEnded
<1> USE <1>0, <1>n DEF TypeOK, Goto, Continue, Return, descriptor, locals, PCs, ExitPCs, WaitPCs,
           CallPCs, HoldPCs, Over, Marked, JoinCalls, Calls, Befalls, Read
<1>1. CASE \E w \in Threads : Create(t, w)
  <2>1. PICK w \in Threads : Create(t, w)
    BY <1>1
  <2>2. /\ pc[w] = "none" /\ pc' = [pc EXCEPT ![t] = "resume", ![w] = "new"] /\ pc[t] = "run"
        /\ target' = [target EXCEPT ![t] = w] /\ UNCHANGED <<frees, race, detp>>
        /\ \A v \in Threads \ {w} : joinpt'[v] = joinpt[v]
    BY <2>1 DEF Create, SetJoinpt
  <2>3. race[w] # "early" /\ ~ detp[w] /\ race[w] # "missed"
    BY <2>2 DEF RaceInv, RaceAt, Detached, DetachedAt
  <2>4. ASSUME NEW u \in Threads PROVE RaceAt(u)'
    BY <2>2, <2>3, <2>4 DEF RaceInv, RaceAt, CallShape
  <2> QED BY <2>4 DEF RaceInv
<1>2. CASE \E w \in Threads, c \in JoinCalls \cup {"detach"} : Enter(t, w, c)
  <2>1. PICK w \in Threads, c \in JoinCalls \cup {"detach"} : Enter(t, w, c)
    BY <1>2
  <2>2. /\ pc[t] = "run" /\ pc' = [pc EXCEPT ![t] = "check"] /\ target' = [target EXCEPT ![t] = w]
        /\ UNCHANGED <<frees, race, detp, joinpt>> /\ MayCall(t, w)
    BY <2>1 DEF Enter
  <2>3. race[w] # "early" /\ race[w] # "missed"
    BY <2>2 DEF MayCall, RaceInv, RaceAt
  <2>4. ASSUME NEW u \in Threads PROVE RaceAt(u)'
    BY <2>2, <2>3, <2>4 DEF RaceInv, RaceAt, CallShape
  <2> QED BY <2>4 DEF RaceInv
<1>3. CASE Resume(t) \/ Undo(t)
  BY <1>3
     DEF Resume, Undo, SetJoinpt, CallShape, OneCaller, Claims, IdInv, FreesInv, FreesAt, RaceInv, RaceAt, Detached,
         DetachedAt
<1>4. CASE Start(t) \/ RoutineReturns(t)
  BY <1>4
     DEF Start, RoutineReturns, CallShape, OneCaller, Claims, IdInv, FreesInv, FreesAt, RaceInv, RaceAt, Detached,
         DetachedAt
<1>5. CASE Exit(t) \/ Cancel(t) \/ MarkExiting(t)
  BY <1>5
     DEF Exit, Cancel, MarkExiting, SetExiting, CallShape, OneCaller, Claims, IdInv, FreesInv,
         FreesAt, RaceInv, RaceAt, Detached, DetachedAt
<1>6. CASE ReadDetached(t)
  <2>0. /\ pc[t] = "detp" /\ pc' = [pc EXCEPT ![t] = "setexit"]
        /\ detp' = [detp EXCEPT ![t] = joinpt[t] = t]
        /\ race' = [race EXCEPT ![t] = IF joinpt[t] = t /\ Detaching(t) THEN "crossed" ELSE race[t]]
        /\ UNCHANGED <<joinpt, frees, target>>
    BY <1>6 DEF ReadDetached
  <2>1. ~ detp[t] /\ race[t] \notin {"missed", "crossed"}
    BY <2>0 DEF RaceInv, RaceAt, Detached, DetachedAt
  <2>2. ASSUME NEW u \in Threads PROVE RaceAt(u)'
    <3>0. RaceAt(u) /\ \A v \in Threads : pc[v] = "end" => pc'[v] = "end"
      BY <2>0 DEF RaceInv
    <3>1. CASE u = t
      BY <2>0, <2>1, <3>0, <3>1 DEF RaceAt
    <3>2. CASE u # t
      <4>1. race'[u] = race[u] /\ detp'[u] = detp[u] /\ pc'[u] = pc[u]
        BY <2>0, <3>2
      <4> QED BY <2>0, <3>0, <4>1 DEF RaceAt
    <3> QED BY <3>1, <3>2
  <2> QED BY <2>2 DEF RaceInv
<1>7. CASE CountDown(t) /\ total # 1
  BY <1>7 DEF CountDown, CallShape, OneCaller, Claims, IdInv, FreesInv, FreesAt, RaceInv, RaceAt, Detached, DetachedAt
<1>8. CASE Release(t)
  BY <1>8 DEF Release, Woken, CallShape, OneCaller, Claims, IdInv, FreesInv, FreesAt, RaceInv, RaceAt, Detached, DetachedAt
<1>9. CASE Check(t)
  BY <1>9
     DEF Check, RefusesJoin, RefusesDetach, CallShape, OneCaller, Claims, IdInv, FreesInv,
         FreesAt, RaceInv, RaceAt, Detached, DetachedAt
<1>10. CASE Claim(t)
  BY <1>10
     DEF Claim, SetJoinpt, CallShape, OneCaller, Claims, IdInv, FreesInv, FreesAt, RaceInv, RaceAt, Detached, DetachedAt
<1>11. CASE Flags(t)
  <2>w. PICK w \in Threads : w = target[t]
    BY <1>11 DEF Flags, CallShape
  <2>0. /\ pc[t] = "flags" /\ joinpt[w] = w /\ UNCHANGED <<joinpt, frees, detp, exiting>>
        /\ \A v \in Threads \ {t} : pc'[v] = pc[v] /\ target'[v] = target[v]
        /\ \A v \in Threads \ {w} : race'[v] = race[v]
        /\ target'[t] \in {target[t], NULL} /\ pc'[t] \in {"load", "run"}
    BY <1>11, <2>w DEF Flags, CallShape, Claims
  <2>1. ASSUME NEW u \in Threads \ {w} PROVE RaceAt(u)'
    BY <1>n, <2>w, <2>0, <2>1 DEF RaceInv, RaceAt
  <2>2. race[w] \notin {"missed", "early"}
    BY <2>w, <2>0 DEF RaceInv, RaceAt
  <2>3. \/ race'[w] = race[w] \/ race'[w] = "none"
        \/ race'[w] = "missed" /\ BetweenMarks(w) /\ target' = [target EXCEPT ![t] = NULL]
    BY <1>11, <2>w, <2>0 DEF Flags
  <2>4. RaceAt(w)'
    <3>1. CASE race'[w] = race[w] \/ race'[w] = "none"
      BY <2>0, <2>2, <3>1 DEF RaceInv, RaceAt
    <3>2. CASE race'[w] = "missed" /\ BetweenMarks(w) /\ target' = [target EXCEPT ![t] = NULL]
      <4>1. pc[w] = "setexit" /\ w # t /\ target[w] = NULL
        BY <2>0, <3>2 DEF BetweenMarks, CallShape
      <4>2. \A v \in Threads : target'[v] # w
        BY <1>n, <2>w, <3>2, <4>1 DEF OneCaller
      <4> QED BY <2>0, <3>2, <4>1, <4>2 DEF RaceAt
    <3> QED BY <2>3, <3>1, <3>2
  <2> QED BY <2>1, <2>4 DEF RaceInv
<1>12. CASE Load(t) \/ Wait(t)
  BY <1>12
     DEF Load, Wait, Woken, CallShape, OneCaller, Claims, IdInv, FreesInv, FreesAt, RaceInv, RaceAt, Detached, DetachedAt
<1>13. CASE Interrupted(t) \/ Timeout(t)
  BY <1>13
     DEF Interrupted, Timeout, CallShape, OneCaller, Claims, IdInv, FreesInv, FreesAt, RaceInv, RaceAt, Detached, DetachedAt
<1>14. CASE Unclaim(t)
  BY <1>14
     DEF Unclaim, SetJoinpt, CallShape, OneCaller, Claims, IdInv, FreesInv, FreesAt, RaceInv, RaceAt, Detached, DetachedAt
<1>15. CASE Deallocate(t)
  BY <1>15 DEF Deallocate, CallShape, OneCaller, Claims, IdInv, FreesInv, FreesAt, RaceInv, RaceAt, Detached, DetachedAt
<1> QED BY <1>1, <1>2, <1>3, <1>4, <1>5, <1>6, <1>7, <1>8, <1>9, <1>10, <1>11,
       <1>12, <1>13, <1>14, <1>15 DEF Act, Step

\* Release and Deallocate free the stack of a thread that no other call names.
LEMMA FreesInvStep ==
  ASSUME IInv, NEW t \in Threads, Act(t), ~ (CountDown(t) /\ total = 1)
  PROVE  FreesInv'
<1>0. TypeOK /\ CallShape /\ OneCaller /\ Claims /\ ClaimsHeld
      /\ Marks /\ Detached /\ RaceInv /\ IdInv /\ FreesInv
  BY DEF IInv
<1>n. NULL \notin Threads
  BY LifeAssumption
<1>e. \A u \in Threads : pc[u] # "ended"
  BY NotEnded
<1> USE <1>0, <1>n DEF TypeOK, Goto, Continue, Return, descriptor, locals, PCs, ExitPCs, WaitPCs,
           CallPCs, HoldPCs, Over, Marked, JoinCalls, Calls, Befalls, Read
<1>1. CASE \E w \in Threads : Create(t, w)
  BY <1>1
     DEF Create, SetJoinpt, CallShape, OneCaller, Claims, IdInv, FreesInv, FreesAt, RaceInv, RaceAt, Detached, DetachedAt
<1>2. CASE \E w \in Threads, c \in JoinCalls \cup {"detach"} : Enter(t, w, c)
  BY <1>2 DEF Enter, MayCall, CallShape, OneCaller, Claims, IdInv, FreesInv, FreesAt, RaceInv, RaceAt, Detached, DetachedAt
<1>3. CASE Resume(t) \/ Undo(t)
  BY <1>3
     DEF Resume, Undo, SetJoinpt, CallShape, OneCaller, Claims, IdInv, FreesInv, FreesAt, RaceInv, RaceAt, Detached,
         DetachedAt
<1>4. CASE Start(t) \/ RoutineReturns(t)
  BY <1>4
     DEF Start, RoutineReturns, CallShape, OneCaller, Claims, IdInv, FreesInv, FreesAt, RaceInv, RaceAt, Detached,
         DetachedAt
<1>5. CASE Exit(t) \/ Cancel(t) \/ MarkExiting(t)
  BY <1>5
     DEF Exit, Cancel, MarkExiting, SetExiting, CallShape, OneCaller, Claims, IdInv, FreesInv,
         FreesAt, RaceInv, RaceAt, Detached, DetachedAt
<1>6. CASE ReadDetached(t)
  BY <1>6 DEF ReadDetached, CallShape, OneCaller, Claims, IdInv, FreesInv, FreesAt, RaceInv, RaceAt, Detached, DetachedAt
<1>7. CASE CountDown(t) /\ total # 1
  BY <1>7 DEF CountDown, CallShape, OneCaller, Claims, IdInv, FreesInv, FreesAt, RaceInv, RaceAt, Detached, DetachedAt
<1>8. CASE Release(t)
  BY <1>8 DEF Release, Woken, CallShape, OneCaller, Claims, IdInv, FreesInv, FreesAt, RaceInv, RaceAt, Detached, DetachedAt
<1>9. CASE Check(t)
  BY <1>9
     DEF Check, RefusesJoin, RefusesDetach, CallShape, OneCaller, Claims, IdInv, FreesInv,
         FreesAt, RaceInv, RaceAt, Detached, DetachedAt
<1>10. CASE Claim(t)
  BY <1>10
     DEF Claim, SetJoinpt, CallShape, OneCaller, Claims, IdInv, FreesInv, FreesAt, RaceInv, RaceAt, Detached, DetachedAt
<1>11. CASE Flags(t)
  BY <1>11 DEF Flags, CallShape, OneCaller, Claims, IdInv, FreesInv, FreesAt, RaceInv, RaceAt, Detached, DetachedAt
<1>12. CASE Load(t) \/ Wait(t)
  BY <1>12
     DEF Load, Wait, Woken, CallShape, OneCaller, Claims, IdInv, FreesInv, FreesAt, RaceInv, RaceAt, Detached, DetachedAt
<1>13. CASE Interrupted(t) \/ Timeout(t)
  BY <1>13
     DEF Interrupted, Timeout, CallShape, OneCaller, Claims, IdInv, FreesInv, FreesAt, RaceInv, RaceAt, Detached, DetachedAt
<1>14. CASE Unclaim(t)
  BY <1>14
     DEF Unclaim, SetJoinpt, CallShape, OneCaller, Claims, IdInv, FreesInv, FreesAt, RaceInv, RaceAt, Detached, DetachedAt
<1>15. CASE Deallocate(t)
  <2>w. PICK w \in Threads : w = target[t]
    BY <1>15 DEF Deallocate, CallShape
  <2>0. /\ pc[t] = "end" /\ w # t /\ UNCHANGED race
        /\ \A u \in Threads \ {w} : frees'[u] = frees[u] /\ terminated'[u] = terminated[u]
        /\ \A v \in Threads \ {t} : target'[v] = target[v] /\ pc'[v] = pc[v]
        /\ target'[t] = NULL /\ pc'[t] = "run"
        /\ frees'[w] \in {frees[w], frees[w] + 1} /\ frees[w] \in 0..2
    BY <1>15, <2>w DEF Deallocate, CallShape
  <2>1. ASSUME NEW u \in Threads \ {w} PROVE FreesAt(u)'
    BY <1>n, <2>0, <2>1 DEF FreesInv, FreesAt
  <2>2. frees'[w] > 0
    BY <1>15, <2>w DEF Deallocate, FreesInv, FreesAt
  <2>3. pc[w] = "dead" \/ race[w] = "early"
    BY <2>w, <2>0 DEF IdInv
  <2>4. CASE race[w] = "early"
    <3>1. frees[w] \in {0, 1}
      BY <2>0, <2>4 DEF FreesInv, FreesAt
    <3>2. frees[w] = 0
      BY <2>w, <2>0, <2>4, <3>1 DEF FreesInv, FreesAt, RaceInv, RaceAt
    <3> QED BY <2>0, <2>1, <2>2, <2>4, <3>2 DEF FreesInv, FreesAt
  <2>5. CASE race[w] # "early"
    <3>1. pc[w] = "dead" /\ target[w] = NULL
      BY <2>3, <2>5 DEF CallShape
    <3>2. \A v \in Threads : target'[v] # w
      BY <1>n, <2>w, <2>0, <3>1 DEF OneCaller
    <3>3. frees'[w] > 1 => race[w] = "crossed"
      BY <2>w, <2>0, <2>5 DEF FreesInv, FreesAt
    <3>4. FreesAt(w)'
      BY <2>0, <2>2, <2>5, <3>1, <3>2, <3>3 DEF FreesAt, Over
    <3> QED BY <2>1, <3>4 DEF FreesInv
  <2> QED BY <2>4, <2>5
<1> QED BY <1>1, <1>2, <1>3, <1>4, <1>5, <1>6, <1>7, <1>8, <1>9, <1>10, <1>11,
       <1>12, <1>13, <1>14, <1>15 DEF Act, Step

\* The descriptors keep their types: no stack is freed twice.
LEMMA DescriptorTypes ==
  ASSUME IInv, NEW t \in Threads, Act(t), ~ (CountDown(t) /\ total = 1)
  PROVE  /\ id' \in [Threads -> Ids] /\ joinpt' \in [Threads -> Threads \cup {NULL}]
         /\ exiting' \in [Threads -> BOOLEAN] /\ terminated' \in [Threads -> BOOLEAN]
         /\ frees' \in [Threads -> 0..2] /\ race' \in [Threads -> Races]
<1>0. TypeOK /\ CallShape /\ OneCaller /\ Claims /\ ClaimsHeld
      /\ Marks /\ Detached /\ RaceInv /\ IdInv /\ FreesInv
  BY DEF IInv
<1>n. NULL \notin Threads
  BY LifeAssumption
<1>e. \A u \in Threads : pc[u] # "ended"
  BY NotEnded
<1> USE <1>0, <1>n DEF TypeOK, Goto, Continue, Return, descriptor, locals, PCs, ExitPCs, WaitPCs,
           CallPCs, HoldPCs, Over, Marked, JoinCalls, Calls, Befalls, Read
<1>1. CASE \E w \in Threads : Create(t, w)
  BY <1>1 DEF Create, SetJoinpt, CallShape, Ids, Races
<1>2. CASE \E w \in Threads, c \in JoinCalls \cup {"detach"} : Enter(t, w, c)
  BY <1>2 DEF Enter, MayCall, CallShape, Ids, Races
<1>3. CASE Resume(t) \/ Undo(t)
  BY <1>3 DEF Resume, Undo, SetJoinpt, CallShape, Ids, Races
<1>4. CASE Start(t) \/ RoutineReturns(t)
  BY <1>4 DEF Start, RoutineReturns, CallShape, Ids, Races
<1>5. CASE Exit(t) \/ Cancel(t) \/ MarkExiting(t)
  BY <1>5 DEF Exit, Cancel, MarkExiting, SetExiting
<1>6. CASE ReadDetached(t)
  BY <1>6 DEF ReadDetached, CallShape, Ids, Races
<1>7. CASE CountDown(t) /\ total # 1
  BY <1>7 DEF CountDown, CallShape, Ids, Races
<1>8. CASE Release(t)
  <2>1. frees[t] \in 0..1
    BY <1>8 DEF Release, FreesInv, FreesAt
  <2> QED BY <1>8, <2>1 DEF Release, Ids
<1>9. CASE Check(t)
  BY <1>9 DEF Check, RefusesJoin, RefusesDetach, CallShape, Ids, Races
<1>10. CASE Claim(t)
  BY <1>10 DEF Claim, SetJoinpt, CallShape, Ids, Races
<1>11. CASE Flags(t)
  BY <1>11 DEF Flags, BetweenMarks, CallShape, Ids, Races
<1>12. CASE Load(t) \/ Wait(t)
  BY <1>12 DEF Load, Wait, Woken, CallShape, Ids, Races
<1>13. CASE Interrupted(t) \/ Timeout(t)
  BY <1>13 DEF Interrupted, Timeout, CallShape, Ids, Races
<1>14. CASE Unclaim(t)
  BY <1>14 DEF Unclaim, SetJoinpt, CallShape, Ids, Races
<1>15. CASE Deallocate(t)
  <2>1. frees[target[t]] \in 0..1
    BY <1>15 DEF Deallocate, CallShape, FreesInv, FreesAt
  <2> QED BY <1>15, <2>1 DEF Deallocate, CallShape
<1> QED BY <1>1, <1>2, <1>3, <1>4, <1>5, <1>6, <1>7, <1>8, <1>9, <1>10, <1>11,
       <1>12, <1>13, <1>14, <1>15 DEF Act, Step

\* What the threads have loaded keeps its type.
LEMMA LocalTypes ==
  ASSUME IInv, NEW t \in Threads, Act(t), ~ (CountDown(t) /\ total = 1)
  PROVE  /\ pc' \in [Threads -> PCs] /\ call' \in [Threads -> Calls]
         /\ target' \in [Threads -> Threads \cup {NULL}] /\ tmp' \in [Threads -> Ids]
         /\ detp' \in [Threads -> BOOLEAN]
<1>0. TypeOK /\ CallShape /\ OneCaller /\ Claims /\ ClaimsHeld
      /\ Marks /\ Detached /\ RaceInv /\ IdInv /\ FreesInv
  BY DEF IInv
<1>n. NULL \notin Threads
  BY LifeAssumption
<1>e. \A u \in Threads : pc[u] # "ended"
  BY NotEnded
<1> USE <1>0, <1>n DEF TypeOK, Goto, Continue, Return, descriptor, locals, PCs, ExitPCs, WaitPCs,
           CallPCs, HoldPCs, Over, Marked, JoinCalls, Calls, Befalls, Read
<1>1. CASE \E w \in Threads : Create(t, w)
  BY <1>1 DEF Create, SetJoinpt, CallShape, Ids
<1>2. CASE \E w \in Threads, c \in JoinCalls \cup {"detach"} : Enter(t, w, c)
  BY <1>2 DEF Enter, MayCall, CallShape, Ids
<1>3. CASE Resume(t) \/ Undo(t)
  BY <1>3 DEF Resume, Undo, SetJoinpt, CallShape, Ids
<1>4. CASE Start(t) \/ RoutineReturns(t)
  BY <1>4 DEF Start, RoutineReturns, CallShape, Ids
<1>5. CASE Exit(t) \/ Cancel(t) \/ MarkExiting(t)
  BY <1>5 DEF Exit, Cancel, MarkExiting, SetExiting, CallShape, Ids
<1>6. CASE ReadDetached(t)
  BY <1>6 DEF ReadDetached, CallShape, Ids
<1>7. CASE CountDown(t) /\ total # 1
  BY <1>7 DEF CountDown, CallShape, Ids
<1>8. CASE Release(t)
  BY <1>8 DEF Release, Woken, CallShape, Ids
<1>9. CASE Check(t)
  BY <1>9 DEF Check, RefusesJoin, RefusesDetach, CallShape, Ids
<1>10. CASE Claim(t)
  BY <1>10 DEF Claim, SetJoinpt, CallShape, Ids
<1>11. CASE Flags(t)
  BY <1>11 DEF Flags, CallShape, Ids
<1>12. CASE Load(t) \/ Wait(t)
  BY <1>12 DEF Load, Wait, Woken, CallShape, Ids
<1>13. CASE Interrupted(t) \/ Timeout(t)
  BY <1>13 DEF Interrupted, Timeout, CallShape, Ids
<1>14. CASE Unclaim(t)
  BY <1>14 DEF Unclaim, SetJoinpt, CallShape, Ids
<1>15. CASE Deallocate(t)
  BY <1>15 DEF Deallocate, CallShape, Ids
<1> QED BY <1>1, <1>2, <1>3, <1>4, <1>5, <1>6, <1>7, <1>8, <1>9, <1>10, <1>11,
       <1>12, <1>13, <1>14, <1>15 DEF Act, Step

\* Threads are finite, and counted one by one.
LEMMA Counting ==
  ASSUME NEW S \in SUBSET Threads
  PROVE  /\ Cardinality(S) \in 0..Cardinality(Threads)
         /\ \A t \in Threads \ S : Cardinality(S \cup {t}) = Cardinality(S) + 1
         /\ \A t \in S : Cardinality(S \ {t}) = Cardinality(S) - 1
         /\ \A t \in S : Cardinality(S) = 1 => S = {t}
<1>1. IsFiniteSet(Threads) /\ IsFiniteSet(S)
  BY LifeAssumption, FS_Subset
<1>2. Cardinality(S) <= Cardinality(Threads) /\ Cardinality(S) \in Nat /\ Cardinality(Threads) \in Nat
  BY <1>1, FS_Subset, FS_CardinalityType
<1>3. \A t \in S : Cardinality(S \ {t}) = Cardinality(S) - 1
  BY <1>1, FS_RemoveElement
<1>4. ASSUME NEW t \in S, Cardinality(S) = 1 PROVE S = {t}
  <2>1. Cardinality(S \ {t}) = 0 /\ IsFiniteSet(S \ {t})
    BY <1>1, <1>3, <1>4, FS_RemoveElement
  <2>2. S \ {t} = {}
    BY <2>1, FS_EmptySet
  <2> QED BY <2>2
<1>5. \A t \in Threads \ S : Cardinality(S \cup {t}) = Cardinality(S) + 1
  BY <1>1, FS_AddElement
<1> QED BY <1>2, <1>3, <1>4, <1>5

\* Creation and exit keep the count.
LEMMA TotalStep ==
  ASSUME IInv, NEW t \in Threads, Act(t), ~ (CountDown(t) /\ total = 1)
  PROVE  TotalInv' /\ (\A u \in Threads : pc'[u] # "ended") /\ total' \in 0..Cardinality(Threads)
<1>0. TypeOK /\ CallShape /\ OneCaller /\ Claims /\ ClaimsHeld
      /\ Marks /\ Detached /\ RaceInv /\ IdInv /\ FreesInv
  BY DEF IInv
<1>n. NULL \notin Threads
  BY LifeAssumption
<1>e. \A u \in Threads : pc[u] # "ended"
  BY NotEnded
<1> USE <1>0, <1>n DEF TypeOK, Goto, Continue, Return, descriptor, locals, PCs, ExitPCs, WaitPCs,
           CallPCs, HoldPCs, Over, Marked, JoinCalls, Calls, Befalls, Read
<1>t. total = Cardinality(Counted) /\ Counted \in SUBSET Threads
  BY <1>e DEF IInv, TotalInv, Counted
<1> SUFFICES /\ total' = Cardinality(Counted') /\ Counted' \in SUBSET Threads
             /\ \A u \in Threads : pc'[u] # "ended"
  BY Counting DEF TotalInv
<1>s. Counted' \in SUBSET Threads
  BY DEF Counted
<1>k. Counted' = Counted /\ total' = total => total' = Cardinality(Counted')
  BY <1>t
<1>1. CASE \E w \in Threads : Create(t, w)
  <2>1. PICK w \in Threads : Create(t, w)
    BY <1>1
  <2>2. Counted' = Counted \cup {w} /\ w \notin Counted /\ total' = total + 1
    BY <2>1 DEF Create, Counted
  <2>3. \A u \in Threads : pc'[u] # "ended"
    BY <1>e, <2>1 DEF Create
  <2> QED BY <1>t, <1>s, <2>2, <2>3, Counting
<1>2. CASE \E w \in Threads, c \in JoinCalls \cup {"detach"} : Enter(t, w, c)
  BY <1>2, <1>e, <1>t, <1>s, <1>k DEF Enter, MayCall, Counted, OneCaller, CallShape
<1>3. CASE Resume(t) \/ Undo(t)
  <2>1. CASE Resume(t)
    <3>1. Counted' = Counted /\ total' = total /\ \A u \in Threads : pc'[u] # "ended"
      BY <1>e, <2>1 DEF Resume, Counted, OneCaller, CallShape
    <3> QED BY <1>k, <1>s, <3>1
  <2>2. CASE Undo(t)
    <3>1. /\ target[t] \in Counted /\ Counted' = Counted \ {target[t]} /\ total' = total - 1
      BY <2>2 DEF Undo, Counted, OneCaller, CallShape
    <3>2. \A u \in Threads : pc'[u] # "ended"
      BY <1>e, <2>2 DEF Undo
    <3> QED BY <1>t, <1>s, <3>1, <3>2, Counting
  <2> QED BY <1>3, <2>1, <2>2
<1>4. CASE Start(t) \/ RoutineReturns(t)
  BY <1>4, <1>e, <1>t, <1>s, <1>k DEF Start, RoutineReturns, Counted, OneCaller, CallShape
<1>5. CASE Exit(t) \/ Cancel(t) \/ MarkExiting(t)
  BY <1>5, <1>e, <1>t, <1>s, <1>k
     DEF Exit, Cancel, MarkExiting, SetExiting, Counted, OneCaller, CallShape
<1>6. CASE ReadDetached(t)
  BY <1>6, <1>e, <1>t, <1>s, <1>k DEF ReadDetached, Counted, OneCaller, CallShape
<1>7. CASE CountDown(t) /\ total # 1
  <2>1. /\ t \in Counted /\ Counted' = Counted \ {t} /\ total' = total - 1
    BY <1>7 DEF CountDown, Counted
  <2>3. \A u \in Threads : pc'[u] # "ended"
    BY <1>e, <1>7 DEF CountDown
  <2> QED BY <1>t, <1>s, <2>1, <2>3, Counting
<1>8. CASE Release(t)
  BY <1>8, <1>e, <1>t, <1>s, <1>k DEF Release, Woken, Counted, OneCaller, CallShape
<1>9. CASE Check(t)
  BY <1>9, <1>e, <1>t, <1>s, <1>k
     DEF Check, RefusesJoin, RefusesDetach, Counted, OneCaller, CallShape
<1>10. CASE Claim(t)
  BY <1>10, <1>e, <1>t, <1>s, <1>k DEF Claim, SetJoinpt, Counted, OneCaller, CallShape
<1>11. CASE Flags(t)
  BY <1>11, <1>e, <1>t, <1>s, <1>k DEF Flags, Counted, OneCaller, CallShape
<1>12. CASE Load(t) \/ Wait(t)
  BY <1>12, <1>e, <1>t, <1>s, <1>k DEF Load, Wait, Woken, Counted, OneCaller, CallShape
<1>13. CASE Interrupted(t) \/ Timeout(t)
  BY <1>13, <1>e, <1>t, <1>s, <1>k DEF Interrupted, Timeout, Counted, OneCaller, CallShape
<1>14. CASE Unclaim(t)
  BY <1>14, <1>e, <1>t, <1>s, <1>k DEF Unclaim, SetJoinpt, Counted, OneCaller, CallShape
<1>15. CASE Deallocate(t)
  BY <1>15, <1>e, <1>t, <1>s, <1>k DEF Deallocate, Counted, OneCaller, CallShape
<1> QED BY <1>1, <1>2, <1>3, <1>4, <1>5, <1>6, <1>7, <1>8, <1>9, <1>10, <1>11,
       <1>12, <1>13, <1>14, <1>15 DEF Act, Step

\* exit (0): no other thread was counted, so none was in a call.
LEMMA LastStep ==
  ASSUME IInv, NEW t \in Threads, CountDown(t), total = 1
  PROVE  IInv' /\ \A u \in Threads \ {t} : pc[u] \in {"none", "release", "dead"}
<1>0. TypeOK /\ CallShape /\ OneCaller /\ Claims /\ ClaimsHeld
      /\ Marks /\ Detached /\ RaceInv /\ IdInv /\ FreesInv
  BY DEF IInv
<1>1. /\ pc[t] = "count" /\ pc' = [u \in Threads |-> "ended"] /\ total' = 0
      /\ UNCHANGED <<id, joinpt, exiting, terminated, frees, race, call, target, tmp, detp>>
  BY DEF CountDown, descriptor, locals
<1>2. total = Cardinality(Counted) /\ t \in Counted /\ Counted \in SUBSET Threads
  BY <1>1 DEF IInv, TotalInv, Counted
<1>3. \A u \in Threads \ {t} : pc[u] \in {"none", "release", "dead"}
  <2>1. Counted = {t}
    BY <1>2, Counting
  <2> QED BY <2>1 DEF Counted
<1>4. \A u \in Threads : target[u] = NULL
  BY <1>0, <1>1, <1>3 DEF CallShape, TypeOK, CallPCs, WaitPCs
<1>5. NULL \notin Threads
  BY LifeAssumption
<1> USE <1>0, <1>1, <1>3, <1>4, <1>5 DEF TypeOK, PCs, CallPCs, WaitPCs, HoldPCs, ExitPCs, Over, Marked
<1>6. TypeOK' /\ CallShape' /\ OneCaller' /\ Claims'
  BY Counting DEF CallShape, OneCaller, Claims
<1>7. ClaimsHeld' /\ Marks'
  BY DEF ClaimsHeld, Marks
<1>8. Detached' /\ FreesInv'
  BY DEF Detached, DetachedAt, FreesInv, FreesAt
<1>r. RaceInv'
  BY DEF RaceInv, RaceAt
<1>9. IdInv' /\ TotalInv'
  BY DEF IdInv, TotalInv
<1> QED BY <1>3, <1>6, <1>7, <1>8, <1>r, <1>9 DEF IInv

-----------------------------------------------------------------------------

LEMMA InitIInv == Init => IInv
<1> SUFFICES ASSUME Init PROVE IInv
  OBVIOUS
<1>0. Main \in Threads /\ NULL \notin Threads
  BY LifeAssumption
<1>1. Counted = {Main}
  BY <1>0 DEF Init, Counted
<1>2. Cardinality(Counted) = 1 /\ 1 \in 0..Cardinality(Threads)
  <2>1. {Main} \in SUBSET Threads /\ Cardinality({Main}) = 1
    BY <1>0, FS_Singleton
  <2> QED BY <1>1, <2>1, Counting
<1> USE <1>0, <1>2 DEF Init, PCs, ExitPCs, WaitPCs, CallPCs, HoldPCs, Over, Marked
<1>3. TypeOK
  BY DEF TypeOK, Ids, Calls, Races
<1>4. CallShape /\ OneCaller /\ Claims /\ ClaimsHeld
  BY DEF CallShape, OneCaller, Claims, ClaimsHeld
<1>5. Marks /\ Detached
  BY DEF Marks, Detached, DetachedAt
<1>6. RaceInv /\ IdInv /\ FreesInv /\ TotalInv
  BY DEF RaceInv, RaceAt, IdInv, FreesInv, FreesAt, TotalInv
<1> QED BY <1>3, <1>4, <1>5, <1>6 DEF IInv

LEMMA NextIInv == IInv /\ [Next]_vars => IInv'
<1> SUFFICES ASSUME IInv, [Next]_vars PROVE IInv'
  OBVIOUS
<1>1. ASSUME NEW t \in Threads, Act(t), ~ (CountDown(t) /\ total = 1) PROVE IInv'
  <2>1. TypeOK'
    BY <1>1, DescriptorTypes, LocalTypes, TotalStep DEF TypeOK
  <2>2. CallShape' /\ OneCaller' /\ Claims' /\ ClaimsHeld'
    BY <1>1, CallShapeStep, OneCallerStep, ClaimsStep, ClaimsHeldStep
  <2>3. Marks' /\ Detached' /\ RaceInv' /\ IdInv' /\ FreesInv' /\ TotalInv'
    BY <1>1, MarksStep, DetachedStep, RaceInvStep, IdInvStep, FreesInvStep, TotalStep
  <2> QED BY <2>1, <2>2, <2>3 DEF IInv
<1>2. ASSUME NEW t \in Threads, CountDown(t), total = 1 PROVE IInv'
  BY <1>2, LastStep
<1>3. CASE UNCHANGED vars
  <2>1. UNCHANGED <<id, joinpt, exiting, terminated, frees, race, total, pc, call, target, tmp, detp>>
    BY <1>3 DEF vars, descriptor, locals
  <2>2. TypeOK' /\ CallShape' /\ OneCaller' /\ Claims' /\ ClaimsHeld'
    BY <2>1 DEF IInv, TypeOK, CallShape, OneCaller, Claims, ClaimsHeld
  <2>3. Marks' /\ Detached' /\ RaceInv' /\ IdInv' /\ FreesInv' /\ TotalInv'
    BY <2>1 DEF IInv, Marks, Detached, DetachedAt, RaceInv, RaceAt, IdInv, FreesInv, FreesAt,
                TotalInv, Counted
  <2> QED BY <2>2, <2>3 DEF IInv
<1> QED BY <1>1, <1>2, <1>3 DEF Next, Act

-----------------------------------------------------------------------------

\* No stack is freed twice, by the kernel and a thread that joins or detaches or by
\* two of these, and __pthread_total is never below 0.
THEOREM TypeCorrect == Spec => []TypeOK
<1>1. IInv => TypeOK
  BY DEF IInv
<1> QED BY <1>1, InitIInv, NextIInv, PTL DEF Spec

\* __pthread_deallocate and thread_terminate_release2: the stack that holds a
\* descriptor is freed after the death of its thread and after the last step
\* that a join or detach takes on it.
THEOREM StackTheorem == Spec => []StackOutlivesItsUsers
<1>1. IInv => StackOutlivesItsUsers
  BY DEF IInv, TypeOK, FreesInv, FreesAt, StackOutlivesItsUsers, Claimers, Over
<1> QED BY <1>1, InitIInv, NextIInv, PTL DEF Spec

\* pthread_detach and __pthread_cleanup: of a detached thread that is dead, either
\* the kernel has freed the stack, or the thread that detached it will.
THEOREM DetachedTheorem == Spec => []DetachedIsFreed
<1>1. IInv => DetachedIsFreed
  BY DEF IInv, Detached, DetachedAt, DetachedIsFreed, Claimers, CallPCs, WaitPCs, HoldPCs, Marked
<1> QED BY <1>1, InitIInv, NextIInv, PTL DEF Spec

\* pthread_join, _timedjoin_np and _tryjoin_np succeed only on a dead thread.
THEOREM JoinTheorem == Spec => []JoinedAfterTheEnd
<1>1. IInv => JoinedAfterTheEnd
  BY DEF IInv, IdInv, JoinedAfterTheEnd
<1> QED BY <1>1, InitIInv, NextIInv, PTL DEF Spec

\* A join that ends without a thread to free, or is cancelled, gives joinpt back.
THEOREM ClaimsTheorem == Spec => []ClaimsAreAlive
<1>1. IInv => ClaimsAreAlive
  BY DEF IInv, TypeOK, ClaimsHeld, ClaimsAreAlive, Claimers, CallPCs, WaitPCs, HoldPCs
<1> QED BY <1>1, InitIInv, NextIInv, PTL DEF Spec

\* __pthread_cleanup calls exit (0) only in the last thread: a thread is counted
\* before it can run, and until it has nothing left to do but die.
THEOREM LastTheorem == Spec => TheLastEndsTheProcess
<1> DEFINE A == \A t \in Threads : pc[t] = "count" /\ pc'[t] = "ended"
                  => \A u \in Threads \ {t} : pc[u] \in {"none", "release", "dead"}
<1>1. IInv /\ [Next]_vars => [A]_vars
  <2> SUFFICES ASSUME IInv, Next, NEW t \in Threads, pc[t] = "count", pc'[t] = "ended"
               PROVE  \A u \in Threads \ {t} : pc[u] \in {"none", "release", "dead"}
    OBVIOUS
  <2>1. PICK v \in Threads : Act(v)
    BY DEF Next, Act
  <2>2. CountDown(v) /\ total = 1
    <3> SUFFICES ASSUME ~ (CountDown(v) /\ total = 1) PROVE FALSE
      OBVIOUS
    <3> QED BY <2>1, TotalStep
  <2>3. v = t
    BY <2>2, LastStep
  <2> QED BY <2>2, <2>3, LastStep
<1> QED BY <1>1, InitIInv, NextIInv, PTL DEF Spec, TheLastEndsTheProcess
=============================================================================
