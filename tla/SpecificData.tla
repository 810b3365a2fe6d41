---------------------------- MODULE SpecificData ----------------------------
(***************************************************************************)
(* pthread/specific.c: the array __pthread_keys of a process and the       *)
(* two-level tables of its threads.  A key is in use while its sequence    *)
(* number is odd; an entry of a table counts only while it holds the same  *)
(* number.  Each access to the shared array is a step; a thread's own      *)
(* table is nobody else's.                                                 *)
(*                                                                         *)
(* A value stands for the call that stored it: its key, the incarnation of *)
(* the key (the odd number) for which it was meant, and the generation of  *)
(* the process, which a fork raises; a destructor likewise for the         *)
(* pthread_key_create that registered it.                                  *)
(***************************************************************************)
EXTENDS Pthreads, Integers, FiniteSets

CONSTANTS Main,         \* the main thread, which has no first block
          L1, L2,       \* PTHREAD_KEY_L1_SIZE, PTHREAD_KEY_L2_SIZE
          Iterations,   \* PTHREAD_DESTRUCTION_ITERATIONS
          Taken,        \* the keys that others created, with a destructor
          MaxSeq,       \* bound: the largest sequence number of each key
          MaxGen        \* bound: the generation that makes no child

Blocks == 0..(L1 - 1)
Keys == 0..(L1 * L2 - 1)     \* below PTHREAD_KEYS_MAX

ASSUME SpecificAssumption ==
  /\ Main \in Threads /\ L1 \in Nat \ {0} /\ L2 \in Nat \ {0}
  /\ Iterations \in Nat \ {0} /\ Taken \subseteq Keys /\ MaxSeq \in [Keys -> Nat] /\ MaxGen \in Nat

VARIABLES keySeq, destr,    \* __pthread_keys
          specific,     \* each thread's entries, with their sequence numbers
          blocks,       \* and the second-level tables it has allocated
          specific_used,
          arg,          \* the arguments and locals of each thread's call
          scan,         \* where it is in __pthread_dealloc_tsd
          held,         \* the keys that the program has created and not deleted
          gen           \* the generation of the process

keys == <<keySeq, destr, held, gen>>
table == <<specific, blocks, specific_used>>
control == <<pc, arg, scan>>
tsdVars == <<keys, table, control>>

\* No incarnation is even: a null pointer, and a destructor from beyond the array.
NULL == [key |-> 0, inc |-> 0, gen |-> 0]
Wild == [NULL EXCEPT !.inc = 2]

Origin(k, n) == [key |-> k, inc |-> n, gen |-> gen]

NoEntry == [seq |-> 0, data |-> NULL]
\* The number of a null entry is never read.
Entry(n, v) == IF v = NULL THEN NoEntry ELSE [seq |-> n, data |-> v]

NoArg == [key |-> 0, seq |-> 0, val |-> NULL]
NotExiting == [iter |-> Iterations, p |-> 0, q |-> 0, lp |-> NoEntry, fn |-> NULL, seen |-> 0]

Free(k) == keySeq[k] % 2 = 0 /\ keySeq[k] < MaxSeq[k]

TsdInit == /\ keySeq = [k \in Keys |-> IF k \in Taken THEN 1 ELSE 0]
           /\ destr = [k \in Keys |-> IF k \in Taken THEN [key |-> k, inc |-> 1, gen |-> 0] ELSE NULL]
           /\ specific = [t \in Threads |-> [k \in Keys |-> NoEntry]]
           /\ blocks = [t \in Threads |-> IF t = Main THEN {} ELSE {0}]
           /\ specific_used = [t \in Threads |-> FALSE]
           /\ pc = [t \in Threads |-> "run"]
           /\ arg = [t \in Threads |-> NoArg]
           /\ scan = [t \in Threads |-> NotExiting]
           /\ held = {} /\ gen = 0


-----------------------------------------------------------------------------

Move(t, l, m) == pc[t] = l /\ pc' = [pc EXCEPT ![t] = m]
Pass(t, k, n, v) == arg' = [arg EXCEPT ![t] = [key |-> k, seq |-> n, val |-> v]]

\* A call returns to the program, or to the destructor that made it.
Exiting(t) == scan[t] # NotExiting
Caller(t) == IF Exiting(t) THEN "destr" ELSE "run"

-----------------------------------------------------------------------------
\* pthread_key_create and pthread_key_delete.

Create(t) == /\ Move(t, "run", "look") /\ \E k \in Keys : Free(k)
             /\ Pass(t, 0, 0, NULL)
             /\ UNCHANGED <<keys, table, scan>>

\* The sequence number of the next key; EAGAIN after the last one.
CreateLook(t) ==
  /\ pc[t] = "look"
  /\ LET k == arg[t].key
     IN  \/ k \notin Keys /\ Move(t, "look", "run") /\ Pass(t, 0, 0, NULL)
         \/ k \in Keys /\ Free(k) /\ Move(t, "look", "cas") /\ Pass(t, k, keySeq[k], NULL)
         \/ k \in Keys /\ ~ Free(k) /\ UNCHANGED pc /\ Pass(t, k + 1, 0, NULL)
  /\ UNCHANGED <<keys, table, scan>>

\* atomic_cas_bool; a key lost to another thread is passed over.
CreateCas(t) ==
  /\ pc[t] = "cas"
  /\ LET k == arg[t].key
     IN  \/ /\ keySeq[k] = arg[t].seq
            /\ keySeq' = [keySeq EXCEPT ![k] = @ + 1]
            /\ Move(t, "cas", "store") /\ UNCHANGED arg
         \/ /\ keySeq[k] # arg[t].seq
            /\ Move(t, "cas", "look") /\ Pass(t, k + 1, 0, NULL)
            /\ UNCHANGED keySeq
  /\ UNCHANGED <<destr, held, gen, table, scan>>

\* The destructor, if any, is stored once the key is in use.
CreateStore(t) ==
  /\ Move(t, "store", "run")
  /\ LET k == arg[t].key
     IN  /\ \E fn \in {NULL, Origin(k, arg[t].seq + 1)} : destr' = [destr EXCEPT ![k] = fn]
         /\ held' = held \cup {k}
  /\ Pass(t, 0, 0, NULL)
  /\ UNCHANGED <<keySeq, gen, table, scan>>

\* The program deletes each key that it created once.
Delete(t) == /\ \E k \in held : /\ keySeq[k] < MaxSeq[k]
                                /\ Move(t, "run", "delete")
                                /\ held' = held \ {k}
                                /\ Pass(t, k, 0, NULL)
             /\ UNCHANGED <<keySeq, destr, gen, table, scan>>

DeleteAdd(t) == /\ Move(t, "delete", "run") /\ Pass(t, 0, 0, NULL)
                /\ keySeq' = [keySeq EXCEPT ![arg[t].key] = @ + 1]
                /\ UNCHANGED <<destr, held, gen, table, scan>>

-----------------------------------------------------------------------------
\* pthread_setspecific and pthread_getspecific, by the program on a key that it
\* holds when the call begins.

Set(t) == /\ pc[t] \in {"run", "destr"}
          /\ \E k \in held : \E v \in {NULL, Origin(k, keySeq[k])} :
               Move(t, pc[t], "set") /\ Pass(t, k, keySeq[k], v)
          /\ UNCHANGED <<keys, table, scan>>

\* The thread's own part: without a block a null value is dropped, and the
\* allocation of the block may fail (ENOMEM).
SetStore(t) ==
  /\ Move(t, "set", Caller(t)) /\ Pass(t, 0, 0, NULL)
  /\ LET k == arg[t].key
         v == arg[t].val
     IN  \/ k \div L2 \notin blocks[t] /\ UNCHANGED table
         \/ /\ k \div L2 \in blocks[t] \/ v # NULL
            /\ blocks' = [blocks EXCEPT ![t] = @ \cup {k \div L2}]
            /\ specific' = [specific EXCEPT ![t][k] = Entry(arg[t].seq, v)]
            /\ specific_used' = [specific_used EXCEPT ![t] = @ \/ v # NULL]
  /\ UNCHANGED <<keys, scan>>

\* What pthread_getspecific would return.
Value(t, k) == IF specific[t][k].seq = keySeq[k] THEN specific[t][k].data ELSE NULL

\* It forgets a value whose key was deleted, and changes nothing otherwise.
Get(t) == /\ pc[t] \in {"run", "destr"}
          /\ \E k \in held : /\ Value(t, k) # specific[t][k].data
                             /\ specific' = [specific EXCEPT ![t][k] = NoEntry]
          /\ UNCHANGED <<keys, blocks, specific_used, control>>

-----------------------------------------------------------------------------
\* __pthread_dealloc_tsd, in pthread_exit: p is the entry it looks at next, q
\* the key it takes it for; seen is history, the key's number at the comparison.

At(t, i, p, q, lp, fn) ==
  scan' = [scan EXCEPT ![t] = [iter |-> i, p |-> p, q |-> q, lp |-> lp, fn |-> fn, seen |-> 0]]

Clear(t) == /\ specific' = [specific EXCEPT ![t] = [k \in Keys |-> NoEntry]]
            /\ blocks' = [blocks EXCEPT ![t] = @ \cap {0}]
            /\ specific_used' = [specific_used EXCEPT ![t] = FALSE]

DeallocTsd(t) == /\ \/ specific_used[t] /\ Move(t, "run", "scan")
                       /\ At(t, 0, 0, 0, NoEntry, NULL)
                       /\ specific_used' = [specific_used EXCEPT ![t] = FALSE]
                    \/ ~ specific_used[t] /\ Move(t, "run", "gone") /\ UNCHANGED <<scan, specific_used>>
                 /\ UNCHANGED <<keys, specific, blocks, arg>>

Left(t) == {k \in Keys : k >= scan[t].p /\ specific[t][k].data # NULL}

\* A block that was never allocated counts for PTHREAD_KEY_L1_SIZE keys.
Absent(t, p) == {b \in Blocks \ blocks[t] : scan[t].p <= b * L2 /\ b * L2 < p}
KeyOf(t, p) == scan[t].q + (p - scan[t].p) + Cardinality(Absent(t, p)) * (L1 - L2)

\* The next value is taken out of its entry.
Find(t) == /\ Move(t, "scan", "compare")
           /\ \E p \in Left(t) : /\ \A k \in Left(t) : p <= k
                                 /\ At(t, scan[t].iter, p, KeyOf(t, p), specific[t][p], NULL)
                                 /\ specific' = [specific EXCEPT ![t][p] = NoEntry]
           /\ UNCHANGED <<keys, blocks, specific_used, arg>>

\* The entry's number is compared with the key's; beyond the array, with anything.
SkipOn(t) == At(t, scan[t].iter, scan[t].p + 1, scan[t].q + 1, NoEntry, NULL)

Saw(t) == scan' = [scan EXCEPT ![t].seen = IF scan[t].q \in Keys THEN keySeq[scan[t].q] ELSE 0]

CompareNothing(t) == /\ Move(t, "compare", "fetch") /\ Saw(t)
                     /\ UNCHANGED <<keys, table, arg>>

Compare(t) ==
  /\ \E same \in IF scan[t].q \in Keys THEN {keySeq[scan[t].q] = scan[t].lp.seq} ELSE BOOLEAN :
       \/ same /\ Move(t, "compare", "fetch") /\ Saw(t)
       \/ ~ same /\ Move(t, "compare", "scan") /\ SkipOn(t)
  /\ UNCHANGED <<keys, table, arg>>

\* The destructor is loaded after that, and called unless null.
Fetch(t) ==
  /\ \E fn \in IF scan[t].q \in Keys THEN {destr[scan[t].q]} ELSE {NULL, Wild} :
       \/ fn = NULL /\ Move(t, "fetch", "scan") /\ SkipOn(t)
       \/ fn # NULL /\ Move(t, "fetch", "destr")
          /\ scan' = [scan EXCEPT ![t].fn = fn]
  /\ UNCHANGED <<keys, table, arg>>

DestructorReturns(t) == /\ Move(t, "destr", "scan") /\ SkipOn(t)
                        /\ UNCHANGED <<keys, table, arg>>

EndsAfterOnePass(t) == /\ Left(t) = {} /\ Move(t, "scan", "gone")
                       /\ scan' = [scan EXCEPT ![t] = NotExiting] /\ Clear(t)
                       /\ UNCHANGED <<keys, arg>>

\* Another pass while destructors store values, but a few at most.
EndOfPass(t) ==
  /\ Left(t) = {}
  /\ \/ /\ specific_used[t] /\ scan[t].iter + 1 < Iterations
        /\ Move(t, "scan", "scan")
        /\ At(t, scan[t].iter + 1, 0, 0, NoEntry, NULL)
        /\ specific_used' = [specific_used EXCEPT ![t] = FALSE]
        /\ UNCHANGED <<specific, blocks>>
     \/ /\ ~ (specific_used[t] /\ scan[t].iter + 1 < Iterations)
        /\ Move(t, "scan", "gone")
        /\ scan' = [scan EXCEPT ![t] = NotExiting]
        /\ Clear(t)
  /\ UNCHANGED <<keys, arg>>

-----------------------------------------------------------------------------

\* A fork, seen from the child: pt_atfork_child resets the keys, and the table of
\* the one thread that is left stays as it is.
ForkChild(t) == /\ pc[t] = "run" /\ gen < MaxGen
                /\ pc' = [u \in Threads |-> IF u = t THEN "run" ELSE "gone"]
                /\ gen' = gen + 1 /\ held' = {}
                /\ keySeq' = [k \in Keys |-> 0] /\ destr' = [k \in Keys |-> NULL]
                /\ arg' = [u \in Threads |-> NoArg] /\ scan' = [u \in Threads |-> NotExiting]
                /\ UNCHANGED table

-----------------------------------------------------------------------------

TsdStep(t) == \/ CreateLook(t) \/ CreateCas(t) \/ CreateStore(t) \/ DeleteAdd(t) \/ SetStore(t)
              \/ Find(t) \/ Compare(t) \/ Fetch(t) \/ EndOfPass(t) \/ DestructorReturns(t)

Call(t) == Create(t) \/ Delete(t) \/ Set(t) \/ Get(t) \/ DeallocTsd(t)

TsdNext == \E t \in Threads : TsdStep(t) \/ Call(t) \/ ForkChild(t)

TsdSpec == TsdInit /\ [][TsdNext]_tsdVars

-----------------------------------------------------------------------------

\* pthread_getspecific: a thread sees only values meant for the key as it is
\* now, whoever deletes and creates keys meanwhile.  A forked child resets the
\* keys but not the table of its thread: there values of the parent may come back.
NoStaleValue ==
  \A t \in Threads, k \in held :
    LET v == Value(t, k) IN v = NULL \/ v.gen # gen \/ v = Origin(k, keySeq[k])

\* A destructor called with a value: that of another key if the thread has no
\* block before the value's, and of a later incarnation if the key is deleted
\* and created again after the comparison.
Misled(t) == \/ scan[t].q # scan[t].p
             \/ scan[t].seen # keySeq[scan[t].p]
             \/ scan[t].lp.data.gen # gen

\* __pthread_dealloc_tsd, otherwise: the destructor registered for the very
\* incarnation of the key that the value was stored for.
DestructorsGetTheirOwn ==
  \A t \in Threads :
    pc[t] = "destr" /\ scan[t].fn # NULL => scan[t].fn = scan[t].lp.data \/ Misled(t)

\* What is stored and what is destroyed stay with their key.
ValuesKeepToTheirKey == NoStaleValue /\ DestructorsGetTheirOwn

\* __pthread_dealloc_tsd: a thread ends with values left in its table only after
\* the last pass allowed.
NothingDroppedEarly ==
  [][\A t \in Threads :
       pc[t] = "scan" /\ pc'[t] = "gone" /\ gen' = gen =>
         \/ scan[t].iter + 1 = Iterations
         \/ \A k \in Keys : specific[t][k].data = NULL]_tsdVars
=============================================================================
