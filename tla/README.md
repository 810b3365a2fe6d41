# hlpt in TLA+

hlpt is a POSIX threads library for GNU Hurd. It has no lock of its own in the
kernel: every synchronisation object is one or two words of memory, changed with
atomic operations, and a kernel service, *gsync*, that lets a thread sleep on the
address of a word and others wake it. Nearly everything that can go wrong is an
interleaving: a wake-up sent before the sleeper is there, one taken by a thread that
then times out or is cancelled, a word that says less than the queue behind it.
These modules model those protocols one atomic operation at a time; TLC checks them
on small instances, and TLAPS proves the main results for any number of threads.

Paths are relative to `src/pthread/`. `PROJECT.json` maps every definition that
models code to its lines, and lists the hazards with the properties aimed at them.

## 1. Inventory

| component | state | operations | interacts with |
|---|---|---|---|
| low-level lock, `lowlevellock.c` 1-150 | one word: 0 free, 1 taken, 2 taken and perhaps slept on | lock, timed lock, trylock, unlock; wrappers of gsync | gsync; used by the mutex, named semaphores, fork, keys, detach |
| robust locks, `lowlevellock.c` 155-291 | pid, `LLL_WAITERS`, `LLL_DEAD_OWNER` in a word | the same, over the death of the owner's process | gsync, the task table |
| mutex, `mutex.c` | lock word, type, owner id and process, count, flags | lock, trylock, timedlock, unlock, consistent, transfer_np, destroy | both locks; condition variable |
| condition variable, `cond.c` | `__seq_nw` (sequence, waiters), `__mutex`, flags | wait, timedwait, the interruptible waits, signal, broadcast, destroy, cleanup | mutex (writes its lock word), gsync_requeue, cancellation |
| read-write lock, `rwlock.c` | owner id and process `__oid`/`__spid`, readers `__nrd`, queued writers `__qwr` | rdlock, wrlock, try and timed forms, unlock, destroy | gsync on two addresses |
| semaphore, `sem.c` 1-215 | `__val_nw` (value, waiters), flags | init, post, wait, trywait, timedwait, getvalue, destroy, cleanup | gsync, cancellation |
| named semaphores, `sem.c` 216-549 | files, table of mappings and their references | open, close, unlink | file system, low-level lock, fork |
| barrier, `barrier.c` | count left, sequence, number of threads inside, total | wait, destroy | gsync |
| once, `once.c` | one word: initial, done, or in progress and the pid | once, cleanup | gsync, fork, cancellation |
| spin lock, `spinlock.c` | one word | lock, trylock, unlock | none |
| thread lifecycle, `create.c`, `exit.c`, `join.c`, `detach.c` | per thread: id, flags (detached, exiting), stack, death event | create, exit, join, tryjoin, timedjoin, detach | kernel (terminate and release the stack), cancellation, keys, TCB list |
| TCB free list, `create.c` 40-110 | a linked stack of TCBs | alloc_tls, dealloc_tls | thread lifecycle |
| cancellation, `cancel.c` | per thread: flags word (disabled, asynchronous, cancelled, cancelling, in transition) | cancel, setcancelstate, setcanceltype, testcancel, entry and exit of a cancellation point | signals, every blocking call |
| thread-specific data, `specific.c` | keys with sequence numbers, two-level table per thread | key create and delete, getspecific, setspecific, destruction at exit | thread lifecycle, fork |
| fork handlers, `fork.c` | list of handlers, lock | register, unregister, fork | all locks held over fork, keys, named semaphores |
| signals, attributes, np, init, misc | C library signal state; single fields | getters, setters, wrappers | |
| atomics and lists, `sysdeps/`, `hurd/` | | compare-and-swap, exchange, add on a word or half of a double word | all |

Hard behaviours and what makes each component correct:

* **low-level lock.** The plain test, the compare-and-swap, the exchange, the sleep,
  the unlock and its wake are separate steps. Correct: one owner; a sleeper is never
  left without somebody who will wake it; waiters that time out leave no damage.
* **condition variable.** A waiter is registered after it unlocks the mutex; broadcast
  moves sleepers to the queue of a lock word they never marked; cleanup may run in a
  thread that had just been woken. Correct: the wait returns with the mutex; the
  count is exact; a broadcast reaches all who wait; requeued waiters are woken by the
  unlocks that follow.
* **read-write lock.** Queued readers and owning readers share a count. Correct: a
  writer alone; exact counts; the last owner hands the lock over to whoever sleeps;
  `EDEADLK` for the owner and nobody else.
* **semaphore.** Correct: the value never exceeds its maximum; the waiters are counted,
  cancelled or not; no unit is left beside a sleeper.
* **barrier.** Surplus threads, and threads of the next round, run through while the
  last ones leave. Correct: exact groups, one serial thread each, destroy returns
  after everybody has left.
* **once.** Cancelled routines, and fork. Correct: one thread runs the routine at a
  time, it completes once, nobody returns before and nobody waits for ever.
* **mutex, robust locks.** Two-word owners on shared mutexes; death of the owner
  between updates; wake-ups that a dead process never sends. Correct: recursive counts
  and owner checks agree with the lock word; damage is told to every heir until it is
  repaired; survivors return.
* **thread lifecycle.** Exit, detach, join and timed join race for one stack. Correct:
  it is freed exactly once, never under its user; join returns after the end.
* **cancellation.** The canceller suspends the target between any two of its steps.
  Correct: never acted upon where the target did not agree to it, and never lost.
* **named semaphores.** A file is made, written, mapped and linked in steps that fail one
  by one and race other processes. Correct: a name means one semaphore, which can be
  used as soon as it can be found, and stays mapped while it is open.
* **thread-specific data.** Keys are deleted and created again, and destructors store
  values, while threads end. Correct: values and destructors keep to their incarnation
  of the key; no thread drops values before its last pass.
* **fork handlers, TCB list.** The order of the handlers; ABA.

## 2. Modules

| module | models | state ↔ code |
|---|---|---|
| `AbstractLock` | what a lock promises: a thread asks, is granted when nobody holds it, refused only while somebody does (and never by `lll_lock`), releases | no code: the specification `LowLevelLock` implements |
| `LowLevelLock` | `lll_lock`, `__lll_abstimed_lock`, `lll_trylock`, `lll_unlock` | `word` is `*ptr`; `pc[t]` the next instruction that matters of thread t |
| `RobustLock` | the robust locks over one word shared by processes that may die at any step; slices of sleep, and a look whether the process in the word is alive | `word` is the pid in it, `LLL_WAITERS` and `LLL_DEAD_OWNER`; `val[t]` the value last read; `alive` the task table |
| `Mutex` | `mutex.c`, every type, private or shared, robust or not: lock, try, timed, unlock, consistent, transfer. EXTENDS `RobustLock`; under the other mutexes `lll_lock` is one step that takes a free word, as `LowLevelLock` implements `AbstractLock` | `owner_id`, `shpid`, `cnt`, `kind` are the fields; `hold`, `damaged`, `stale`, `torn` are history |
| `CondVar` | `cond.c` with the lock word of one private normal mutex, the interruptible waits included | `seq, nw` are the halves of `__seq_nw`; `saved` is `__mutex != NULL`; `word` is the mutex; `mine[t]` is `sw.lo`; `cancel`, `locker` are a thread's `stp->cancel` and `stp->lock`; `own, told, leaked, dropped` are history |
| `RwLock` | `rwlock.c`, all operations | `spid, qwr, oid, nrd` are the fields; `frame[t]` is the call and the values loaded by it; `own[t]` is history, and so is the `seen` of a frame, the writers there were when `rwl_owned_p` loaded id and process |
| `AbstractSemaphore` | what a semaphore promises: each call takes effect at one moment, a unit more or a unit less, or has none | no code: the specification `Semaphore` implements |
| `Semaphore` | unnamed semaphores and the effect of cancellation on their waits | `lo, hi` are the halves of `__val_nw`; `tmp[t]` the values loaded; `units`, history, is the value that the results of the calls add up to |
| `NamedSem` | `sem_open`, `sem_close`, `sem_unlink` by threads of several tasks over one directory | `dir`, `body` are the files and their contents (none, those of the initialiser, or what the stack held); `list` is `__mapped_sems` of each task, `mapped` what the kernel has mapped; `open`, the opens of a file not yet closed, `asked`, the names given for it, `origin`, the names it was linked to, `unlinked`, and `jumped`, the files whose creation jumped over the initialiser, are history |
| `Pthreads` | the threads and the program counter, which `Once`, `Barrier` and `SpecificData` extend | |
| `Barrier` | `barrier.c` | `seq` and `cnt` are the halves of `__seq_cnt`, `nrefs` and `total` the other fields; per-thread histories `arrived`, `passed` |
| `Once` | `once.c` under fork and cancellation | `word` is the control variable, `pid` the process looked at; `Fork` goes on in the child, which has a copy of the word and one thread |
| `Lifecycle` | `create.c`, `exit.c`, `join.c`, `detach.c` and the kernel's `thread_terminate_release2` | `id`, `joinpt`, `exiting`, `terminated` are the descriptor (`id` as zero, `PTHREAD_INVALID_ID` or valid), `frees` counts how often its stack was freed, `race`, history, is which of three races befell it, `total` is `__pthread_total`; `target[t]` is the thread the call of t is about, `tmp[t]` the id it loaded, `detp[t]` its `detached_p`. One action checks the arguments of a call (`Check`, several reads of fields that only the exchange of `joinpt` decides on) |
| `Cancel` | `cancel.c`: a target that changes its cancelability, tests for requests and passes through cancellation points, and threads that call `pthread_cancel` | `flags` is `pt->flags`; `at` where the target is; `port` is `intr_port` of its signal state; `suspended` its suspend count; `old[c]` is `oldval` |
| `SpecificData` | `specific.c` and the reset of the keys in a child | `keySeq`, `destr` are `__pthread_keys`; `specific`, `blocks`, `specific_used` a thread's table; `scan[t]` the locals of `__pthread_dealloc_tsd`. A value stands for the key, incarnation and process it was stored for |
| `AtFork` | `pthread_atfork` and the three hooks of `fork.c` | handlers are numbered as registered; `handlers` is the head of the list; `prepared`, `answered` log the callbacks of a fork |
| `MC*` | model values and bounds for TLC | |
| `*Proofs` | the theorems about the module of that name: `LowLevelLock`, `RwLock`, `Semaphore`, `CondVar`, `Lifecycle`, `Mutex`, `NamedSem` | |
| `PthreadsProofs` | the theorems about `Once`, `Barrier`, `Cancel` and `SpecificData`, which it extends together: hence the names of their own for what the other modules call `Init`, `Next`, `Spec`, `TypeOK` | |

How the code becomes actions, the same in all modules:

* One action is one atomic access to shared memory or one call of the kernel; local
  computation is folded into the access before it. A plain load followed by a
  compare-and-swap is two actions, `Load` and `Cas`, with the loaded value kept. In
  `CondVar` the plain test and the compare-and-swap of `lll_lock` are one step, since
  `LowLevelLock` shows what their separation does; in `Cancel` and `RobustLock` a loop
  that repeats a compare-and-swap on what it has just read is one step.
* What is done under a lock that all accesses take (`__mapped_sems_lock`, a signal
  state's lock) is one step, unless the code gives up the processor in it.
* A 64-bit operation (`atomic_casx_bool`, `atomic_addx_hi`) is one step over both
  halves; an operation on one half is a step that changes the one and may return both.
* **gsync** is external and modelled from its use. `gsync_wait` returns at once when
  the memory no longer holds the expected value; otherwise the thread joins the set of
  sleepers. `gsync_wake` takes any one of them, or all with `GSYNC_BROADCAST`; with
  `GSYNC_MUTATE` it stores a value in the same step. `gsync_requeue` wakes one and
  moves the others. A sleep may end with a timeout (timed calls) or an interruption
  (`KERN_INTERRUPTED`), at any time.
* A deadline is a choice: at each point where the code compares it with the clock it
  may be found past. The conversion of `compute_reltime` is not modelled.
* Other code outside `src/` is modelled from its use too: the file server and the memory
  of `NamedSem`, the suspension of a thread in `Cancel`, `hurd_thread_cancel` in
  `CondVar` (it locks the signal state of the thread, sets `cancel` and calls the hook).
* Definitions named after a bug (`SwapTakesOne`, `CleanupOnlyResets`...) are mutated
  forms of the definition after them, with which a property must fail; no
  specification uses them.

## 3. What is checked

Each run finishes in less than a minute on two cores; the longest are `SpecificData`
and `CondVar`. Most have three threads: the least at
which a woken thread, a thread that steals from it and a thread still asleep exist at
once, which is what every hand-over protocol here is about.

| run | bounds | shows |
|---|---|---|
| `LowLevelLock` | 3 threads, all calls | `MutualExclusion`, `NoLostWakeup`; `ImplementsAbstractLock` (refinement); `CallsReturn` |
| `RwLock` | 3 threads in 2 processes, shared lock; one makes tryrd and timedwr, one timedrd and timedwr, one rd, trywr and timedwr, any number of times. Each process numbers its threads from 1, so that two of the three have the same id | `Exclusion`, `CountsAreExact`, `NobodyElseStranded`, `EdeadlkOnlyToTheOwner`; `CallsReturn` |
| `Semaphore` | 3 threads, `SEM_VALUE_MAX` = 1, initial value 0, post, trywait and timedwait, cancellation | `WaitersCounted`, `NoLostWakeup`; `ImplementsAbstractSemaphore` (refinement); `CallsReturn` |
| `Barrier` | 3 threads, barriers of 3 and of 2, 2 calls per thread (one more than a round, so that rounds overlap) | `ExactGroups`, `DestroyedLast`; `BarrierReturns` |
| `Once` | 3 threads; a process, its child and grandchild (fork between calls) | `RunsAlone`, `CompletesOnce`, `NobodyStranded`; `CallsReturn` |
| `CondVar` | 3 threads, of which 1 also waits interruptibly and another is cancelled; 2 notifications of a private condition variable, 1 of a shared one, of which 1 wait may be interrupted by the kernel | `WaitersCounted`, `TellReachesRegistered`, `RelockingIsSound`; `DueWaitersReturn` |
| `Lifecycle` | the main thread and two that are created, every call, no bound on the number of calls, none of them kept apart | `StackOutlivesItsUsers`, `DetachedIsFreed`, `JoinedAfterTheEnd`, `ClaimsAreAlive`; `TheLastEndsTheProcess`, `WaitsEnd` |
| `Mutex` | 2 processes, one with 2 threads, both main threads with id 1; every type, private or shared, and the robust recursive one; either process dies anywhere; one thread locks with try and timed, one with lock and try, one with timed; recursion to 2 | `OwnershipIsKnown`, `DamageIsTold`; `SurvivorsReturn` |
| `Cancel` | a target and 2 cancellers | `ForcedWhereAllowed`, `DeliveredRequestsEndIt` |
| `NamedSem` | 2 threads of a task and 1 of another; 2 names of which one begins the other; 2 files made; a task that has one open opens no more, though its two threads may open at once | `NamesAgree`, `LinkedIsWritten`, `MappedWhileOpen` |
| `SpecificData` | 2 threads, the main one and another; 6 keys in 3 blocks of 2, two of them the program's (one created twice, one once); 2 passes; 1 fork | `ValuesKeepToTheirKey`, `NothingDroppedEarly` |
| `AtFork` | 2 threads, 3 handlers | **violation** of `PreparedInReverse` |

The sequence numbers of barriers and condition variables do not wrap within the
bounds; their wrap-around (a sleeper that misses 2^32 rounds) is not modelled.

* `RwLock`: a timed call without its timeout, which nothing forces, is the plain one, so
  the threads' calls contain all six kinds, and each conflict of two kinds is between
  two different threads.
* `Semaphore` at its maximum of 1 has every post race the limit and every wait race zero.
  A wait is a timed one whose timeout never comes, and a malformed deadline differs from
  one that passes before the sleep in its `errno` only, so that they add no step.
* `CondVar`: the bounds let a signal and a broadcast, or a broadcast and the hook of an
  interruption, meet: one wakes a waiter, the other requeues two.
* `Lifecycle` needs three threads: one that ends, one that joins it, and one that
  detaches, joins or cancels either. Its application keeps to POSIX (`MayCall`): two
  threads do not make calls on the same thread at once, and nobody names a thread that
  was joined. A thread may name itself, and join one that is joining another, and a call
  may meet its thread anywhere between creation and end.
* `Mutex`: the types of a robust mutex differ only in what its owner is told, so one of
  them is there. `pthread_mutex_consistent` is called by an owner with a count of one.
  The ids of dead processes are not used again, and `pthread_mutex_destroy` is left out.
  After a torn look at the owner (see `torn` below) nothing is promised, and the
  constraint `NotTorn` stops there.
* `NamedSem`: a task that opens two names, and two that race for one, need no more than
  two files; a third would only repeat them.
* `SpecificData` keeps the proportion the code has between the sizes of the two levels,
  so that stepping by the wrong one (specific.c:142) leads both to a wrong key and
  beyond the array. Destructors set and get values; they do not create or delete keys.

Deadlock is checked where the program cannot stop. `Semaphore` and
`CondVar` may: their waiters rightly wait for a post or a signal that is never
made, and cancelled threads do not come back. `Lifecycle` may: the process ends, and
threads that join each other wait for ever, since the test for `EDEADLK` is not atomic
with the claim (join.c:49). `Cancel` and `SpecificData` end with their threads.
`Barrier` and `Once` end in states where all calls are made, which `Finished` and
`Exited` name.

**Fairness.** Weak fairness of each running thread (`Step(t)`, `OnceStep(t)`, `BarrierStep(t)`): the kernel schedules
runnable threads. Weak fairness of an owner's unlock in the locks, `Mutex` and
`CondVar`: the user of a lock gives it up; of `StartWait(t)` in `Barrier` alone: a barrier
is only of use to threads that all come. No fairness of timeouts, interruptions,
cancellation, deaths or new calls. In `Cancel`, a call of `pthread_cancel` runs on, the
target runs on but for its traps, which need not return, and it tests for requests
again and again when they are enabled (`SF`: it may disable them in between). These
locks are not fair: a running thread may take the lock before the woken one, again and
again. So `CallsReturn` and its kin say that calls return *once no new ones are made*:
either new calls are made again and again (`[]<><<NewCalls>>_vars`), or from some moment
on nobody is left in a call, which is what the code promises and still
excludes every lost wake-up.

**Exceptions named in the properties.** Where the code falls short of a property in one
narrow case, the property names the case instead of being weakened everywhere; remove the
name, and TLC shows the behaviour:

* `Abandoned` (`RwLock`): a timed reader that is queued is counted in `nrd` like an
  owner; the last reader's unlock takes it for one, and nobody hands the lock over when
  the deadline passes (rwlock.c:223).
* `leaked` (`CondVar`): an interrupted wait skips the decrement of `nw`, for the
  `continue` leads out of `do ... while (0)` (cond.c:169, 208, 315).
* `dropped` (`CondVar`): an interruptible wait that was woken, then finds itself
  cancelled, returns `EINTR` without the mutex (cond.c:335). If a broadcast had woken it
  and requeued others, these sleep on a free mutex until somebody contends for it.
* `Gone` (`Semaphore`): a waiter woken by `sem_post` and cancelled before it leaves the
  cancellation point keeps the wake-up to itself (sem.c:86; `cond.c` has code for the
  same case), one unit for each cancellation.
* `Leaked` (`Mutex`): a waiter that gets the word of an unrecoverable mutex returns
  `ENOTRECOVERABLE` and keeps the word (mutex.c:168).
* `Unsettled` and `torn` (`Mutex`): the thread id and the process that a thread compares
  may be those of two owners, if the fields change between its two loads or the heir
  of a dead owner has not stored its id yet (mutex.c:181).
* `Misled` (`SpecificData`): an end of thread that steps over a missing table compares
  with other keys (specific.c:142); a key deleted and created again between the
  comparison and the call of its destructor (specific.c:158); a value kept over a fork.
* `Torn` (`RwLock`): a thread that finds its own id in a shared lock and its own process
  beside it may have read them of two owners, for they are two loads and ids are numbered
  by each process for itself; it gets `EDEADLK` of a lock it does not own
  (rwlock.c:115-118). Excepted is a thread that saw two owners at its two loads, and no
  other: one that sees the same owner both times is never mistaken.
* `race` (`Lifecycle`) is which of three races befell a thread, and each property excepts
  the ones it names:
  * `missed`: pthread_detach looks at the flags of a thread that has read `detached_p` as
    0 and not yet set `PT_FLG_EXITING` (create.c:220-224). Neither frees the stack,
    against pthread.h:181. `DetachedIsFreed` excepts it.
  * `crossed`: a thread that pthread_exit has marked (exit.c:75), or that marks itself
    afterwards, reads `detached_p` as 1 while pthread_detach is still to look at the flags
    or waits (detach.c:33-41). The kernel frees the stack on which pthread_detach waits,
    for ever perhaps, or which it frees again. `StackOutlivesItsUsers` excepts it, and
    `WaitsEnd` such a detach.
  * `early`: pthread_timedjoin_np loads the id of a thread that has not begun, and takes
    the id which that gives itself for its end (join.c:107-112): it frees the stack of a
    thread that runs. `JoinedAfterTheEnd` and `StackOutlivesItsUsers` except it.

  The behaviours go on after a race: what is read of a descriptor that was freed is
  any value, and a thread that lost its stack goes on, which is one of the things it may do.
* `jumped` (`NamedSem`): without `O_EXCL`, sem_open looks the name up and, when there is no
  file, jumps over the initialiser of the new semaphore (sem.c:439): its flags and waiters
  are what the stack held, against sem.c:462. `LinkedIsWritten` excepts these files
  from having the contents of the initialiser, though not from being written before they
  can be found. What a wrong count of waiters does to later posts is not followed into
  `Semaphore`.
* In `Cancel`, a request that finds the target in transition but outside its trap leaves
  no `PT_FLG_CANCELLED` behind and is lost (cancel.c:174), though cancel.c:250 tells of
  requests that are handled at the next chance. A target that changes its own flags between
  the compare-and-swap and its suspension may be forced out, and the first half of
  `ForcedWhereAllowed` does not promise otherwise. The second half has no exception: who was
  found in a cancellation point is not redirected once its call has returned.

Two hazards are outside the properties rather than excepted: threads in excess of a
barrier's count do not leave in groups (barrier.c:81; `ExactGroups` claims their serial
threads only), and a waiter of a condition variable that has not registered yet is missed
by a broadcast (cond.c:154).

**What the violation shows.** `AtFork`: `prepare` handlers run in the order of
registration, the other two in reverse; fork.c:63 and pthread.h:206 say the opposite
(the finding of `PROJECT.json` quotes them).

**Divergences seen, not kept as runs.** With other constants of these models:

* `Barrier` with three threads on a barrier of two, a misuse the code tries to handle: the
  sequence number is read before the arrival is counted, and the `continue` for a full
  barrier leaves the loop (barrier.c:81, 104), so that `ReleasedInGroups` fails.
* `CondVar`: a broadcast between the unlock and the registration of a waiter reaches it no
  more (cond.c:154-159), though the broadcaster held the mutex.
* `Once` with `Reuse`: the tag of an ancestor whose pid was reused is taken for a thread of
  this process (once.c:75). A routine that forks runs again in the child beside itself
  (once.c:78; excluded by `ForksFrom`).

And while reading: `pthread_mutex_timedlock` of an error-checking shared mutex
looks at the thread id alone (mutex.c:331); the mutex remembered by a condition variable
is never forgotten (cond.c:151); an interruptible timed wait returns the result of
locking the mutex and never `ETIMEDOUT` (cond.c:337); `pthread_detach` of a thread that
has ended, but was not joined, returns `ESRCH` and leaves its stack (detach.c:29); a
robust timed lock reports a timeout when its polling slice is over
(lowlevellock.c:251); `sem_open` compares names up to the length of one of them, and finds a name that was
unlinked and created again in its list of mappings; a thread that is cancelled
asynchronously while it cancels another leaves that one suspended (cancel.c:161; the
cancellers of the model are not cancelled); handlers registered while a fork is under way
run their parent and child callbacks without having been prepared, and a child's list
is reset after its callbacks, so that its own children run none (fork.c:92-140).

## 4. What is proved

TLAPS checks the theorems for every value of the constants, under the assumptions
named in the modules that declare them (finite sets of threads where they are
counted, distinct thread ids in a process, known kinds of calls).

* **LowLevelLockProofs.** `MutexTheorem`: from `TypeOK` and `MutualExclusion` itself,
  which is inductive because it ties the word to the owner. `WakeupTheorem`:
  `NoLostWakeup` is inductive; the argument is by who changed: whoever makes the word
  anything but 2 is itself between unlock and wake, and whoever wakes a thread makes
  it the one that will store 2. `RefinementTheorem`: initial states and steps map to
  `AbstractLock` under the mapping of `Abs`; a refusal needs `MutualExclusion`, to know
  that a nonzero word means a holder.
* **RwLockProofs.** The inductive invariant `IInv` adds to `Exclusion` and
  `CountsAreExact` what each program location knows (`PcInv`: the values a pending
  compare-and-swap expects; `OwnerInv`: which of the fields an owner has set). It is
  needed because `CountsAreExact` alone does not say that a compare-and-swap on
  `(oid, nrd)` that succeeds has not skipped a change. From it follow `Exclusion` and
  `CountsAreExact`. `EdeadlkTheorem` (`EdeadlkOnlyToTheOwner`) rests on `EInv` over it, for
  private and shared locks alike: an id or a process that a thread finds to be its own is
  that of a writer it saw (`LookInv`; the process field may be 0 too, which is nobody's),
  and a writer with both is the thread itself, since ids differ in a process. `StrandedTheorem`
  (`NobodyElseStranded`) rests on a second invariant over the first, `QInv`: a thread
  sleeps only on a lock it saw taken (`FrameInv`); while readers own it, sleeping readers
  have a thread that broadcasts (`ReadersCalled`); while nobody does, sleeping writers and
  sleeping readers each have a thread that will take the lock or wake one of them
  (`WritersSeen`, `ReadersSeen`). The queued writers count as such threads for the
  readers: the last that gives up wakes them, which only the exactness of `qwr` shows.
* **SemaphoreProofs.** `IInv` adds to `WaitersCounted` what the loaded values may be
  (`TmpInv`), and that the value is what the results of the calls add up to.
  `NoLostWakeup` is then inductive: a unit is added together with a waker when somebody
  is registered, and a waker is spent on a thread that will look again, or that is
  cancelled and counted as gone. `RefinementTheorem` adds which calls are made at which
  locations (`CallInv`) and maps each step: the exchange that succeeds is the abstract
  `Post` or `Take`, the load that finds the limit a `Refuse`, all else a stutter.
* **CondVarProofs.** One invariant holds what two protocols over one word and one
  sequence need of each other: who owns the mutex follows from the program counter
  (`OwnersHold`), so that a waiter on its way back, which stores 2 without a test, stores
  over a 2 or a 0 it has seen; a requeued waiter has somebody who will store or wake
  (`QueuedOnMutexAreWoken`); and no notice is older than the sequence (`told <= seq`).
  `WaitersTheorem` counts with the library's facts on cardinality; an interrupted waiter
  never leaves the count, which `WaitersCounted` says too. `Bounded` is about the model's
  bound alone: every hook under way will raise the sequence.
* **LifecycleProofs.** `IInv` follows a descriptor from the claim of `joinpt` to the
  freeing of the stack: the claims and who holds them (`Claims`, `ClaimsHeld`), the marks
  of the exit (`Marks`), whether the kernel or a thread frees a detached stack, and what
  the detaching thread will read of that (`Detached`), who has freed (`FreesInv`), and
  that `__pthread_total` counts exactly those who may still act (`TotalInv`), without
  which the process could end under a call. `RaceInv` says when a race can have befallen a
  thread, so that a descriptor without one has kept all the rest; of one that was freed
  under its users the invariant promises only what the others need. Nothing is assumed
  of when calls come; `MayCall`, what POSIX asks of the application, is a guard of the model.
* **MutexProofs.** `Inv` holds as long as no thread took a torn look at the owner for its
  own. From taking the word to freeing it a thread is its only keeper, alive or named
  by the word (`WordInv`), so that the plain fields have one writer, and an id in
  `__owner_id` is a keeper's unless a dead owner left it (`OwnerIdInv`, `ShpidInv`,
  `CntInv`); a look at it that is not out of date still sees the id it saw (`LookInv`).
  `OwnershipTheorem` follows because an id and a process make a thread
  (`MutexAssumption`: ids differ within a process), `DamageTheorem` from `DamageInv`,
  which follows the mark of a dead owner from the word to `__owner_id` through takeovers.
  Needed of the constants: `NotRecoverable` is no thread's id and not 0.

* **NamedSemProofs.** A file belongs to the thread that made it up to the end of its call
  (`MakerInv`, with what each location of the call knows in `HandInv`), so that nobody
  writes to a file that has a name; garbage is in a file only if it is in `jumped`; a file has had one name at most, and keeps it until it
  is unlinked (`FileInv`), which is where `link_file` not replacing a file is needed. So a
  list, which has no two nodes for a name, has no two for a file either, and the
  references of a node are the opens of its file (`NodeInv`); without this `sem_close`,
  which takes the first node of an address, could be at the wrong one. A file is mapped
  once while it is open and once more while its maker is between `map_file` and
  `add_mapping` (`MapInv`), the two at once when another thread of the task was faster.
  `AskInv` ties the names that were given to the name of the file. Nothing is assumed of
  the constants but their types (`NamedSemAssumption`): there may be any number of
  threads, tasks, names and files.

* **PthreadsProofs** has four parts, independent of each other.

  *Once.* `OnceInv` says what the word means: tagged with this process's pid exactly while
  one thread runs the routine (`WordInv`), no ancestor's tag is this process's (`TagInv`),
  and who sleeps does so on a tag that will be replaced (`SleepInv`). The theorems assume
  `OrderlyForks`, that pids are not reused and that routines do not fork, the two cases in
  which the results are false.

  *Barriers.* `BarrierInv` counts with the cardinalities of sets of threads, which are
  finite (`BarrierAssumption`). `nrefs` is the number of calls inside, and one more until
  the destruction begins (`RefInv`); so the destroyer that reads zero finds nobody inside
  (`DestroyTheorem`). A release is under way exactly while the count is full, by one
  thread, and all the releases together used up `Count` arrivals each (`SerialInv`), for
  threads that arrive in excess of the count are not in `cnt`. With as many threads as the
  count, each is in the group that gathers or in the one before (`GroupInv`), so that the
  count fills only when all have come: `GroupsTheorem` needs it, since `SerialInv` alone
  would let a thread arrive twice in a group. Not assumed: a bound on the count.

  *Cancellation.* `CancelInv` says that a thread whose call has returned has forgotten its
  port (`PlaceInv`), which is how `in_cancelpoint_p` tells, and keeps what a canceller saw
  before it suspended the target (`SeenInv`): the target's own flags may have changed
  since, and the first half of `ForcedWhereAllowed` excepts it then.

  *Thread-specific data.* The odd numbers of the keys carry the argument. One thread at a
  time creates or deletes a key, and none one that the program holds (`KeyInv`): a
  compare-and-swap that succeeds takes an even number, and a number never comes back but
  by a fork. So an entry with the number of its key was stored for this incarnation, and
  the destructor of the key is in place by then (`Good`, in `ValueInv`): a value can be
  stored only after `pthread_key_create` has returned. `ScanInv` follows an entry from the
  table through the comparison to the call of the destructor, and says in which cases the
  two may part; `LeftInv` says that what the walk has passed is empty unless something
  was stored since, which is why a pass that ends without `specific_used` drops nothing.

Only model-checked: the liveness properties (TLAPS has no rules for fairness and
ENABLED that serve here), and `AtFork`, which is there for a violation.

## 5. What is not modelled, and the plan

Not planned: attributes, scheduling parameters, iteration (`np.c`), signal masks and
start-up are getters, setters and wrappers without a protocol; the spin lock is one
atomic exchange; assembly is taken at its word. The life of the memory of an object (a
semaphore destroyed by the thread that `sem_post` woke, sem.c:68; a mutex destroyed by
its last owner) is outside the models, but for the stacks of threads. `unregister_atfork`
never leaves a node of another object (its loop does not advance) and follows a link
that registration does not initialise. Of the life of threads, `Lifecycle` leaves out
the list of running threads, stacks supplied by the user (never freed), the failures of
`pt_allocate`, which leave no trace, calls made from the cleanup handlers and destructors
that run at the end of a thread, and joins of the main thread. Mappings of named
semaphores inherited by a forked child are not followed.

What is left, in order:

1. `TlsList`: the free list of TCBs and ABA. The blocks belong to the dynamic linker, and
   nothing but ABA can go wrong.
2. `RelTime`: the conversion of deadlines with 32-bit overflow.

An abstract specification still worth stating is a join that `Lifecycle` implements.
