------------------------------- MODULE NamedSem -------------------------------
(***************************************************************************)
(* Named semaphores, the second half of pthread/sem.c: sem_open, sem_close *)
(* and sem_unlink over the directory of semaphore files and each task's    *)
(* list of mapped semaphores.  Every call of a file server is a step and   *)
(* may fail; what is done under __mapped_sems_lock is one step.            *)
(*                                                                         *)
(* A semaphore is its file: no task maps a file twice in its list, so the  *)
(* file also stands for the address that sem_open returns.                 *)
(***************************************************************************)
EXTENDS Naturals, Sequences, FiniteSets, SequencesExt

CONSTANTS Threads, Tasks,
          task,         \* the task of each thread
          Names,
          NamePrefix,     \* the pairs of names of which the first begins the second
          MaxFiles,     \* bound: the files ever made
          MaxOpen       \* bound: a task that has so many open opens no more

NoFile == 0
Files == 1..MaxFiles

VARIABLES dir,          \* the file each name is linked to
          made,         \* the number of files made so far
          body,         \* the contents of each file: "initial", what sem_open
                        \* says a new semaphore is, or "garbage"
          list,         \* __mapped_sems of each task
          mapped,       \* the mappings of each file in each task
          pc, arg,      \* the next step of each thread, the call's name and flags
          fd,           \* the file a call has opened or made
          open,         \* history: the opens of each file that a task owes a close
          asked,        \* history: the names it gave for each file that it has open
          origin,       \* history: the name a file was linked to
          unlinked,     \* history: the files whose name was unlinked
          jumped        \* history: the files made past the jump over the initialiser

fileVars == <<dir, made, body, origin, unlinked, jumped>>
taskVars == <<list, mapped, open, asked>>
vars == <<fileVars, taskVars, pc, arg, fd>>

\* O_CREAT, and O_EXCL.
ASSUME NamedSemAssumption ==
  /\ task \in [Threads -> Tasks] /\ NamePrefix \subseteq Names \X Names
  /\ MaxFiles \in Nat /\ MaxOpen \in Nat

Modes == {"open", "creat", "excl"}

NoCall == [name |-> CHOOSE n \in Names : TRUE, mode |-> "open"]

Init == /\ dir = [n \in Names |-> NoFile] /\ made = 0
        /\ body = [i \in Files |-> "empty"]
        /\ list = [k \in Tasks |-> <<>>]
        /\ mapped = [k \in Tasks |-> [i \in Files |-> 0]]
        /\ pc = [t \in Threads |-> "out"]
        /\ arg = [t \in Threads |-> NoCall]
        /\ fd = [t \in Threads |-> NoFile]
        /\ open = [k \in Tasks |-> [i \in Files |-> 0]]
        /\ asked = [k \in Tasks |-> [i \in Files |-> {}]]
        /\ origin = [i \in Files |-> {}] /\ unlinked = {} /\ jumped = {}

-----------------------------------------------------------------------------

Move(t, l, m, f) == /\ pc[t] = l
                    /\ pc' = [pc EXCEPT ![t] = m]
                    /\ fd' = [fd EXCEPT ![t] = f]
                    /\ arg' = IF m = "out" THEN [arg EXCEPT ![t] = NoCall] ELSE arg

\* SEM_FAILED: every failure releases the file (file_data_fini).
Fail(t, l) == Move(t, l, "out", NoFile)

Map(t, i) == mapped' = [mapped EXCEPT ![task[t]][i] = @ + 1]
Unmap(t, i) == mapped' = [mapped EXCEPT ![task[t]][i] = @ - 1]

Opened(k) == {i \in Files : open[k][i] > 0}

\* sem_open of a valid name: with O_EXCL it is created, else looked for.
Open(t, n, m) == /\ pc[t] = "out"
                 /\ Cardinality(Opened(task[t])) < MaxOpen
                 /\ \A i \in Opened(task[t]) : open[task[t]][i] < MaxOpen
                 /\ arg' = [arg EXCEPT ![t] = [name |-> n, mode |-> m]]
                 /\ pc' = [pc EXCEPT ![t] = IF m = "excl" THEN "create" ELSE "lookup"]
                 /\ UNCHANGED <<fileVars, taskVars, fd>>

\* file_name_lookup: ENOENT leads to the creation, any other error fails.
Lookup(t) == LET i == dir[arg[t].name] IN
             /\ \/ i # NoFile /\ Move(t, "lookup", "add", i)
                \/ i = NoFile /\ arg[t].mode = "creat" /\ Move(t, "lookup", "create", NoFile)
                \/ Fail(t, "lookup")
             /\ UNCHANGED <<fileVars, taskVars>>

\* create_anon_file.
Create(t) == /\ \/ /\ made < MaxFiles /\ made' = made + 1
                   /\ Move(t, "create", "write", made + 1)
                \/ Fail(t, "create") /\ UNCHANGED made
             /\ UNCHANGED <<dir, body, origin, unlinked, jumped, taskVars>>

WriteLate(t) == /\ Move(t, "write", "map", fd[t])
                /\ UNCHANGED <<fileVars, taskVars>>

\* write_full of a copy on the stack: its value is set in any case; its flags
\* and its count of waiters, by the initialiser that the goto into this block,
\* taken when the name was not found, jumps over.  They are then whatever the
\* stack held, which may be anything.
Write(t) == /\ \/ /\ Move(t, "write", "map", fd[t])
                  /\ \/ body' = [body EXCEPT ![fd[t]] = "initial"]
                     \/ arg[t].mode = "creat" /\ body' = [body EXCEPT ![fd[t]] = "garbage"]
                  /\ jumped' = IF arg[t].mode = "creat" THEN jumped \cup {fd[t]} ELSE jumped
               \/ Fail(t, "write") /\ UNCHANGED <<body, jumped>>
            /\ UNCHANGED <<dir, made, origin, unlinked, taskVars>>

\* map_file.
MapNew(t) == /\ \/ Move(t, "map", "link", fd[t]) /\ Map(t, fd[t])
                \/ Fail(t, "map") /\ UNCHANGED mapped
             /\ UNCHANGED <<fileVars, list, open, asked>>

LinkOver(t) == LET n == arg[t].name IN
               /\ pc[t] = "link"
               /\ dir' = [dir EXCEPT ![n] = fd[t]]
               /\ origin' = [origin EXCEPT ![fd[t]] = {n}]
               /\ Move(t, "link", "addnew", fd[t]) /\ UNCHANGED mapped
               /\ UNCHANGED <<made, body, unlinked, jumped, list, open, asked>>

\* link_file, which never replaces a file.  If the name has one, or for any
\* other error, the new mapping is undone; EEXIST leads back to the lookup.
Link(t) == LET n == arg[t].name IN
           /\ pc[t] = "link"
           /\ \/ /\ dir[n] = NoFile
                 /\ dir' = [dir EXCEPT ![n] = fd[t]]
                 /\ origin' = [origin EXCEPT ![fd[t]] = {n}]
                 /\ Move(t, "link", "addnew", fd[t]) /\ UNCHANGED mapped
              \/ /\ Unmap(t, fd[t])
                 /\ \/ Fail(t, "link")
                    \/ /\ dir[n] # NoFile /\ arg[t].mode = "creat"
                       /\ Move(t, "link", "lookup", NoFile)
                 /\ UNCHANGED <<dir, origin>>
           /\ UNCHANGED <<made, body, unlinked, jumped, list, open, asked>>

\* The mappings that memcmp over the length of the name asked for finds; the
\* first one is taken.
Matches(t) == {j \in DOMAIN list[task[t]] : 
               LET n == list[task[t]][j].name IN n = arg[t].name \/ <<arg[t].name, n>> \in NamePrefix}

Hold(t, i) == /\ open' = [open EXCEPT ![task[t]][i] = @ + 1]
              /\ asked' = [asked EXCEPT ![task[t]][i] = @ \cup {arg[t].name}]

\* sem_close is given the address: the names are over with the last open.
Unhold(k, i) == /\ open[k][i] > 0
                /\ open' = [open EXCEPT ![k][i] = @ - 1]
                /\ asked' = [asked EXCEPT ![k][i] = IF open[k][i] = 1 THEN {} ELSE @]

\* add_mapping finds the semaphore in the list: one more reference.
Found(t) == \E j \in Matches(t) :
              /\ \A h \in Matches(t) : j <= h
              /\ list' = [list EXCEPT ![task[t]][j].refs = @ + 1]
              /\ Hold(t, list[task[t]][j].file)

\* It does not: a new node with its first reference.
NotFound(t) == /\ Matches(t) = {}
               /\ list' = [list EXCEPT ![task[t]] =
                             Append(@, [name |-> arg[t].name, file |-> fd[t], refs |-> 1])]
               /\ Hold(t, fd[t])

\* add_mapping for an existing file: it is mapped here if the list lacks it.
Add(t) == /\ Fail(t, "add")
          /\ \/ Found(t) /\ UNCHANGED mapped
             \/ NotFound(t) /\ Map(t, fd[t])
             \/ Matches(t) = {} /\ UNCHANGED <<list, open, asked, mapped>>
          /\ UNCHANGED fileVars

\* add_mapping for a file just made and mapped: a mapping that is not used, or
\* for which there is no memory, is undone afterwards.
AddNew(t) == /\ \/ Fail(t, "addnew") /\ NotFound(t)
                \/ /\ Move(t, "addnew", "drop", fd[t])
                   /\ \/ Found(t)
                      \/ Matches(t) = {} /\ UNCHANGED <<list, open, asked>>
             /\ UNCHANGED <<fileVars, mapped>>

Drop(t) == /\ Fail(t, "drop") /\ Unmap(t, fd[t])
           /\ UNCHANGED <<fileVars, list, open, asked>>

CloseAlways(t, i) ==
  LET k == task[t] IN
  /\ pc[t] = "out" /\ Unhold(k, i)
  /\ \E j \in DOMAIN list[k] :
       /\ list[k][j].file = i
       /\ list' = [list EXCEPT ![k] = RemoveAt(@, j)] /\ Unmap(t, i)
  /\ UNCHANGED <<fileVars, pc, arg, fd>>

\* sem_close of a semaphore the task has open; the last one unmaps it.
Close(t, i) ==
  LET k == task[t] IN
  /\ pc[t] = "out" /\ Unhold(k, i)
  /\ \E j \in DOMAIN list[k] :
       /\ list[k][j].file = i
       /\ IF list[k][j].refs = 1
          THEN list' = [list EXCEPT ![k] = RemoveAt(@, j)] /\ Unmap(t, i)
          ELSE list' = [list EXCEPT ![k][j].refs = @ - 1] /\ UNCHANGED mapped
  /\ UNCHANGED <<fileVars, pc, arg, fd>>

\* sem_unlink of a name that exists.
Unlink(t, n) == /\ pc[t] = "out" /\ dir[n] # NoFile
                /\ dir' = [dir EXCEPT ![n] = NoFile]
                /\ unlinked' = unlinked \cup {dir[n]}
                /\ UNCHANGED <<made, body, origin, jumped, taskVars, pc, arg, fd>>

-----------------------------------------------------------------------------

Next == \E t \in Threads :
          \/ \E n \in Names : Unlink(t, n) \/ \E m \in Modes : Open(t, n, m)
          \/ \E i \in Opened(task[t]) : Close(t, i)
          \/ Lookup(t) \/ Create(t) \/ Write(t) \/ MapNew(t) \/ Link(t)
          \/ Add(t) \/ AddNew(t) \/ Drop(t)

Spec == Init /\ [][Next]_vars

-----------------------------------------------------------------------------

Nodes(k) == {list[k][j] : j \in DOMAIN list[k]}

\* All tasks that opened a name have the semaphore that is linked to it now, or
\* one that was and has been unlinked: racing creations never give a name two
\* semaphores.  (Except a name that is a prefix of another, which is taken for
\* it.)
NamesAgree ==
  \A k \in Tasks : \A i \in Opened(k) : \A n \in asked[k][i] :
    \/ i = dir[n]
    \/ i \in unlinked /\ origin[i] = {n}
    \/ \E m \in Names \ {n} : <<n, m>> \in NamePrefix /\ origin[i] = {m}

\* The semaphores that a name finds, or that a task has open.
Usable == {i \in Files : \/ \E n \in Names : dir[n] = i
                         \/ \E k \in Tasks : i \in Opened(k)}

\* sem_open (sem.c:462): a backing file "must have the actual contents before it
\* can be used".  Whoever is still in the middle of creating it, a semaphore is
\* as it was initialised once a name finds it or a task has it open.  The code
\* fails this for a creation that jumped over the initialiser; the property
\* excuses the garbage of that creation, not an unwritten file.
LinkedIsWritten ==
  \A i \in Usable : body[i] = "initial" \/ (body[i] = "garbage" /\ i \in jumped)

\* The references of a mapped semaphore are the opens that were not closed, by
\* any thread and under any name, so that it stays mapped exactly as long;
\* and no path through sem_open, failing or not, leaves a mapping behind.
MappedWhileOpen ==
  \A k \in Tasks : \A i \in Files :
    LET nodes == {e \in Nodes(k) : e.file = i} IN
    /\ IF open[k][i] = 0 THEN nodes = {}
                         ELSE {e.refs : e \in nodes} = {open[k][i]} /\ mapped[k][i] >= 1
    /\ (\A t \in Threads : task[t] = k => pc[t] = "out") =>
         mapped[k][i] = Cardinality({j \in DOMAIN list[k] : list[k][j].file = i})
=============================================================================
