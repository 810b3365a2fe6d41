---------------------------- MODULE NamedSemProofs ----------------------------
(***************************************************************************)
(* For every number of threads, tasks, names and files: a name means one   *)
(* semaphore, which has its contents as soon as it can be found; and a     *)
(* task has a semaphore mapped once as long as it has it open, and once    *)
(* more while a thread of it is between map_file and add_mapping.          *)
(*                                                                         *)
(* A file belongs to the thread that made it up to the end of its call     *)
(* (MakerInv), so that nobody writes to a file that has a name; a file has *)
(* had one name at most, which it keeps until it is unlinked (FileInv);    *)
(* so a list has no two nodes for a file, since it has none for a name     *)
(* (NodeInv), and the reference count of a node is that of its opens.      *)
(***************************************************************************)
EXTENDS NamedSem, FiniteSetTheorems, SequenceTheorems, TLAPS

\* Between create_anon_file and the end of the call, and from map_file on.
MapPCs == {"link", "addnew", "drop"}
MakePCs == {"write", "map"} \cup MapPCs

PCs == {"out", "lookup", "create", "add"} \cup MakePCs

NodeType == [name : Names, file : Files, refs : Nat]

CallType == [name : Names \cup {NoCall.name}, mode : Modes]

FileTypes == /\ made \in 0..MaxFiles
             /\ dir \in [Names -> 0..MaxFiles] /\ \A n \in Names : dir[n] <= made
             /\ body \in [Files -> {"empty", "initial", "garbage"}] /\ jumped \subseteq Files
             /\ origin \in [Files -> SUBSET Names] /\ unlinked \subseteq 1..made

CallTypes == /\ pc \in [Threads -> PCs]
             /\ arg \in [Threads -> CallType]
             /\ \A t \in Threads : pc[t] # "out" => arg[t].name \in Names
             /\ fd \in [Threads -> 0..MaxFiles]
             /\ \A t \in Threads : fd[t] <= made

TaskTypes == /\ list \in [Tasks -> Seq(NodeType)]
             /\ mapped \in [Tasks -> [Files -> Nat]]
             /\ open \in [Tasks -> [Files -> Nat]]
             /\ asked \in [Tasks -> [Files -> SUBSET Names]]

TypeInv == FileTypes /\ CallTypes /\ TaskTypes

\* The one name that a file has had.
OneName(names, i, n) == names[i] = {n}

\* A file has one name at most, that finds it until it is unlinked, and has its
\* contents from then on, which are the initialiser's unless its creator jumped.
FileInv ==
  /\ \A n \in Names : dir[n] # NoFile => OneName(origin, dir[n], n)
  /\ \A i \in Files : \A n \in origin[i] : OneName(origin, i, n) /\ (dir[n] = i \/ i \in unlinked)
  /\ \A i \in Files : origin[i] # {} => body[i] # "empty"
  /\ \A i \in Files : body[i] = "garbage" => i \in jumped

\* What a call has in its hands: a file of its own, without a name up to the
\* link, or one that the lookup found.
HandInv(t) ==
  /\ pc[t] \in MakePCs \cup {"add"} => fd[t] # NoFile
  /\ pc[t] \in {"write", "map", "link"} => origin[fd[t]] = {}
  /\ pc[t] \in {"add", "addnew"} => OneName(origin, fd[t], arg[t].name)
  /\ pc[t] = "drop" => origin[fd[t]] # {}
  /\ pc[t] \in {"map", "link"} => body[fd[t]] # "empty"

MakerInv ==
  /\ \A t \in Threads : HandInv(t)
  /\ \A t, u \in Threads : t # u /\ pc[t] \in MakePCs /\ pc[u] \in MakePCs => fd[t] # fd[u]

\* A list has one node for a name, and one for each open file, with as many
\* references as opens; a node is for the one name its file has had.
Counts(l, opens, names) ==
  /\ \A j \in DOMAIN l : /\ OneName(names, l[j].file, l[j].name)
                         /\ l[j].refs = opens[l[j].file] /\ l[j].refs > 0
  /\ \A j, h \in DOMAIN l : l[j].name = l[h].name => j = h
  /\ \A i \in Files : opens[i] > 0 => \E j \in DOMAIN l : l[j].file = i

NodeInv == \A k \in Tasks : Counts(list[k], open[k], origin)

AskInv == \A k \in Tasks : \A i \in Files : \A n \in asked[k][i] :
            \E m \in Names : OneName(origin, i, m) /\ (m = n \/ <<n, m>> \in NamePrefix)

\* A thread of task k has mapped the file i that it made, and not yet passed it on.
Making(k, i) == \E t \in Threads : task[t] = k /\ fd[t] = i /\ pc[t] \in MapPCs

MapInv == \A k \in Tasks : \A i \in Files :
            mapped[k][i] = IF open[k][i] > 0 THEN IF Making(k, i) THEN 2 ELSE 1
                                             ELSE IF Making(k, i) THEN 1 ELSE 0

IInv == TypeInv /\ FileInv /\ MakerInv /\ NodeInv /\ AskInv /\ MapInv

-----------------------------------------------------------------------------

\* Every step is one thread's.
Act(t) == \/ \E n \in Names : Unlink(t, n) \/ \E m \in Modes : Open(t, n, m)
          \/ \E i \in Opened(task[t]) : Close(t, i)
          \/ Lookup(t) \/ Create(t) \/ Write(t) \/ MapNew(t) \/ Link(t)
          \/ Add(t) \/ AddNew(t) \/ Drop(t)

LEMMA Assumed == /\ Files = 1..MaxFiles /\ MaxFiles \in Nat /\ NoFile \notin Files
                 /\ task \in [Threads -> Tasks]
  BY NamedSemAssumption DEF NoFile, Files

\* RemoveAt closes the gap.
LEMMA Removed ==
  ASSUME NEW S, NEW s \in Seq(S), NEW j \in DOMAIN s
  PROVE  LET r == RemoveAt(s, j) IN
         /\ r \in Seq(S)
         /\ DOMAIN r = 1..(Len(s) - 1)
         /\ \A h \in DOMAIN r : r[h] = IF h < j THEN s[h] ELSE s[h + 1]
<1> DEFINE a == SubSeq(s, 1, j - 1)
           b == SubSeq(s, j + 1, Len(s))
<1>0. /\ DOMAIN s = 1..Len(s) /\ Len(s) \in Nat
      /\ \A i \in 1..Len(s) : s[i] \in S
  OBVIOUS
<1>1. /\ a \in Seq(S) /\ Len(a) = j - 1
      /\ \A i \in 1..(j - 1) : a[i] = s[i]
  <2>1. 1 \in Int /\ j - 1 \in Int /\ \A i \in 1..(j - 1) : s[i] \in S
    BY <1>0
  <2>2. /\ a \in Seq(S) /\ Len(a) = (IF 1 <= j - 1 THEN (j - 1) - 1 + 1 ELSE 0)
        /\ \A i \in 1..((j - 1) - 1 + 1) : a[i] = s[1 + i - 1]
    BY <2>1, SubSeqProperties
  <2> HIDE DEF a
  <2>3. \A i \in 1..(j - 1) : i \in 1..((j - 1) - 1 + 1) /\ 1 + i - 1 = i
    BY <1>0
  <2> QED BY <1>0, <2>2, <2>3
<1>2. /\ b \in Seq(S) /\ Len(b) = Len(s) - j
      /\ \A i \in 1..(Len(s) - j) : b[i] = s[j + i]
  <2>1. j + 1 \in Int /\ Len(s) \in Int /\ \A i \in (j + 1)..Len(s) : s[i] \in S
    BY <1>0
  <2>2. /\ b \in Seq(S) /\ Len(b) = (IF j + 1 <= Len(s) THEN Len(s) - (j + 1) + 1 ELSE 0)
        /\ \A i \in 1..(Len(s) - (j + 1) + 1) : b[i] = s[(j + 1) + i - 1]
    BY <2>1, SubSeqProperties
  <2> HIDE DEF b
  <2>3. \A i \in 1..(Len(s) - j) : i \in 1..(Len(s) - (j + 1) + 1) /\ (j + 1) + i - 1 = j + i
    BY <1>0
  <2> QED BY <1>0, <2>2, <2>3
<1> HIDE DEF a, b
<1>3. /\ a \o b \in Seq(S) /\ Len(a \o b) = Len(a) + Len(b)
      /\ \A i \in 1..(Len(a) + Len(b)) : (a \o b)[i] = IF i <= Len(a) THEN a[i] ELSE b[i - Len(a)]
  BY <1>1, <1>2, ConcatProperties
<1>4. RemoveAt(s, j) = a \o b
  BY DEF RemoveAt, a, b
<1> DEFINE r == a \o b
<1> HIDE DEF r
<1>5. r \in Seq(S) /\ Len(r) = Len(s) - 1
  BY <1>0, <1>1, <1>2, <1>3 DEF r
<1>6. DOMAIN r = 1..(Len(s) - 1)
  BY <1>5
<1>7. ASSUME NEW h \in 1..(Len(s) - 1) PROVE r[h] = IF h < j THEN s[h] ELSE s[h + 1]
  <2>1. r[h] = IF h <= j - 1 THEN a[h] ELSE b[h - (j - 1)]
    BY <1>0, <1>1, <1>2, <1>3 DEF r
  <2>2. CASE h < j
    BY <1>0, <1>1, <2>1, <2>2
  <2>3. CASE ~ h < j
    <3>1. h - (j - 1) \in 1..(Len(s) - j) /\ j + (h - (j - 1)) = h + 1
      BY <1>0, <2>3
    <3> QED BY <1>0, <1>2, <2>1, <2>3, <3>1
  <2> QED BY <2>2, <2>3
<1> QED BY <1>4, <1>5, <1>6, <1>7 DEF r

\* The nodes of a list are what the invariant says of it: the others stay.
LEMMA RemovedNodes ==
  ASSUME NEW S, NEW s \in Seq(S), NEW j \in DOMAIN s
  PROVE  LET r == RemoveAt(s, j) IN
         /\ r \in Seq(S)
         /\ \A h \in DOMAIN r : \E g \in DOMAIN s \ {j} : r[h] = s[g]
         /\ \A h1, h2 \in DOMAIN r : h1 # h2 =>
              \E g1, g2 \in DOMAIN s \ {j} : g1 # g2 /\ r[h1] = s[g1] /\ r[h2] = s[g2]
         /\ \A g \in DOMAIN s \ {j} : \E h \in DOMAIN r : r[h] = s[g]
<1> DEFINE r == RemoveAt(s, j)
           at(h) == IF h < j THEN h ELSE h + 1
<1>1. /\ r \in Seq(S) /\ DOMAIN r = 1..(Len(s) - 1)
      /\ \A h \in DOMAIN r : r[h] = IF h < j THEN s[h] ELSE s[h + 1]
  BY Removed
<1>2. DOMAIN s = 1..Len(s) /\ Len(s) \in Nat
  OBVIOUS
<1> HIDE DEF r
<1>3. \A h \in DOMAIN r : at(h) \in DOMAIN s \ {j} /\ r[h] = s[at(h)]
  BY <1>1, <1>2
<1>4. \A h1, h2 \in DOMAIN r : h1 # h2 => at(h1) # at(h2)
  BY <1>1, <1>2
<1>5. \A g \in DOMAIN s \ {j} : \E h \in DOMAIN r : r[h] = s[g]
  <2> SUFFICES ASSUME NEW g \in DOMAIN s \ {j} PROVE \E h \in DOMAIN r : r[h] = s[g]
    OBVIOUS
  <2>1. CASE g < j
    BY <1>1, <1>2, <2>1
  <2>2. CASE g > j
    <3>1. g - 1 \in DOMAIN r /\ r[g - 1] = s[g]
      BY <1>1, <1>2, <2>2
    <3> QED BY <3>1
  <2> QED BY <1>2, <2>1, <2>2
<1> HIDE DEF at
<1>6. \A h \in DOMAIN r : \E g \in DOMAIN s \ {j} : r[h] = s[g]
  BY <1>3
<1>7. \A h1, h2 \in DOMAIN r : h1 # h2 =>
        \E g1, g2 \in DOMAIN s \ {j} : g1 # g2 /\ r[h1] = s[g1] /\ r[h2] = s[g2]
  BY <1>3, <1>4
<1> QED BY <1>1, <1>5, <1>6, <1>7 DEF r

LEMMA InitIInv == Init => IInv
<1> SUFFICES ASSUME Init PROVE IInv
  OBVIOUS
<1> USE Assumed DEF Init
<1>1. TypeInv
  BY DEF TypeInv, FileTypes, CallTypes, TaskTypes, CallType, PCs, NoCall, Modes, NoFile, NodeType
<1>2. FileInv
  BY DEF FileInv, NoFile
<1>3. MakerInv
  BY DEF MakerInv, HandInv, MakePCs, MapPCs
<1>4. NodeInv
  BY DEF NodeInv, Counts
<1>5. AskInv
  BY DEF AskInv
<1>6. MapInv
  BY DEF MapInv, Making, MapPCs
<1> QED BY <1>1, <1>2, <1>3, <1>4, <1>5, <1>6 DEF IInv


-----------------------------------------------------------------------------
\* What add_mapping and sem_close do to a list.

LEMMA OneNodePerFile ==
  ASSUME NEW l \in Seq(NodeType), NEW o, NEW g, Counts(l, o, g),
         NEW j \in DOMAIN l, NEW h \in DOMAIN l, l[j].file = l[h].file
  PROVE  j = h
<1>1. {l[j].name} = {l[h].name}
  BY DEF Counts, OneName
<1>2. l[j].name = l[h].name
  BY <1>1
<1> QED BY <1>2 DEF Counts

LEMMA FoundCounts ==
  ASSUME NEW l \in Seq(NodeType), NEW o \in [Files -> Nat], NEW g, Counts(l, o, g),
         NEW j \in DOMAIN l
  PROVE  LET l2 == [l EXCEPT ![j].refs = @ + 1]
             o2 == [o EXCEPT ![l[j].file] = @ + 1]
         IN l2 \in Seq(NodeType) /\ o2 \in [Files -> Nat] /\ Counts(l2, o2, g)
<1> DEFINE l2 == [l EXCEPT ![j].refs = @ + 1]
           o2 == [o EXCEPT ![l[j].file] = @ + 1]
<1>1. /\ DOMAIN l2 = DOMAIN l /\ \A h \in DOMAIN l : l[h] \in NodeType
      /\ \A h \in DOMAIN l : h # j => l2[h] = l[h]
      /\ l2[j] = [l[j] EXCEPT !.refs = @ + 1]
  OBVIOUS
<1>2. l2[j] \in NodeType /\ l2[j].name = l[j].name /\ l2[j].file = l[j].file
      /\ l2[j].refs = l[j].refs + 1
  BY <1>1 DEF NodeType
<1>3. l2 \in Seq(NodeType)
  BY <1>1, <1>2
<1>4. /\ o2 \in [Files -> Nat] /\ o2[l[j].file] = o[l[j].file] + 1
      /\ \A i \in Files \ {l[j].file} : o2[i] = o[i]
  BY <1>1 DEF NodeType
<1>5. \A h \in DOMAIN l \ {j} : l[h].file # l[j].file
  BY OneNodePerFile
<1> HIDE DEF l2, o2
<1>6. \A h \in DOMAIN l : l2[h].name = l[h].name /\ l2[h].file = l[h].file
  BY <1>1, <1>2
<1>7. \A h \in DOMAIN l : l2[h].refs = o2[l[h].file] /\ l2[h].refs > 0
  <2> TAKE h \in DOMAIN l
  <2>1. l[h].file \in Files /\ l[h].refs \in Nat
    BY <1>1 DEF NodeType
  <2>2. CASE h = j
    BY <1>2, <1>4, <2>1, <2>2 DEF Counts
  <2>3. CASE h # j
    BY <1>1, <1>4, <1>5, <2>1, <2>3 DEF Counts
  <2> QED BY <2>2, <2>3
<1>8. ASSUME NEW i \in Files, o2[i] > 0 PROVE \E h \in DOMAIN l : l[h].file = i
  <2>1. CASE i = l[j].file
    BY <2>1
  <2>2. CASE i # l[j].file
    BY <1>4, <1>8, <2>2 DEF Counts
  <2> QED BY <2>1, <2>2
<1>9. Counts(l2, o2, g)
  <2>1. \A h \in DOMAIN l2 : OneName(g, l2[h].file, l2[h].name)
    BY <1>1, <1>6 DEF Counts
  <2>2. \A h \in DOMAIN l2 : l2[h].refs = o2[l2[h].file] /\ l2[h].refs > 0
    BY <1>1, <1>6, <1>7
  <2>3. \A f, h \in DOMAIN l2 : l2[f].name = l2[h].name => f = h
    BY <1>1, <1>6, Zenon DEF Counts
  <2>4. \A i \in Files : o2[i] > 0 => \E h \in DOMAIN l2 : l2[h].file = i
    BY <1>1, <1>6, <1>8
  <2> QED BY <2>1, <2>2, <2>3, <2>4 DEF Counts
<1> QED BY <1>3, <1>4, <1>9 DEF l2, o2

LEMMA DroppedCounts ==
  ASSUME NEW l \in Seq(NodeType), NEW o \in [Files -> Nat], NEW g, Counts(l, o, g),
         NEW j \in DOMAIN l, l[j].refs # 1
  PROVE  LET l2 == [l EXCEPT ![j].refs = @ - 1]
             o2 == [o EXCEPT ![l[j].file] = @ - 1]
         IN /\ l2 \in Seq(NodeType) /\ o2 \in [Files -> Nat] /\ Counts(l2, o2, g)
            /\ o[l[j].file] > 1
<1> DEFINE l2 == [l EXCEPT ![j].refs = @ - 1]
           o2 == [o EXCEPT ![l[j].file] = @ - 1]
<1>1. /\ DOMAIN l2 = DOMAIN l /\ \A h \in DOMAIN l : l[h] \in NodeType
      /\ \A h \in DOMAIN l : h # j => l2[h] = l[h]
      /\ l2[j] = [l[j] EXCEPT !.refs = @ - 1]
  OBVIOUS
<1>0. l[j].refs \in Nat /\ l[j].refs > 1 /\ o[l[j].file] = l[j].refs
  BY <1>1 DEF NodeType, Counts
<1>2. l2[j] \in NodeType /\ l2[j].name = l[j].name /\ l2[j].file = l[j].file
      /\ l2[j].refs = l[j].refs - 1
  BY <1>0, <1>1 DEF NodeType
<1>3. l2 \in Seq(NodeType)
  BY <1>1, <1>2
<1>4. /\ o2 \in [Files -> Nat] /\ o2[l[j].file] = o[l[j].file] - 1
      /\ \A i \in Files \ {l[j].file} : o2[i] = o[i]
  BY <1>0, <1>1 DEF NodeType
<1>5. \A h \in DOMAIN l \ {j} : l[h].file # l[j].file
  BY OneNodePerFile
<1> HIDE DEF l2, o2
<1>6. \A h \in DOMAIN l : l2[h].name = l[h].name /\ l2[h].file = l[h].file
  BY <1>1, <1>2
<1>7. \A h \in DOMAIN l : l2[h].refs = o2[l[h].file] /\ l2[h].refs > 0
  <2> TAKE h \in DOMAIN l
  <2>1. l[h].file \in Files /\ l[h].refs \in Nat
    BY <1>1 DEF NodeType
  <2>2. CASE h = j
    BY <1>0, <1>2, <1>4, <2>1, <2>2 DEF Counts
  <2>3. CASE h # j
    BY <1>1, <1>4, <1>5, <2>1, <2>3 DEF Counts
  <2> QED BY <2>2, <2>3
<1>8. ASSUME NEW i \in Files, o2[i] > 0 PROVE \E h \in DOMAIN l : l[h].file = i
  <2>1. CASE i = l[j].file
    BY <2>1
  <2>2. CASE i # l[j].file
    BY <1>4, <1>8, <2>2 DEF Counts
  <2> QED BY <2>1, <2>2
<1>9. Counts(l2, o2, g)
  <2>1. \A h \in DOMAIN l2 : OneName(g, l2[h].file, l2[h].name)
    BY <1>1, <1>6 DEF Counts
  <2>2. \A h \in DOMAIN l2 : l2[h].refs = o2[l2[h].file] /\ l2[h].refs > 0
    BY <1>1, <1>6, <1>7
  <2>3. \A f, h \in DOMAIN l2 : l2[f].name = l2[h].name => f = h
    BY <1>1, <1>6, Zenon DEF Counts
  <2>4. \A i \in Files : o2[i] > 0 => \E h \in DOMAIN l2 : l2[h].file = i
    BY <1>1, <1>6, <1>8
  <2> QED BY <2>1, <2>2, <2>3, <2>4 DEF Counts
<1> QED BY <1>0, <1>3, <1>4, <1>9 DEF l2, o2

LEMMA AddedCounts ==
  ASSUME NEW l \in Seq(NodeType), NEW o \in [Files -> Nat], NEW g, Counts(l, o, g),
         NEW e \in NodeType, e.refs = 1, OneName(g, e.file, e.name),
         \A j \in DOMAIN l : l[j].name # e.name
  PROVE  /\ Append(l, e) \in Seq(NodeType) /\ [o EXCEPT ![e.file] = @ + 1] \in [Files -> Nat]
         /\ Counts(Append(l, e), [o EXCEPT ![e.file] = @ + 1], g)
<1> DEFINE i == e.file
           n == e.name
           l2 == Append(l, e)
           o2 == [o EXCEPT ![i] = @ + 1]
<1>1. i \in Files /\ n \in Names /\ OneName(g, i, n) /\ e.refs = 1
      /\ e.file = i /\ e.name = n /\ \A j \in DOMAIN l : l[j].name # n
  BY DEF NodeType
<1> HIDE DEF i, n
<1>2. /\ l2 \in Seq(NodeType) /\ Len(l) \in Nat
      /\ DOMAIN l = 1..Len(l) /\ DOMAIN l2 = 1..(Len(l) + 1)
      /\ l2[Len(l) + 1] = e /\ \A h \in DOMAIN l : l2[h] = l[h]
  BY <1>1
<1>3. \A j \in DOMAIN l : l[j].file # i
  <2> SUFFICES ASSUME NEW j \in DOMAIN l, l[j].file = i PROVE FALSE
    OBVIOUS
  <2>1. {l[j].name} = {n}
    BY <1>1 DEF Counts, OneName
  <2> QED BY <1>1, <2>1
<1>4. o[i] = 0
  BY <1>1, <1>3 DEF Counts
<1>5. o2 \in [Files -> Nat] /\ o2[i] = 1 /\ \A f \in Files \ {i} : o2[f] = o[f]
  BY <1>1, <1>4
<1>6. \A h \in DOMAIN l : l[h] \in NodeType /\ l[h].file \in Files
  <2>1. \A h \in DOMAIN l : l[h] \in NodeType
    OBVIOUS
  <2> QED BY <2>1 DEF NodeType
<1> HIDE DEF l2, o2
<1>7. \A h \in DOMAIN l2 : h = Len(l) + 1 \/ h \in DOMAIN l
  BY <1>2
<1>8. \A h \in DOMAIN l2 : /\ OneName(g, l2[h].file, l2[h].name)
                           /\ l2[h].refs = o2[l2[h].file] /\ l2[h].refs > 0
  <2> TAKE h \in DOMAIN l2
  <2>1. CASE h = Len(l) + 1
    BY <1>1, <1>2, <1>5, <2>1
  <2>2. CASE h \in DOMAIN l
    <3>1. l2[h] = l[h] /\ l[h].file \in Files /\ o2[l[h].file] = o[l[h].file]
      BY <1>2, <1>3, <1>5, <1>6, <2>2
    <3>2. OneName(g, l[h].file, l[h].name) /\ l[h].refs = o[l[h].file] /\ l[h].refs > 0
      BY <2>2 DEF Counts
    <3> QED BY <3>1, <3>2
  <2> QED BY <1>7, <2>1, <2>2
<1>9. \A h, j \in DOMAIN l2 : l2[h].name = l2[j].name => h = j
  BY <1>1, <1>2, <1>7 DEF Counts
<1>10. ASSUME NEW f \in Files, o2[f] > 0 PROVE \E h \in DOMAIN l2 : l2[h].file = f
  <2>1. CASE f = i
    <3>1. Len(l) + 1 \in DOMAIN l2
      BY <1>2
    <3> QED BY <1>1, <1>2, <2>1, <3>1
  <2>2. CASE f # i
    <3>1. PICK h \in DOMAIN l : l[h].file = f
      BY <1>5, <1>10, <2>2 DEF Counts
    <3>2. h \in DOMAIN l2
      BY <1>2
    <3> QED BY <1>2, <3>1, <3>2
  <2> QED BY <2>1, <2>2
<1>11. Counts(l2, o2, g)
  BY <1>8, <1>9, <1>10 DEF Counts
<1> QED BY <1>2, <1>4, <1>5, <1>11 DEF l2, o2, i

LEMMA RemovedCounts ==
  ASSUME NEW l \in Seq(NodeType), NEW o \in [Files -> Nat], NEW g, Counts(l, o, g),
         NEW j \in DOMAIN l, l[j].refs = 1
  PROVE  LET l2 == RemoveAt(l, j)
             o2 == [o EXCEPT ![l[j].file] = @ - 1]
         IN /\ l2 \in Seq(NodeType) /\ o2 \in [Files -> Nat] /\ Counts(l2, o2, g)
            /\ o[l[j].file] = 1
<1> DEFINE l2 == RemoveAt(l, j)
           o2 == [o EXCEPT ![l[j].file] = @ - 1]
<1>1. /\ l2 \in Seq(NodeType)
      /\ \A h \in DOMAIN l2 : \E f \in DOMAIN l \ {j} : l2[h] = l[f]
      /\ \A h1, h2 \in DOMAIN l2 : h1 # h2 =>
           \E f1, f2 \in DOMAIN l \ {j} : f1 # f2 /\ l2[h1] = l[f1] /\ l2[h2] = l[f2]
      /\ \A f \in DOMAIN l \ {j} : \E h \in DOMAIN l2 : l2[h] = l[f]
  BY RemovedNodes
<1>2. \A h \in DOMAIN l : l[h] \in NodeType /\ l[h].file \in Files
  <2>1. \A h \in DOMAIN l : l[h] \in NodeType
    OBVIOUS
  <2> QED BY <2>1 DEF NodeType
<1>3. o[l[j].file] = 1
  BY DEF Counts
<1>4. o2 \in [Files -> Nat] /\ o2[l[j].file] = 0 /\ \A f \in Files \ {l[j].file} : o2[f] = o[f]
  BY <1>2, <1>3
<1>5. \A h \in DOMAIN l \ {j} : l[h].file # l[j].file
  BY OneNodePerFile
<1> HIDE DEF l2, o2
<1>6. ASSUME NEW h \in DOMAIN l2
      PROVE  /\ OneName(g, l2[h].file, l2[h].name)
             /\ l2[h].refs = o2[l2[h].file] /\ l2[h].refs > 0
  <2>1. PICK f \in DOMAIN l \ {j} : l2[h] = l[f]
    BY <1>1
  <2>2. OneName(g, l[f].file, l[f].name) /\ l[f].refs = o[l[f].file] /\ l[f].refs > 0
    BY DEF Counts
  <2>3. o2[l[f].file] = o[l[f].file]
    BY <1>2, <1>4, <1>5
  <2> QED BY <2>1, <2>2, <2>3
<1>7. ASSUME NEW h1 \in DOMAIN l2, NEW h2 \in DOMAIN l2, l2[h1].name = l2[h2].name PROVE h1 = h2
  <2>1. \A e, f \in DOMAIN l : l[e].name = l[f].name => e = f
    BY DEF Counts
  <2>2. CASE h1 # h2
    <3>1. PICK f1, f2 \in DOMAIN l \ {j} : f1 # f2 /\ l2[h1] = l[f1] /\ l2[h2] = l[f2]
      BY <1>1, <2>2
    <3>2. l[f1].name = l[f2].name
      BY <1>7, <3>1
    <3> QED BY <2>1, <3>1, <3>2
  <2> QED BY <2>2
<1>8. ASSUME NEW i \in Files, o2[i] > 0 PROVE \E h \in DOMAIN l2 : l2[h].file = i
  <2>1. i # l[j].file
    BY <1>4, <1>8
  <2>2. PICK f \in DOMAIN l : l[f].file = i
    BY <1>4, <1>8, <2>1 DEF Counts
  <2> QED BY <1>1, <2>1, <2>2
<1>9. Counts(l2, o2, g)
  BY <1>6, <1>7, <1>8 DEF Counts
<1> QED BY <1>1, <1>3, <1>4, <1>9 DEF l2, o2

-----------------------------------------------------------------------------
\* The files and the calls.

\* A step leaves the calls of other threads alone, and the arguments of its own.
LEMMA OthersStep ==
  ASSUME CallTypes, NEW t \in Threads, Act(t)
  PROVE  /\ \A u \in Threads \ {t} : pc'[u] = pc[u] /\ fd'[u] = fd[u] /\ arg'[u] = arg[u]
         /\ pc[t] # "out" /\ pc'[t] # "out" => arg'[t] = arg[t]
  BY DEF CallTypes, Act, Unlink, Open, Close, Lookup, Create, Write, MapNew, Link, Add, AddNew,
         Drop, Move, Fail, fileVars, taskVars

\* A step of a call starts it, takes it on with the file it has by then, or is a call of
\* its own.
Goes(t) == \E l \in PCs \ {"out"}, m \in PCs, f \in 0..MaxFiles : f <= made' /\ Move(t, l, m, f)

Starts(t) == \E n \in Names, m \in Modes, l \in {"lookup", "create"} :
               /\ arg' = [arg EXCEPT ![t] = [name |-> n, mode |-> m]]
               /\ pc' = [pc EXCEPT ![t] = l] /\ fd' = fd

LEMMA MoveStep ==
  ASSUME FileTypes, CallTypes, NEW t \in Threads, Act(t)
  PROVE  /\ Goes(t) \/ Starts(t) \/ UNCHANGED <<pc, arg, fd>>
         /\ made' \in made..MaxFiles
<1>0. /\ made \in 0..MaxFiles /\ fd[t] \in 0..MaxFiles /\ fd[t] <= made
      /\ \A n \in Names : dir[n] \in 0..MaxFiles /\ dir[n] <= made
      /\ pc[t] # "out" => arg[t].name \in Names
  BY DEF FileTypes, CallTypes
<1>1. made' \in made..MaxFiles
  BY <1>0, Assumed DEF Act, Unlink, Open, Close, Lookup, Create, Write, MapNew, Link, Add, AddNew, Drop,
                  fileVars, taskVars
<1>2. \A l \in PCs \ {"out"} : Fail(t, l) => Goes(t)
  BY <1>0, <1>1, Assumed DEF Fail, Goes, NoFile, PCs
<1>3. \A l \in PCs \ {"out"}, m \in PCs, f \in 0..MaxFiles : f <= made' /\ Move(t, l, m, f) => Goes(t)
  BY DEF Goes
<1>4. fd[t] <= made' /\ made' \in Nat /\ 0 \in 0..MaxFiles /\ 0 <= made'
  BY <1>0, <1>1, Assumed
<1>5. CASE \E n \in Names : Unlink(t, n)
  BY <1>1, <1>5 DEF Unlink
<1>6. CASE \E n \in Names, m \in Modes : Open(t, n, m)
  BY <1>1, <1>6 DEF Open, Starts
<1>7. CASE \E i \in Opened(task[t]) : Close(t, i)
  BY <1>1, <1>7 DEF Close
<1>8. CASE Lookup(t)
  <2>1. pc[t] = "lookup"
    BY <1>8 DEF Lookup, Move, Fail
  <2>2. dir[arg[t].name] \in 0..MaxFiles /\ dir[arg[t].name] <= made'
    BY <1>0, <1>1, <2>1
  <2> QED BY <1>1, <1>2, <1>3, <1>4, <1>8, <2>2 DEF Lookup, PCs, NoFile
<1>9. CASE Create(t)
  <2>1. CASE made < MaxFiles /\ made' = made + 1 /\ Move(t, "create", "write", made + 1)
    BY <1>0, <1>1, <1>3, <2>1, Assumed DEF PCs, MakePCs
  <2>2. CASE Fail(t, "create")
    BY <1>1, <1>2, <2>2 DEF PCs
  <2> QED BY <1>9, <2>1, <2>2 DEF Create
<1>10. CASE Write(t) \/ MapNew(t)
  BY <1>0, <1>1, <1>2, <1>3, <1>4, <1>10 DEF Write, MapNew, PCs, MakePCs, MapPCs
<1>11. CASE Link(t)
  BY <1>0, <1>1, <1>2, <1>3, <1>4, <1>11 DEF Link, PCs, MakePCs, MapPCs, NoFile
<1>12. CASE Add(t) \/ AddNew(t) \/ Drop(t)
  BY <1>0, <1>1, <1>2, <1>3, <1>4, <1>12 DEF Add, AddNew, Drop, PCs, MakePCs, MapPCs
<1> QED BY <1>5, <1>6, <1>7, <1>8, <1>9, <1>10, <1>11, <1>12 DEF Act

LEMMA CallStep ==
  ASSUME FileTypes, CallTypes, NEW t \in Threads, Act(t) PROVE CallTypes' /\ made' \in made..MaxFiles
<1>1. NoCall \in CallType
      /\ \A n \in Names, m \in Modes : /\ [name |-> n, mode |-> m] \in CallType
                                       /\ [name |-> n, mode |-> m].name \in Names
  BY DEF NoCall, CallType, Modes
<1>2. made' \in made..MaxFiles /\ made \in Nat /\ made' \in Nat
  BY MoveStep, Assumed DEF FileTypes
<1>3. CASE Goes(t)
  BY <1>1, <1>2, <1>3 DEF CallTypes, Goes, Move
<1>4. CASE Starts(t)
  BY <1>1, <1>2, <1>4 DEF CallTypes, Starts, PCs
<1>5. CASE UNCHANGED <<pc, arg, fd>>
  BY <1>2, <1>5 DEF CallTypes
<1> QED BY <1>2, <1>3, <1>4, <1>5, MoveStep

\* Only write_full changes the contents of a file, and only link_file names one:
\* both the one the thread has made.
LEMMA FileChange ==
  ASSUME FileTypes, CallTypes, MakerInv, NEW t \in Threads, Act(t)
  PROVE  /\ FileTypes'
         /\ \A i \in Files : body'[i] # body[i] =>
              pc[t] = "write" /\ i = fd[t] /\ body'[i] # "empty" /\ (body'[i] = "garbage" => i \in jumped')
         /\ \A i \in Files : origin'[i] # origin[i] =>
              /\ pc[t] = "link" /\ pc'[t] = "addnew" /\ i = fd[t]
              /\ OneName(origin', i, arg[t].name) /\ dir'[arg[t].name] = i
         /\ \A n \in Names : dir'[n] # dir[n] =>
              \/ dir[n] # NoFile /\ dir'[n] = NoFile /\ dir[n] \in unlinked'
              \/ dir[n] = NoFile /\ dir'[n] = fd[t] /\ n = arg[t].name /\ origin'[fd[t]] # origin[fd[t]]
         /\ unlinked \subseteq unlinked' /\ jumped \subseteq jumped'
<1>f. /\ pc[t] # "out" => arg[t].name \in Names
      /\ pc[t] \in {"write", "map", "link"} => fd[t] \in Files /\ fd[t] <= made /\ origin[fd[t]] = {}
  <2>1. fd[t] \in 0..MaxFiles /\ fd[t] <= made /\ (pc[t] # "out" => arg[t].name \in Names)
    BY DEF CallTypes
  <2>2. pc[t] \in {"write", "map", "link"} => fd[t] # NoFile /\ origin[fd[t]] = {}
    BY DEF MakerInv, HandInv, MakePCs, MapPCs
  <2> QED BY <2>1, <2>2, Assumed DEF NoFile
<1>m. made' \in made..MaxFiles
  BY MoveStep
<1> USE Assumed DEF FileTypes, CallTypes, NoFile, Move, Fail, fileVars, taskVars
<1>1. CASE \E n \in Names : Unlink(t, n)
  <2>1. PICK n \in Names : Unlink(t, n)
    BY <1>1
  <2>2. made' = made /\ body' = body /\ origin' = origin /\ jumped' = jumped
    BY <2>1 DEF Unlink
  <2>3. dir[n] \in 1..made /\ unlinked' = unlinked \cup {dir[n]}
    BY <2>1 DEF Unlink
  <2>4. dir' = [dir EXCEPT ![n] = 0]
    BY <2>1 DEF Unlink
  <2>5. dir' \in [Names -> 0..MaxFiles] /\ \A m \in Names : dir'[m] <= made
    BY <2>4
  <2> QED BY <2>2, <2>3, <2>4, <2>5
<1>2. CASE \E n \in Names, m \in Modes : Open(t, n, m)
  BY <1>2 DEF Open
<1>3. CASE \E i \in Opened(task[t]) : Close(t, i)
  BY <1>3 DEF Close
<1>4. CASE Lookup(t) \/ MapNew(t) \/ Add(t) \/ AddNew(t) \/ Drop(t)
  <2>1. UNCHANGED fileVars
    BY <1>4, Zenon DEF Lookup, MapNew, Add, AddNew, Drop, taskVars
  <2> QED BY <2>1 DEF fileVars
<1>5. CASE Create(t)
  BY <1>5 DEF Create
<1>6. CASE Write(t)
  BY <1>6, <1>f DEF Write
<1>7. CASE Link(t)
  <2>1. CASE /\ dir[arg[t].name] = NoFile
             /\ dir' = [dir EXCEPT ![arg[t].name] = fd[t]]
             /\ origin' = [origin EXCEPT ![fd[t]] = {arg[t].name}]
             /\ Move(t, "link", "addnew", fd[t])
    <3>1. pc[t] = "link" /\ pc'[t] = "addnew" /\ UNCHANGED <<made, body, unlinked, jumped>>
      BY <1>7, <2>1 DEF Link, CallTypes
    <3>2. fd[t] \in Files /\ fd[t] <= made /\ origin[fd[t]] = {} /\ arg[t].name \in Names
      BY <1>f, <3>1
    <3>3. origin'[fd[t]] = {arg[t].name} /\ \A i \in Files \ {fd[t]} : origin'[i] = origin[i]
      BY <2>1, <3>2
    <3>4. FileTypes'
      BY <2>1, <3>1, <3>2
    <3>5. {arg[t].name} # {}
      OBVIOUS
    <3> HIDE DEF FileTypes
    <3> QED BY <2>1, <3>1, <3>2, <3>3, <3>4, <3>5 DEF OneName, FileTypes
  <2>2. CASE UNCHANGED <<dir, origin>>
    BY <1>7, <2>2 DEF Link
  <2> QED BY <1>7, <2>1, <2>2 DEF Link
<1> QED BY <1>1, <1>2, <1>3, <1>4, <1>5, <1>6, <1>7 DEF Act

\* The name of a file stays.
LEMMA NamesStay ==
  ASSUME FileTypes, CallTypes, MakerInv, NEW t \in Threads, Act(t)
  PROVE  /\ \A i \in Files, n \in Names : OneName(origin, i, n) => OneName(origin', i, n)
         /\ \A i \in Files : origin[i] # {} => origin'[i] = origin[i]
<1>1. \A i \in Files : origin[i] # {} => origin'[i] = origin[i]
  <2> SUFFICES ASSUME NEW i \in Files, origin'[i] # origin[i] PROVE origin[i] = {}
    OBVIOUS
  <2> QED BY FileChange DEF MakerInv, HandInv
<1>2. ASSUME NEW i \in Files, NEW n \in Names, OneName(origin, i, n) PROVE OneName(origin', i, n)
  <2>1. origin[i] # {}
    BY <1>2 DEF OneName
  <2> QED BY <1>1, <1>2, <2>1 DEF OneName
<1> QED BY <1>1, <1>2

LEMMA FileStep ==
  ASSUME FileTypes, CallTypes, FileInv, MakerInv, NEW t \in Threads, Act(t) PROVE FileInv'
<1>1. FileTypes' /\ \A n \in Names : dir[n] # NoFile => dir[n] \in Files
  BY FileChange, Assumed DEF FileTypes, NoFile
<1>2. ASSUME NEW n \in Names, dir'[n] # NoFile PROVE OneName(origin', dir'[n], n)
  <2>1. CASE dir'[n] = dir[n]
    BY <1>1, <1>2, <2>1, NamesStay DEF FileInv
  <2>2. CASE dir'[n] # dir[n]
    <3>1. dir'[n] = fd[t] /\ n = arg[t].name /\ origin'[fd[t]] # origin[fd[t]]
      BY <1>2, <2>2, FileChange
    <3>2. fd[t] \in Files
      BY <1>1, <1>2, <3>1, Assumed DEF FileTypes, NoFile
    <3> QED BY <3>1, <3>2, FileChange
  <2> QED BY <2>1, <2>2
<1>3. ASSUME NEW i \in Files, NEW n \in origin'[i]
      PROVE  OneName(origin', i, n) /\ (dir'[n] = i \/ i \in unlinked')
  <2>1. CASE origin'[i] = origin[i]
    <3>1. n \in Names /\ OneName(origin, i, n) /\ (dir[n] = i \/ i \in unlinked)
      BY <2>1 DEF FileInv, FileTypes
    <3>2. OneName(origin', i, n)
      BY <2>1, <3>1 DEF OneName
    <3>3. i # NoFile
      BY Assumed
    <3> QED BY <3>1, <3>2, <3>3, FileChange
  <2>2. CASE origin'[i] # origin[i]
    <3>1. OneName(origin', i, arg[t].name) /\ dir'[arg[t].name] = i
      BY <2>2, FileChange
    <3>2. n = arg[t].name
      BY <3>1 DEF OneName
    <3> QED BY <3>1, <3>2
  <2> QED BY <2>1, <2>2
<1>4. ASSUME NEW i \in Files, origin'[i] # {} PROVE body'[i] # "empty"
  <2>1. body'[i] # body[i] => body'[i] # "empty"
    BY FileChange
  <2>2. origin'[i] # origin[i] => body[i] # "empty"
    BY FileChange DEF MakerInv, HandInv
  <2> QED BY <1>4, <2>1, <2>2 DEF FileInv
<1>5. ASSUME NEW i \in Files, body'[i] = "garbage" PROVE i \in jumped'
  BY <1>5, FileChange DEF FileInv
<1> QED BY <1>2, <1>3, <1>4, <1>5 DEF FileInv

\* What the thread that steps has in its hands.
LEMMA HandStep ==
  ASSUME FileTypes, CallTypes, FileInv, MakerInv, NEW t \in Threads, Act(t)
  PROVE  /\ pc'[t] \in MakePCs => \/ pc[t] \in MakePCs /\ fd'[t] = fd[t]
                                  \/ fd'[t] = made + 1 /\ made' = made + 1
         /\ HandInv(t)'
<1>1. /\ HandInv(t) /\ fd[t] \in 0..MaxFiles /\ fd[t] <= made /\ made \in 0..MaxFiles
      /\ pc \in [Threads -> PCs] /\ arg \in [Threads -> CallType] /\ fd \in [Threads -> 0..MaxFiles]
      /\ pc[t] # "out" => arg[t].name \in Names
  BY DEF MakerInv, HandInv, HandInv, CallTypes, FileTypes
<1>2. pc[t] \in MakePCs \cup {"add"} => fd[t] \in Files
  BY <1>1, Assumed DEF HandInv, NoFile
<1>3. CASE pc'[t] \in {"out", "lookup", "create"}
  BY <1>3 DEF HandInv, MakePCs, MapPCs
<1>4. CASE \E n \in Names : Unlink(t, n) \/ \E m \in Modes : Open(t, n, m)
  <2>1. pc'[t] \in {"out", "lookup", "create"}
    BY <1>1, <1>4 DEF Unlink, Open
  <2> QED BY <1>3, <2>1
<1>5. CASE \E i \in Opened(task[t]) : Close(t, i)
  <2>1. pc'[t] = "out"
    BY <1>1, <1>5 DEF Close
  <2> QED BY <1>3, <2>1
<1>6. CASE Lookup(t)
  <2>1. CASE dir[arg[t].name] # NoFile /\ Move(t, "lookup", "add", dir[arg[t].name])
    <3>1. /\ pc[t] = "lookup" /\ pc'[t] = "add" /\ fd'[t] = dir[arg[t].name] /\ arg'[t] = arg[t]
          /\ origin' = origin
      BY <1>1, <1>6, <2>1 DEF Move, Lookup, fileVars
    <3>2. OneName(origin, dir[arg[t].name], arg[t].name)
      BY <1>1, <2>1, <3>1 DEF FileInv
    <3> QED BY <2>1, <3>1, <3>2 DEF HandInv, MakePCs, MapPCs
  <2>2. CASE pc'[t] \in {"out", "create"}
    BY <1>3, <2>2
  <2> QED BY <1>1, <1>6, <2>1, <2>2 DEF Lookup, Fail, Move
<1>7. CASE Create(t)
  <2>1. CASE made < MaxFiles /\ made' = made + 1 /\ Move(t, "create", "write", made + 1)
    <3>1. pc'[t] = "write" /\ fd'[t] = made + 1 /\ origin' = origin
      BY <1>1, <1>7, <2>1 DEF Move, Create
    <3>2. made + 1 \in Files /\ made + 1 \notin 1..made
      BY <1>1, <2>1, Assumed
    <3>3. origin[made + 1] = {}
      <4> SUFFICES ASSUME NEW n \in origin[made + 1] PROVE FALSE
        OBVIOUS
      <4>1. n \in Names /\ (dir[n] = made + 1 \/ made + 1 \in unlinked)
        BY <3>2 DEF FileInv, FileTypes
      <4>2. dir[n] <= made /\ unlinked \subseteq 1..made
        BY <4>1 DEF FileTypes
      <4> QED BY <1>1, <3>2, <4>1, <4>2
    <3> QED BY <1>1, <2>1, <3>1, <3>2, <3>3, Assumed DEF HandInv, MakePCs, MapPCs
  <2>2. CASE pc'[t] = "out"
    BY <1>3, <2>2
  <2> QED BY <1>1, <1>7, <2>1, <2>2 DEF Create, Fail, Move
<1>8. CASE Write(t)
  <2>1. CASE Move(t, "write", "map", fd[t]) /\ body'[fd[t]] # "empty"
    <3>1. pc[t] = "write" /\ pc'[t] = "map" /\ fd'[t] = fd[t] /\ arg'[t] = arg[t] /\ origin' = origin
      BY <1>1, <1>8, <2>1 DEF Move, Write
    <3> QED BY <1>1, <1>2, <2>1, <3>1 DEF HandInv, MakePCs, MapPCs
  <2>2. CASE pc'[t] = "out"
    BY <1>3, <2>2
  <2>3. ASSUME Move(t, "write", "map", fd[t]), NEW b \in {"initial", "garbage"},
               body' = [body EXCEPT ![fd[t]] = b]
        PROVE  body'[fd[t]] # "empty"
    <3>1. fd[t] \in Files
      BY <1>2, <2>3 DEF Move, MakePCs
    <3> QED BY <2>3, <3>1 DEF FileTypes
  <2> QED BY <1>1, <1>8, <2>1, <2>2, <2>3 DEF Write, Fail, Move
<1>9. CASE MapNew(t)
  <2>1. CASE Move(t, "map", "link", fd[t])
    <3>1. pc[t] = "map" /\ pc'[t] = "link" /\ fd'[t] = fd[t] /\ arg'[t] = arg[t]
          /\ origin' = origin /\ body' = body
      BY <1>1, <1>9, <2>1 DEF Move, MapNew, fileVars
    <3> QED BY <1>1, <3>1 DEF HandInv, MakePCs, MapPCs
  <2>2. CASE pc'[t] = "out"
    BY <1>3, <2>2
  <2> QED BY <1>1, <1>9, <2>1, <2>2 DEF MapNew, Fail, Move
<1>10. CASE Link(t)
  <2>1. CASE /\ origin' = [origin EXCEPT ![fd[t]] = {arg[t].name}]
             /\ Move(t, "link", "addnew", fd[t])
    <3>1. pc[t] = "link" /\ pc'[t] = "addnew" /\ fd'[t] = fd[t] /\ arg'[t] = arg[t] /\ body' = body
      BY <1>1, <1>10, <2>1 DEF Move, Link
    <3>2. fd[t] \in Files
      BY <1>2, <3>1 DEF MakePCs, MapPCs
    <3>3. OneName(origin', fd[t], arg[t].name)
      BY <2>1, <3>2 DEF OneName, FileTypes
    <3> QED BY <1>1, <3>1, <3>2, <3>3 DEF HandInv, MakePCs, MapPCs
  <2>2. CASE pc'[t] \in {"out", "lookup"}
    BY <1>3, <2>2
  <2> QED BY <1>1, <1>10, <2>1, <2>2 DEF Link, Fail, Move
<1>11. CASE AddNew(t)
  <2>1. CASE Move(t, "addnew", "drop", fd[t])
    <3>1. pc[t] = "addnew" /\ pc'[t] = "drop" /\ fd'[t] = fd[t] /\ arg'[t] = arg[t]
          /\ origin' = origin /\ body' = body
      BY <1>1, <1>11, <2>1 DEF Move, AddNew, fileVars
    <3>2. origin[fd[t]] # {}
      BY <1>1, <3>1 DEF HandInv, OneName
    <3> QED BY <1>1, <3>1, <3>2 DEF HandInv, MakePCs, MapPCs
  <2>2. CASE pc'[t] = "out"
    BY <1>3, <2>2
  <2> QED BY <1>1, <1>11, <2>1, <2>2 DEF AddNew, Fail, Move
<1>12. CASE Add(t) \/ Drop(t)
  <2>1. pc'[t] = "out"
    BY <1>1, <1>12 DEF Add, Drop, Fail, Move
  <2> QED BY <1>3, <2>1
<1> QED BY <1>4, <1>5, <1>6, <1>7, <1>8, <1>9, <1>10, <1>11, <1>12 DEF Act

LEMMA MakerStep ==
  ASSUME FileTypes, CallTypes, FileInv, MakerInv, NEW t \in Threads, Act(t) PROVE MakerInv'
<1>1. ASSUME NEW u \in Threads \ {t} PROVE HandInv(u)'
  <2>1. /\ pc'[u] = pc[u] /\ fd'[u] = fd[u] /\ arg'[u] = arg[u] /\ HandInv(u)
        /\ fd[u] \in 0..MaxFiles
    BY OthersStep DEF MakerInv, CallTypes
  <2>2. pc[u] \in MakePCs \cup {"add"} => fd[u] \in Files
    BY <2>1, Assumed DEF HandInv, NoFile
  <2>3. pc[u] \in MakePCs => body'[fd[u]] = body[fd[u]] /\ origin'[fd[u]] = origin[fd[u]]
    <3> SUFFICES ASSUME pc[u] \in MakePCs, body'[fd[u]] # body[fd[u]] \/ origin'[fd[u]] # origin[fd[u]]
                 PROVE  FALSE
      OBVIOUS
    <3>1. pc[t] \in {"write", "link"} /\ fd[t] = fd[u]
      BY <2>2, FileChange
    <3>2. pc[t] \in MakePCs
      BY <3>1 DEF MakePCs, MapPCs
    <3> QED BY <3>1, <3>2 DEF MakerInv
  <2>4. pc[u] = "add" /\ OneName(origin, fd[u], arg[u].name) => OneName(origin', fd[u], arg[u].name)
    BY <2>2, NamesStay DEF OneName
  <2> QED BY <2>1, <2>2, <2>3, <2>4 DEF HandInv, MakePCs, MapPCs, OneName
<1>2. HandInv(t)'
  BY HandStep
<1>3. ASSUME NEW u \in Threads \ {t}, pc'[u] \in MakePCs, pc'[t] \in MakePCs PROVE fd'[t] # fd'[u]
  <2>1. pc'[u] = pc[u] /\ fd'[u] = fd[u] /\ fd[u] <= made /\ made \in Nat /\ fd[u] \in Nat
    BY OthersStep, Assumed DEF CallTypes, FileTypes
  <2> QED BY <1>3, <2>1, HandStep DEF MakerInv
<1>4. \A u \in Threads : HandInv(u)'
  BY <1>1, <1>2, Zenon
<1>5. \A u, v \in Threads : u # v /\ pc'[u] \in MakePCs /\ pc'[v] \in MakePCs => fd'[u] # fd'[v]
  <2> SUFFICES ASSUME NEW u \in Threads, NEW v \in Threads, u # v,
                      pc'[u] \in MakePCs, pc'[v] \in MakePCs
               PROVE  fd'[u] # fd'[v]
    OBVIOUS
  <2>1. CASE u = t \/ v = t
    BY <1>3, <2>1
  <2>2. CASE u # t /\ v # t
    BY <2>2, OthersStep DEF MakerInv
  <2> QED BY <2>1, <2>2
<1> QED BY <1>4, <1>5 DEF MakerInv

-----------------------------------------------------------------------------
\* The lists and the mappings.

ListTypes == /\ list \in [Tasks -> Seq(NodeType)]
             /\ open \in [Tasks -> [Files -> Nat]]
             /\ asked \in [Tasks -> [Files -> SUBSET Names]]

\* File i can be what the name n stands for: its own name is n, or n begins it.
Answers(i, n) == \E m \in Names : OneName(origin, i, m) /\ (m = n \/ <<n, m>> \in NamePrefix)

\* add_mapping has counted an open of file i, or sem_close has uncounted one.
Grown(t, i) ==
  /\ ListTypes' /\ \A k \in Tasks : Counts(list'[k], open'[k], origin)
  /\ \A k \in Tasks, f \in Files :
       /\ open'[k][f] = IF k = task[t] /\ f = i THEN open[k][f] + 1 ELSE open[k][f]
       /\ \A n \in asked'[k][f] : n \in asked[k][f] \/ (f = i /\ n = arg[t].name)
  /\ Answers(i, arg[t].name)

Shrunk(t, i) ==
  /\ ListTypes' /\ \A k \in Tasks : Counts(list'[k], open'[k], origin)
  /\ \A k \in Tasks, f \in Files :
       /\ open'[k][f] = IF k = task[t] /\ f = i THEN open[k][f] - 1 ELSE open[k][f]
       /\ asked'[k][f] \subseteq asked[k][f]

LEMMA FoundStep ==
  ASSUME TypeInv, NodeInv, NEW t \in Threads, pc[t] # "out", Found(t)
  PROVE  \E i \in Files : Grown(t, i) /\ open[task[t]][i] > 0
<1> DEFINE k == task[t]
<1>0. /\ k \in Tasks /\ list[k] \in Seq(NodeType) /\ open[k] \in [Files -> Nat]
      /\ Counts(list[k], open[k], origin) /\ arg[t].name \in Names
      /\ ListTypes
  BY Assumed DEF TypeInv, TaskTypes, CallTypes, NodeInv, ListTypes
<1>1. PICK j \in Matches(t) : /\ list' = [list EXCEPT ![k][j].refs = @ + 1]
                              /\ Hold(t, list[k][j].file)
  BY DEF Found
<1> DEFINE e == list[k][j]
           l2 == [list[k] EXCEPT ![j].refs = @ + 1]
           o2 == [open[k] EXCEPT ![e.file] = @ + 1]
<1>2. /\ j \in DOMAIN list[k] /\ e \in NodeType
      /\ e.name = arg[t].name \/ <<arg[t].name, e.name>> \in NamePrefix
  BY <1>0, <1>1 DEF Matches
<1>3. e.file \in Files /\ e.name \in Names /\ OneName(origin, e.file, e.name) /\ open[k][e.file] > 0
  BY <1>0, <1>2 DEF NodeType, Counts
<1>4. Answers(e.file, arg[t].name)
  BY <1>2, <1>3 DEF Answers
<1>5. l2 \in Seq(NodeType) /\ o2 \in [Files -> Nat] /\ Counts(l2, o2, origin)
  BY <1>0, <1>2, FoundCounts
<1>6. list' = [list EXCEPT ![k] = l2] /\ open' = [open EXCEPT ![k] = o2]
  BY <1>1 DEF Hold
<1>7. asked' = [asked EXCEPT ![k][e.file] = @ \cup {arg[t].name}]
  BY <1>1 DEF Hold
<1> HIDE DEF l2, k
<1>8. ListTypes' /\ \A f \in Tasks : Counts(list'[f], open'[f], origin)
  <2>1. list' \in [Tasks -> Seq(NodeType)] /\ open' \in [Tasks -> [Files -> Nat]]
    BY <1>0, <1>5, <1>6 DEF ListTypes
  <2>2. asked' \in [Tasks -> [Files -> SUBSET Names]]
    BY <1>0, <1>3, <1>7 DEF ListTypes
  <2>3. ASSUME NEW f \in Tasks PROVE Counts(list'[f], open'[f], origin)
    <3>1. CASE f = k
      BY <1>0, <1>5, <1>6, <3>1 DEF ListTypes
    <3>2. CASE f # k
      BY <1>0, <1>6, <3>2 DEF ListTypes, TypeInv, NodeInv
    <3> QED BY <3>1, <3>2
  <2> QED BY <2>1, <2>2, <2>3 DEF ListTypes
<1>9. ASSUME NEW h \in Tasks, NEW f \in Files
      PROVE  /\ open'[h][f] = IF h = k /\ f = e.file THEN open[h][f] + 1 ELSE open[h][f]
             /\ \A n \in asked'[h][f] : n \in asked[h][f] \/ (f = e.file /\ n = arg[t].name)
  BY <1>0, <1>3, <1>6, <1>7 DEF ListTypes
<1> QED BY <1>3, <1>4, <1>8, <1>9 DEF Grown, k

LEMMA NotFoundStep ==
  ASSUME TypeInv, NodeInv, NEW t \in Threads, pc[t] # "out", NotFound(t),
         fd[t] \in Files, OneName(origin, fd[t], arg[t].name)
  PROVE  Grown(t, fd[t]) /\ open[task[t]][fd[t]] = 0
<1> DEFINE k == task[t]
           i == fd[t]
           l2 == Append(list[k], [name |-> arg[t].name, file |-> i, refs |-> 1])
           o2 == [open[k] EXCEPT ![i] = @ + 1]
<1>0. /\ k \in Tasks /\ list[k] \in Seq(NodeType) /\ open[k] \in [Files -> Nat]
      /\ Counts(list[k], open[k], origin) /\ arg[t].name \in Names
      /\ ListTypes
  BY Assumed DEF TypeInv, TaskTypes, CallTypes, NodeInv, ListTypes
<1>1. \A j \in DOMAIN list[k] : list[k][j].name # arg[t].name
  BY DEF NotFound, Matches
<1>2. Answers(i, arg[t].name)
  BY <1>0 DEF Answers
<1>3. l2 \in Seq(NodeType) /\ o2 \in [Files -> Nat] /\ Counts(l2, o2, origin) /\ open[k][i] = 0
  <2> DEFINE e == [name |-> arg[t].name, file |-> i, refs |-> 1]
  <2>1. e \in NodeType /\ e.name = arg[t].name /\ e.file = i /\ e.refs = 1
    BY <1>0 DEF NodeType
  <2> HIDE DEF e
  <2>2. OneName(origin, e.file, e.name) /\ \A j \in DOMAIN list[k] : list[k][j].name # e.name
    BY <1>1, <2>1
  <2>3. /\ Append(list[k], e) \in Seq(NodeType) /\ [open[k] EXCEPT ![e.file] = @ + 1] \in [Files -> Nat]
        /\ Counts(Append(list[k], e), [open[k] EXCEPT ![e.file] = @ + 1], origin)
    <3> DEFINE l == list[k]
               o == open[k]
    <3>1. /\ l \in Seq(NodeType) /\ o \in [Files -> Nat] /\ Counts(l, o, origin)
          /\ \A j \in DOMAIN l : l[j].name # e.name
      BY <1>0, <2>2
    <3> HIDE DEF l, o
    <3>2. /\ Append(l, e) \in Seq(NodeType) /\ [o EXCEPT ![e.file] = @ + 1] \in [Files -> Nat]
          /\ Counts(Append(l, e), [o EXCEPT ![e.file] = @ + 1], origin)
      BY <2>1, <2>2, <3>1, AddedCounts
    <3> QED BY <3>2 DEF l, o
  <2>4. open[k][i] = 0
    <3> SUFFICES ASSUME open[k][i] # 0 PROVE FALSE
      OBVIOUS
    <3>0. open[k][i] > 0 /\ i \in Files
      BY <1>0
    <3>1. PICK j \in DOMAIN list[k] : list[k][j].file = i
      BY <1>0, <3>0, Zenon DEF Counts
    <3>2. OneName(origin, i, list[k][j].name)
      BY <1>0, <3>1 DEF Counts
    <3>3. list[k][j].name = arg[t].name
      BY <3>2 DEF OneName
    <3> QED BY <1>1, <3>3
  <2> QED BY <2>1, <2>3, <2>4 DEF e
<1>4. list' = [list EXCEPT ![k] = l2] /\ open' = [open EXCEPT ![k] = o2]
  BY DEF NotFound, Hold
<1>5. asked' = [asked EXCEPT ![k][i] = @ \cup {arg[t].name}]
  BY DEF NotFound, Hold
<1> HIDE DEF l2, k
<1>6. ListTypes' /\ \A f \in Tasks : Counts(list'[f], open'[f], origin)
  <2>1. list' \in [Tasks -> Seq(NodeType)] /\ open' \in [Tasks -> [Files -> Nat]]
    BY <1>0, <1>3, <1>4 DEF ListTypes
  <2>2. asked' \in [Tasks -> [Files -> SUBSET Names]]
    BY <1>0, <1>5 DEF ListTypes
  <2>3. ASSUME NEW f \in Tasks PROVE Counts(list'[f], open'[f], origin)
    <3>1. CASE f = k
      BY <1>0, <1>3, <1>4, <3>1 DEF ListTypes
    <3>2. CASE f # k
      BY <1>0, <1>4, <3>2 DEF ListTypes, TypeInv, NodeInv
    <3> QED BY <3>1, <3>2
  <2> QED BY <2>1, <2>2, <2>3 DEF ListTypes
<1>7. ASSUME NEW h \in Tasks, NEW f \in Files
      PROVE  /\ open'[h][f] = IF h = k /\ f = i THEN open[h][f] + 1 ELSE open[h][f]
             /\ \A n \in asked'[h][f] : n \in asked[h][f] \/ (f = i /\ n = arg[t].name)
  BY <1>0, <1>4, <1>5 DEF ListTypes
<1> QED BY <1>2, <1>3, <1>6, <1>7 DEF Grown, k

LEMMA CloseStep ==
  ASSUME TypeInv, NodeInv, NEW t \in Threads, NEW i \in Files, Close(t, i)
  PROVE  /\ Shrunk(t, i) /\ open[task[t]][i] > 0
         /\ IF open[task[t]][i] = 1 THEN Unmap(t, i) ELSE UNCHANGED mapped
<1> DEFINE k == task[t]
           o2 == [open[k] EXCEPT ![i] = @ - 1]
<1>0. /\ k \in Tasks /\ list[k] \in Seq(NodeType) /\ open[k] \in [Files -> Nat]
      /\ Counts(list[k], open[k], origin)
      /\ ListTypes
  BY Assumed DEF TypeInv, TaskTypes, NodeInv, ListTypes
<1>1. PICK j \in DOMAIN list[k] :
        /\ list[k][j].file = i
        /\ IF list[k][j].refs = 1
           THEN list' = [list EXCEPT ![k] = RemoveAt(@, j)] /\ Unmap(t, i)
           ELSE list' = [list EXCEPT ![k][j].refs = @ - 1] /\ UNCHANGED mapped
  BY DEF Close
<1>2. list[k][j].refs = open[k][i]
  BY <1>0, <1>1 DEF Counts
<1>3. PICK l2 : /\ list' = [list EXCEPT ![k] = l2]
                /\ l2 \in Seq(NodeType) /\ o2 \in [Files -> Nat] /\ Counts(l2, o2, origin)
                /\ open[k][i] > 0
  <2>1. CASE list[k][j].refs = 1
    BY <1>0, <1>1, <2>1, RemovedCounts
  <2>2. CASE list[k][j].refs # 1
    <3> DEFINE m2 == [list[k] EXCEPT ![j].refs = @ - 1]
    <3>1. /\ m2 \in Seq(NodeType) /\ o2 \in [Files -> Nat] /\ Counts(m2, o2, origin)
          /\ open[k][i] > 1
      BY <1>0, <1>1, <2>2, DroppedCounts
    <3>2. list' = [list EXCEPT ![k] = m2]
      BY <1>1, <2>2
    <3>3. open[k][i] > 0
      BY <1>0, <3>1
    <3> QED BY <3>1, <3>2, <3>3
  <2> QED BY <2>1, <2>2
<1>4. open' = [open EXCEPT ![k] = o2]
  BY DEF Close, Unhold
<1>5. asked' = [asked EXCEPT ![k][i] = IF open[k][i] = 1 THEN {} ELSE @]
  BY DEF Close, Unhold
<1> HIDE DEF k
<1>6. ListTypes' /\ \A f \in Tasks : Counts(list'[f], open'[f], origin)
  <2>1. list' \in [Tasks -> Seq(NodeType)] /\ open' \in [Tasks -> [Files -> Nat]]
    BY <1>0, <1>3, <1>4 DEF ListTypes
  <2>2. asked' \in [Tasks -> [Files -> SUBSET Names]]
    BY <1>0, <1>5 DEF ListTypes
  <2>3. ASSUME NEW f \in Tasks PROVE Counts(list'[f], open'[f], origin)
    <3>1. CASE f = k
      BY <1>0, <1>3, <1>4, <3>1 DEF ListTypes
    <3>2. CASE f # k
      BY <1>0, <1>3, <1>4, <3>2 DEF ListTypes, TypeInv, NodeInv
    <3> QED BY <3>1, <3>2
  <2> QED BY <2>1, <2>2, <2>3 DEF ListTypes
<1>7. ASSUME NEW h \in Tasks, NEW f \in Files
      PROVE  /\ open'[h][f] = IF h = k /\ f = i THEN open[h][f] - 1 ELSE open[h][f]
             /\ asked'[h][f] \subseteq asked[h][f]
  BY <1>0, <1>4, <1>5 DEF ListTypes
<1> QED BY <1>1, <1>2, <1>3, <1>6, <1>7 DEF Shrunk, k

\* The threads that have mapped a file of their own change by the one that steps.
LEMMA MakingStep ==
  ASSUME CallTypes, MakerInv, NEW t \in Threads, Act(t), NEW k \in Tasks, NEW i \in Files
  PROVE  /\ Making(k, i)' <=> \/ k = task[t] /\ fd'[t] = i /\ pc'[t] \in MapPCs
                              \/ Making(k, i) /\ ~ (k = task[t] /\ fd[t] = i /\ pc[t] \in MapPCs)
         /\ pc[t] \in MapPCs /\ k = task[t] /\ fd[t] = i => Making(k, i)
         /\ pc[t] = "map" /\ fd[t] = i => ~ Making(k, i)
<1>1. \A u \in Threads \ {t} : pc'[u] = pc[u] /\ fd'[u] = fd[u]
  BY OthersStep
<1>2. \A u \in Threads \ {t} : pc[t] \in MakePCs /\ pc[u] \in MapPCs => fd[u] # fd[t]
  BY DEF MakerInv, MakePCs
<1>3. MapPCs \subseteq MakePCs /\ "map" \in MakePCs /\ "map" \notin MapPCs
  BY DEF MakePCs, MapPCs
<1>4. Making(k, i)' <=> \E u \in Threads : task[u] = k /\ fd'[u] = i /\ pc'[u] \in MapPCs
  BY DEF Making
<1> QED BY <1>1, <1>2, <1>3, <1>4 DEF Making

LEMMA MapPoint ==
  ASSUME TaskTypes, NEW t \in Threads, NEW j \in Files, Map(t, j)
  PROVE  /\ mapped' \in [Tasks -> [Files -> Nat]]
         /\ \A k \in Tasks, i \in Files :
              mapped'[k][i] = IF k = task[t] /\ i = j THEN mapped[k][i] + 1 ELSE mapped[k][i]
<1>1. task[t] \in Tasks /\ mapped[task[t]][j] \in Nat /\ mapped[task[t]][j] + 1 \in Nat
  BY Assumed DEF TaskTypes
<1> QED BY <1>1 DEF TaskTypes, Map

LEMMA UnmapPoint ==
  ASSUME TaskTypes, NEW t \in Threads, NEW j \in Files, Unmap(t, j), mapped[task[t]][j] > 0
  PROVE  /\ mapped' \in [Tasks -> [Files -> Nat]]
         /\ \A k \in Tasks, i \in Files :
              mapped'[k][i] = IF k = task[t] /\ i = j THEN mapped[k][i] - 1 ELSE mapped[k][i]
<1>1. task[t] \in Tasks /\ mapped[task[t]][j] \in Nat /\ mapped[task[t]][j] - 1 \in Nat
  BY Assumed DEF TaskTypes
<1> QED BY <1>1 DEF TaskTypes, Unmap

\* A list without a change keeps its invariants, whatever is named meanwhile.
LEMMA ListKept ==
  ASSUME IInv, NEW t \in Threads, Act(t),
         \/ UNCHANGED <<list, open, asked>>
         \/ \E i \in Files : Grown(t, i) \/ Shrunk(t, i)
  PROVE  ListTypes' /\ NodeInv' /\ AskInv'
<1>0. FileTypes /\ CallTypes /\ MakerInv /\ ListTypes /\ NodeInv /\ AskInv
  BY DEF IInv, TypeInv, TaskTypes, ListTypes
<1>1. \A i \in Files, n \in Names : OneName(origin, i, n) => OneName(origin', i, n)
  BY <1>0, NamesStay
<1>2. ListTypes' /\ \A k \in Tasks : Counts(list'[k], open'[k], origin)
  BY <1>0 DEF ListTypes, NodeInv, Grown, Shrunk
<1>3. ASSUME NEW k \in Tasks PROVE Counts(list'[k], open'[k], origin')
  <2>1. \A j \in DOMAIN list'[k] : list'[k][j] \in NodeType
    BY <1>2 DEF ListTypes
  <2>2. \A j \in DOMAIN list'[k] : list'[k][j].file \in Files /\ list'[k][j].name \in Names
    BY <2>1 DEF NodeType
  <2> QED BY <1>1, <1>2, <2>2 DEF Counts
<1>4. ASSUME NEW k \in Tasks, NEW i \in Files, NEW n \in asked'[k][i] PROVE Answers(i, n)
  BY <1>0, <1>4 DEF AskInv, Answers, Grown, Shrunk
<1>5. ASSUME NEW k \in Tasks, NEW i \in Files, NEW n \in asked'[k][i]
      PROVE  \E m \in Names : OneName(origin', i, m) /\ (m = n \/ <<n, m>> \in NamePrefix)
  BY <1>1, <1>4 DEF Answers
<1> QED BY <1>2, <1>3, <1>5 DEF NodeInv, AskInv

\* What a step does to the mappings: nothing, or to the list; and it maps or unmaps a file
\* when it passes a file of its own on, gives it up, or counts its first or last open.
LEMMA TaskStep ==
  ASSUME IInv, NEW t \in Threads, Act(t) PROVE TaskTypes' /\ NodeInv' /\ AskInv' /\ MapInv'
<1>0. /\ FileTypes /\ CallTypes /\ TaskTypes /\ TypeInv /\ FileInv /\ MakerInv /\ NodeInv /\ MapInv
      /\ HandInv(t) /\ fd[t] \in 0..MaxFiles /\ task[t] \in Tasks
      /\ pc \in [Threads -> PCs] /\ fd \in [Threads -> 0..MaxFiles]
  BY Assumed DEF IInv, TypeInv, CallTypes, MakerInv
<1>1. /\ pc[t] \in MakePCs \cup {"add"} => fd[t] \in Files
      /\ pc[t] \in {"add", "addnew"} => OneName(origin, fd[t], arg[t].name)
  BY <1>0, Assumed DEF HandInv, NoFile
<1>2. SUFFICES /\ \/ UNCHANGED <<list, open, asked>>
                  \/ \E i \in Files : Grown(t, i) \/ Shrunk(t, i)
               /\ mapped' \in [Tasks -> [Files -> Nat]]
               /\ MapInv'
  BY ListKept DEF TaskTypes, ListTypes
<1> DEFINE Own(k, i) == k = task[t] /\ i = fd[t]
<1>3. \A k \in Tasks, i \in Files :
        /\ mapped[k][i] \in Nat /\ open[k][i] \in Nat
        /\ mapped[k][i] = IF open[k][i] > 0 THEN IF Making(k, i) THEN 2 ELSE 1
                                            ELSE IF Making(k, i) THEN 1 ELSE 0
  BY <1>0 DEF TaskTypes, MapInv
<1>4. ASSUME UNCHANGED mapped,
             \A k \in Tasks, i \in Files : open'[k][i] > 0 <=> open[k][i] > 0,
             pc[t] \in MapPCs <=> pc'[t] \in MapPCs, pc'[t] \in MapPCs => fd'[t] = fd[t]
      PROVE  MapInv' /\ mapped' \in [Tasks -> [Files -> Nat]]
  <2>1. \A k \in Tasks, i \in Files : Making(k, i)' <=> Making(k, i)
    BY <1>0, <1>4, MakingStep
  <2> QED BY <1>0, <1>3, <1>4, <2>1 DEF MapInv, TaskTypes
<1>5. CASE \/ \E n \in Names : Unlink(t, n) \/ \E m \in Modes : Open(t, n, m)
           \/ Lookup(t) \/ Create(t) \/ Write(t)
  <2>1. UNCHANGED <<list, open, asked, mapped>>
    BY <1>5 DEF Unlink, Open, Lookup, Create, Write, taskVars
  <2>2. pc[t] \notin MapPCs /\ pc'[t] \notin MapPCs
    BY <1>0, <1>5 DEF Unlink, Open, Lookup, Create, Write, Move, Fail, MapPCs
  <2> QED BY <1>4, <2>1, <2>2
<1>6. CASE \E i \in Opened(task[t]) : Close(t, i)
  <2>1. PICK i \in Files : Close(t, i)
    BY <1>6 DEF Opened
  <2>2. /\ Shrunk(t, i) /\ open[task[t]][i] > 0
        /\ IF open[task[t]][i] = 1 THEN Unmap(t, i) ELSE UNCHANGED mapped
    BY <1>0, <2>1, CloseStep
  <2>3. pc[t] \notin MapPCs /\ pc'[t] \notin MapPCs
    BY <1>0, <2>1 DEF Close, MapPCs
  <2>4. \A k \in Tasks, f \in Files :
          open'[k][f] = IF k = task[t] /\ f = i THEN open[k][f] - 1 ELSE open[k][f]
    BY <2>2 DEF Shrunk
  <2>5. CASE open[task[t]][i] = 1
    <3>1. mapped[task[t]][i] > 0
      BY <1>0, <1>3, <2>5
    <3>2. /\ mapped' \in [Tasks -> [Files -> Nat]]
          /\ \A k \in Tasks, f \in Files :
              mapped'[k][f] = IF k = task[t] /\ f = i THEN mapped[k][f] - 1 ELSE mapped[k][f]
      BY <1>0, <2>2, <2>5, <3>1, UnmapPoint
    <3>3. \A k \in Tasks, f \in Files : Making(k, f)' <=> Making(k, f)
      BY <1>0, <2>3, MakingStep
    <3> QED BY <1>3, <2>2, <2>4, <2>5, <3>2, <3>3 DEF MapInv
  <2>6. CASE open[task[t]][i] # 1
    <3>1. \A k \in Tasks, f \in Files : open'[k][f] > 0 <=> open[k][f] > 0
      BY <1>3, <2>2, <2>4, <2>6
    <3> QED BY <1>4, <2>2, <2>3, <2>6, <3>1
  <2> QED BY <2>5, <2>6
<1>7. CASE MapNew(t)
  <2>0. pc[t] = "map" /\ UNCHANGED <<list, open, asked>> /\ fd[t] \in Files
    BY <1>1, <1>7 DEF MapNew, Move, Fail, MakePCs
  <2>1. CASE Move(t, "map", "link", fd[t]) /\ Map(t, fd[t])
    <3>1. pc'[t] \in MapPCs /\ fd'[t] = fd[t] /\ pc[t] \notin MapPCs
      BY <1>0, <2>1 DEF Move, MapPCs
    <3>2. /\ mapped' \in [Tasks -> [Files -> Nat]]
          /\ \A k \in Tasks, i \in Files :
               mapped'[k][i] = IF Own(k, i) THEN mapped[k][i] + 1 ELSE mapped[k][i]
      BY <1>0, <2>0, <2>1, MapPoint
    <3>3. \A k \in Tasks, i \in Files : /\ Making(k, i)' <=> Own(k, i) \/ Making(k, i)
                                        /\ Own(k, i) => ~ Making(k, i)
      BY <1>0, <2>0, <3>1, MakingStep
    <3> QED BY <1>3, <2>0, <3>2, <3>3 DEF MapInv
  <2>2. CASE Fail(t, "map") /\ UNCHANGED mapped
    BY <1>0, <1>4, <2>0, <2>2 DEF Fail, Move, MapPCs
  <2> QED BY <1>7, <2>1, <2>2 DEF MapNew
\* The file of its own is given up, and its mapping undone.
<1>8. ASSUME pc[t] \in MapPCs, pc'[t] \notin MapPCs, Unmap(t, fd[t]), UNCHANGED open
      PROVE  MapInv' /\ mapped' \in [Tasks -> [Files -> Nat]]
  <2>1. fd[t] \in Files /\ \A k \in Tasks, i \in Files : Own(k, i) => Making(k, i)
    BY <1>0, <1>1, <1>8, MakingStep DEF MakePCs
  <2>2. mapped[task[t]][fd[t]] > 0
    BY <1>0, <1>3, <2>1
  <2>3. /\ mapped' \in [Tasks -> [Files -> Nat]]
        /\ \A k \in Tasks, i \in Files :
             mapped'[k][i] = IF Own(k, i) THEN mapped[k][i] - 1 ELSE mapped[k][i]
    BY <1>0, <1>8, <2>1, <2>2, UnmapPoint
  <2>4. \A k \in Tasks, i \in Files : Making(k, i)' <=> Making(k, i) /\ ~ Own(k, i)
    BY <1>0, <1>8, MakingStep
  <2> QED BY <1>3, <1>8, <2>1, <2>3, <2>4 DEF MapInv
<1>9. CASE Link(t)
  <2>0. pc[t] = "link" /\ pc[t] \in MapPCs /\ UNCHANGED <<list, open, asked>>
    BY <1>9 DEF Link, MapPCs
  <2>1. CASE Move(t, "link", "addnew", fd[t]) /\ UNCHANGED mapped
    BY <1>0, <1>4, <2>0, <2>1 DEF Move, MapPCs
  <2>2. CASE Unmap(t, fd[t]) /\ pc'[t] \in {"out", "lookup"}
    <3>1. pc'[t] \notin MapPCs
      BY <2>2 DEF MapPCs
    <3> QED BY <1>8, <2>0, <2>2, <3>1
  <2>3. Fail(t, "link") \/ Move(t, "link", "lookup", NoFile) => pc'[t] \in {"out", "lookup"}
    BY <1>0 DEF Fail, Move
  <2> QED BY <1>9, <2>1, <2>2, <2>3 DEF Link
<1>10. ASSUME Found(t), pc[t] # "out"
       PROVE  /\ \E i \in Files : Grown(t, i)
              /\ \A k \in Tasks, i \in Files : open'[k][i] > 0 <=> open[k][i] > 0
  <2>1. PICK i \in Files : Grown(t, i) /\ open[task[t]][i] > 0
    BY <1>0, <1>10, FoundStep
  <2>2. \A k \in Tasks, f \in Files :
          open'[k][f] = IF k = task[t] /\ f = i THEN open[k][f] + 1 ELSE open[k][f]
    BY <2>1 DEF Grown
  <2>3. \A k \in Tasks, f \in Files : open'[k][f] > 0 <=> open[k][f] > 0
    BY <1>3, <2>1, <2>2
  <2> QED BY <2>1, <2>3
<1>11. ASSUME NotFound(t), pc[t] \in {"add", "addnew"}
       PROVE  /\ Grown(t, fd[t]) /\ fd[t] \in Files /\ open[task[t]][fd[t]] = 0
              /\ \A k \in Tasks, i \in Files :
                   open'[k][i] = IF Own(k, i) THEN open[k][i] + 1 ELSE open[k][i]
  <2>1. fd[t] \in Files /\ OneName(origin, fd[t], arg[t].name) /\ pc[t] # "out"
    BY <1>1, <1>11 DEF MakePCs, MapPCs
  <2>2. Grown(t, fd[t]) /\ open[task[t]][fd[t]] = 0
    BY <1>0, <1>11, <2>1, NotFoundStep
  <2> QED BY <2>1, <2>2 DEF Grown
<1>12. CASE Add(t)
  <2>0. pc[t] = "add" /\ pc'[t] = "out" /\ pc[t] \notin MapPCs /\ pc'[t] \notin MapPCs
    BY <1>0, <1>12 DEF Add, Fail, Move, MapPCs
  <2>1. CASE Found(t) /\ UNCHANGED mapped
    BY <1>4, <1>10, <2>0, <2>1
  <2>2. CASE NotFound(t) /\ Map(t, fd[t])
    <3>1. /\ Grown(t, fd[t]) /\ fd[t] \in Files /\ open[task[t]][fd[t]] = 0
          /\ \A k \in Tasks, i \in Files :
               open'[k][i] = IF Own(k, i) THEN open[k][i] + 1 ELSE open[k][i]
      BY <1>11, <2>0, <2>2
    <3>2. /\ mapped' \in [Tasks -> [Files -> Nat]]
          /\ \A k \in Tasks, i \in Files :
               mapped'[k][i] = IF Own(k, i) THEN mapped[k][i] + 1 ELSE mapped[k][i]
      BY <1>0, <2>2, <3>1, MapPoint
    <3>3. \A k \in Tasks, i \in Files : Making(k, i)' <=> Making(k, i)
      BY <1>0, <2>0, MakingStep
    <3> QED BY <1>3, <3>1, <3>2, <3>3 DEF MapInv
  <2>3. CASE UNCHANGED <<list, open, asked, mapped>>
    BY <1>4, <2>0, <2>3
  <2> QED BY <1>12, <2>1, <2>2, <2>3 DEF Add
<1>13. CASE AddNew(t)
  <2>0. pc[t] = "addnew" /\ pc[t] \in MapPCs /\ UNCHANGED mapped
    BY <1>13 DEF AddNew, Fail, Move, MapPCs
  <2>1. CASE Fail(t, "addnew") /\ NotFound(t)
    <3>1. /\ Grown(t, fd[t]) /\ fd[t] \in Files /\ open[task[t]][fd[t]] = 0
          /\ \A k \in Tasks, i \in Files :
               open'[k][i] = IF Own(k, i) THEN open[k][i] + 1 ELSE open[k][i]
      BY <1>11, <2>0, <2>1
    <3>2. pc'[t] \notin MapPCs
      BY <1>0, <2>1 DEF Fail, Move, MapPCs
    <3>3. \A k \in Tasks, i \in Files : /\ Making(k, i)' <=> Making(k, i) /\ ~ Own(k, i)
                                        /\ Own(k, i) => Making(k, i)
      BY <1>0, <2>0, <3>2, MakingStep
    <3> QED BY <1>0, <1>3, <2>0, <3>1, <3>3 DEF MapInv, TaskTypes
  <2>2. CASE Move(t, "addnew", "drop", fd[t])
    <3>1. pc'[t] \in MapPCs /\ fd'[t] = fd[t]
      BY <1>0, <2>2 DEF Move, MapPCs
    <3>2. Found(t) \/ UNCHANGED <<list, open, asked>>
      BY <1>0, <1>13, <2>2 DEF AddNew, Fail, Move
    <3> QED BY <1>4, <1>10, <2>0, <3>1, <3>2
  <2> QED BY <1>13, <2>1, <2>2 DEF AddNew
<1>14. CASE Drop(t)
  <2>1. pc[t] \in MapPCs /\ pc'[t] \notin MapPCs
    BY <1>0, <1>14 DEF Drop, Fail, Move, MapPCs
  <2> QED BY <1>8, <1>14, <2>1 DEF Drop
<1> QED BY <1>5, <1>6, <1>7, <1>9, <1>12, <1>13, <1>14 DEF Act

-----------------------------------------------------------------------------

LEMMA NextIInv == IInv /\ [Next]_vars => IInv'
<1> SUFFICES ASSUME IInv, [Next]_vars PROVE IInv'
  OBVIOUS
<1>1. ASSUME NEW t \in Threads, Act(t) PROVE IInv'
  <2>1. FileTypes /\ CallTypes /\ FileInv /\ MakerInv
    BY DEF IInv, TypeInv
  <2>2. FileTypes' /\ CallTypes' /\ FileInv' /\ MakerInv'
    BY <1>1, <2>1, FileChange, CallStep, FileStep, MakerStep
  <2>3. TaskTypes' /\ NodeInv' /\ AskInv' /\ MapInv'
    BY <1>1, TaskStep
  <2> QED BY <2>2, <2>3 DEF IInv, TypeInv
<1>2. CASE UNCHANGED vars
  <2>1. TypeInv'
    BY <1>2 DEF vars, fileVars, taskVars, IInv, TypeInv, FileTypes, CallTypes, TaskTypes
  <2>2. FileInv' /\ NodeInv' /\ AskInv'
    BY <1>2 DEF vars, fileVars, taskVars, IInv, FileInv, NodeInv, AskInv
  <2>3. MakerInv'
    BY <1>2 DEF vars, fileVars, taskVars, IInv, MakerInv, HandInv
  <2>4. MapInv'
    BY <1>2 DEF vars, fileVars, taskVars, IInv, MapInv, Making
  <2> QED BY <2>1, <2>2, <2>3, <2>4 DEF IInv
<1> QED BY <1>1, <1>2 DEF Next, Act

\* sem_open: all that open a name have the semaphore it is linked to, or one that was
\* and is unlinked, or one whose name it begins.
THEOREM NamesTheorem == Spec => []NamesAgree
<1>1. IInv => NamesAgree
  <2> SUFFICES ASSUME IInv, NEW k \in Tasks, NEW i \in Opened(k), NEW n \in asked[k][i]
               PROVE  \/ i = dir[n]
                      \/ i \in unlinked /\ origin[i] = {n}
                      \/ \E m \in Names \ {n} : <<n, m>> \in NamePrefix /\ origin[i] = {m}
    BY DEF NamesAgree
  <2>1. PICK m \in Names : OneName(origin, i, m) /\ (m = n \/ <<n, m>> \in NamePrefix)
    BY DEF IInv, AskInv, Opened
  <2>2. origin[i] = {m} /\ i \in Files
    BY <2>1 DEF OneName, Opened
  <2>3. dir[m] = i \/ i \in unlinked
    BY <2>2 DEF IInv, FileInv
  <2> QED BY <2>1, <2>2, <2>3
<1> QED BY <1>1, InitIInv, NextIInv, PTL DEF Spec

\* write_full comes before link_file: what a name leads to, or a task has open, has its
\* contents, though other threads create it at the same time or fail to.  They are what
\* the initialiser says, but for a creation that jumped over it.
THEOREM WrittenTheorem == Spec => []LinkedIsWritten
<1>1. IInv => LinkedIsWritten
  <2> SUFFICES ASSUME IInv, NEW i \in Usable
               PROVE  body[i] = "initial" \/ (body[i] = "garbage" /\ i \in jumped)
    BY DEF LinkedIsWritten
  <2>1. i \in Files
    BY DEF Usable
  <2>2. /\ body[i] \in {"empty", "initial", "garbage"}
        /\ origin[i] # {} => body[i] # "empty"
        /\ body[i] = "garbage" => i \in jumped
    BY <2>1 DEF IInv, TypeInv, FileTypes, FileInv
  <2>3. CASE \E n \in Names : dir[n] = i
    <3>1. PICK n \in Names : dir[n] = i
      BY <2>3
    <3>2. OneName(origin, i, n)
      BY <2>1, <3>1, Assumed DEF IInv, FileInv
    <3> QED BY <2>1, <2>2, <3>2 DEF OneName
  <2>4. CASE \E k \in Tasks : i \in Opened(k)
    <3>1. PICK k \in Tasks : open[k][i] > 0
      BY <2>4 DEF Opened
    <3>2. PICK j \in DOMAIN list[k] : OneName(origin, i, list[k][j].name)
      BY <2>1, <3>1 DEF IInv, NodeInv, Counts
    <3> QED BY <2>1, <2>2, <3>2 DEF OneName
  <2> QED BY <2>3, <2>4 DEF Usable
<1> QED BY <1>1, InitIInv, NextIInv, PTL DEF Spec

\* add_mapping and sem_close: a semaphore is in the list and mapped as long as the opens
\* outnumber the closes, and no call leaves another mapping behind.
THEOREM MappedTheorem == Spec => []MappedWhileOpen
<1>1. IInv => MappedWhileOpen
  <2> SUFFICES ASSUME IInv, NEW k \in Tasks, NEW i \in Files
               PROVE  LET nodes == {e \in Nodes(k) : e.file = i} IN
                      /\ IF open[k][i] = 0 THEN nodes = {}
                         ELSE {e.refs : e \in nodes} = {open[k][i]} /\ mapped[k][i] >= 1
                      /\ (\A t \in Threads : task[t] = k => pc[t] = "out") =>
                           mapped[k][i] = Cardinality({j \in DOMAIN list[k] : list[k][j].file = i})
    BY DEF MappedWhileOpen
  <2> DEFINE nodes == {e \in Nodes(k) : e.file = i}
             refs == {e.refs : e \in nodes}
             places == {j \in DOMAIN list[k] : list[k][j].file = i}
             idle == \A t \in Threads : task[t] = k => pc[t] = "out"
  <2>1. /\ list[k] \in Seq(NodeType) /\ open[k][i] \in Nat /\ Counts(list[k], open[k], origin)
        /\ mapped[k][i] = IF open[k][i] > 0 THEN IF Making(k, i) THEN 2 ELSE 1
                                            ELSE IF Making(k, i) THEN 1 ELSE 0
    BY DEF IInv, TypeInv, TaskTypes, NodeInv, MapInv
  <2>2. nodes = {list[k][j] : j \in places}
    BY DEF Nodes
  <2>3. \A j \in places : list[k][j].refs = open[k][i] /\ open[k][i] > 0
    BY <2>1 DEF Counts
  <2>4. idle => ~ Making(k, i)
    BY DEF Making, MapPCs
  <2>7. (open[k][i] = 0 \/ open[k][i] > 0) /\ ~ (open[k][i] = 0 /\ open[k][i] > 0)
    BY <2>1
  <2> HIDE DEF nodes, places, idle
  <2>5. ASSUME open[k][i] = 0 PROVE nodes = {} /\ (idle => mapped[k][i] = Cardinality(places))
    <3>1. places = {}
      BY <2>3, <2>5
    <3>2. nodes = {} /\ Cardinality(places) = 0
      BY <2>2, <3>1, FS_EmptySet
    <3> QED BY <2>1, <2>4, <2>5, <3>2
  <2>6. ASSUME open[k][i] > 0
        PROVE  refs = {open[k][i]} /\ mapped[k][i] >= 1 /\ (idle => mapped[k][i] = Cardinality(places))
    <3>1. PICK j \in DOMAIN list[k] : list[k][j].file = i
      BY <2>1, <2>6 DEF Counts
    <3>2. places = {j}
      BY <2>1, <3>1, OneNodePerFile DEF places
    <3>3. nodes = {list[k][j]}
      BY <2>2, <3>2
    <3>4. refs = {open[k][i]}
      BY <2>3, <3>2, <3>3
    <3>5. Cardinality(places) = 1
      BY <3>2, FS_Singleton
    <3>6. mapped[k][i] >= 1 /\ (idle => mapped[k][i] = 1)
      BY <2>1, <2>4, <2>6
    <3> HIDE DEF refs
    <3> QED BY <3>4, <3>5, <3>6
  <2> HIDE DEF refs
  <2> QED BY <2>5, <2>6, <2>7, Zenon DEF nodes, places, idle, refs
<1> QED BY <1>1, InitIInv, NextIInv, PTL DEF Spec
===============================================================================
