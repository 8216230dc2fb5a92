---------------------------- MODULE AtomicFileProofs ----------------------------
(***************************************************************************)
(* Proofs about AtomicFile, for any number of goroutines and of clients.   *)
(***************************************************************************)
EXTENDS AtomicFile, TLAPS

\* The writer at work holds the mutex, and the temporary file is its own.
WorkOK ==
    \A w \in Writers :
        /\ pc[w] # "idle" => fileMutex[ManagerOf[w]] = w
        /\ pc[w] = "write" => temp \in Inodes /\ fd[w] = temp /\ content[temp] = Empty
        /\ pc[w] = "rename" => temp \in Inodes /\ content[temp] = w

\* Writers at work belong to one client.
OneClientAtWork ==
    \A v, w \in Writers : pc[v] # "idle" /\ pc[w] # "idle" => ManagerOf[v] = ManagerOf[w]

Inv == TypeOK /\ (~overlapped => WorkOK /\ OneClientAtWork /\ FileWhole)

\* Of one client, with its mutex, one writer works at a time.
LEMMA OneAtWork ==
    ASSUME Inv, ~overlapped,
           NEW v \in Writers, NEW w \in Writers, pc[v] # "idle", pc[w] # "idle"
    PROVE  v = w
  BY DEF Inv, WorkOK, OneClientAtWork

LEMMA InitOK == Init => Inv
  BY FileAssumption DEF Init, Inv, TypeOK, WorkOK, OneClientAtWork, FileWhole

LEMMA NextOK == Inv /\ [Next]_vars => Inv'
  <1> SUFFICES ASSUME Inv, [Next]_vars PROVE Inv'
    OBVIOUS
  <1> USE FileAssumption
  <1> DEFINE Safe == WorkOK /\ OneClientAtWork /\ FileWhole
  <1>1. ASSUME NEW w \in Writers, Lock(w)
        PROVE  Inv'
    <2>1. TypeOK'
      BY <1>1 DEF Lock, Inv, TypeOK
    <2>2. ASSUME ~overlapped' PROVE Safe'
      <3>1. ~overlapped /\ ~Overlaps(w)
        BY <1>1, <2>2 DEF Lock
      <3>2. \A v \in Writers : pc[v] = "idle"
        BY <1>1, <3>1 DEF Lock, Overlaps, Inv, WorkOK
      <3> QED
        BY <1>1, <3>1, <3>2
        DEF Lock, Inv, TypeOK, WorkOK, OneClientAtWork, FileWhole
    <2> QED
      BY <2>1, <2>2 DEF Inv
  <1>2. ASSUME NEW w \in Writers, NEW i \in Inodes, OpenTemp(w, i)
        PROVE  Inv'
    <2>1. i # file
      BY <1>2 DEF OpenTemp, Inv, TypeOK
    <2>2. TypeOK'
      BY <1>2, <2>1 DEF OpenTemp, Inv, TypeOK
    <2>3. ASSUME ~overlapped PROVE Safe'
      <3>1. \A v \in Writers \ {w} : pc[v] = "idle"
        BY <1>2, <2>3, OneAtWork DEF OpenTemp
      <3>2. WorkOK' /\ OneClientAtWork'
        BY <1>2, <2>3, <3>1 DEF OpenTemp, Inv, TypeOK, WorkOK, OneClientAtWork
      <3>3. FileWhole'
        BY <1>2, <2>1, <2>3 DEF OpenTemp, Inv, TypeOK, FileWhole
      <3> QED
        BY <3>2, <3>3
    <2> QED
      BY <1>2, <2>2, <2>3 DEF OpenTemp, Inv
  <1>3. ASSUME NEW w \in Writers, WriteTemp(w)
        PROVE  Inv'
    <2>1. TypeOK'
      <3>1. PICK data \in {w, Torn} : content' = [content EXCEPT ![fd[w]] = data]
        BY <1>3 DEF WriteTemp
      <3>2. content' \in [Inodes -> Writers \cup {Empty, Torn}]
        BY <3>1 DEF Inv, TypeOK
      <3> QED
        BY <1>3, <3>2 DEF WriteTemp, Inv, TypeOK
    <2>2. ASSUME ~overlapped PROVE Safe'
      <3>1. \A v \in Writers \ {w} : pc[v] = "idle"
        BY <1>3, <2>2, OneAtWork DEF WriteTemp
      <3>2. temp \in Inodes /\ fd[w] = temp /\ content[temp] = Empty
        BY <1>3, <2>2 DEF WriteTemp, Inv, WorkOK
      <3>3. temp # file /\ content' = [content EXCEPT ![temp] = w]
        BY <1>3, <3>2 DEF WriteTemp, Inv, TypeOK
      <3>4. WorkOK' /\ OneClientAtWork'
        BY <1>3, <2>2, <3>1, <3>2, <3>3 DEF WriteTemp, Inv, TypeOK, WorkOK, OneClientAtWork
      <3>5. FileWhole'
        BY <1>3, <2>2, <3>2, <3>3 DEF WriteTemp, Inv, TypeOK, FileWhole
      <3> QED
        BY <3>4, <3>5
    <2> QED
      BY <1>3, <2>1, <2>2 DEF WriteTemp, Inv
  <1>4. ASSUME NEW w \in Writers, RenameTemp(w)
        PROVE  Inv'
    <2>1. TypeOK'
      BY <1>4 DEF RenameTemp, Return, Inv, TypeOK
    <2>2. ASSUME ~overlapped PROVE Safe'
      <3>1. \A v \in Writers \ {w} : pc[v] = "idle"
        BY <1>4, <2>2, OneAtWork DEF RenameTemp
      <3>2. WorkOK' /\ OneClientAtWork'
        BY <1>4, <2>2, <3>1
        DEF RenameTemp, Return, Inv, TypeOK, WorkOK, OneClientAtWork
      <3>3. FileWhole'
        BY <1>4, <2>2 DEF RenameTemp, Inv, WorkOK, FileWhole
      <3> QED
        BY <3>2, <3>3
    <2> QED
      BY <1>4, <2>1, <2>2 DEF RenameTemp, Inv
  <1>5. ASSUME NEW w \in Writers, Fail(w)
        PROVE  Inv'
    <2>1. TypeOK'
      BY <1>5 DEF Fail, Return, Inv, TypeOK
    <2>2. ASSUME ~overlapped PROVE Safe'
      <3>1. \A v \in Writers \ {w} : pc[v] = "idle"
        BY <1>5, <2>2, OneAtWork DEF Fail
      <3>2. WorkOK' /\ OneClientAtWork'
        BY <1>5, <2>2, <3>1 DEF Fail, Return, Inv, TypeOK, WorkOK, OneClientAtWork
      <3>3. FileWhole'
        BY <1>5, <2>2 DEF Fail, Inv, TypeOK, WorkOK, FileWhole
      <3> QED
        BY <3>2, <3>3
    <2> QED
      BY <1>5, <2>1, <2>2 DEF Fail, Inv
  <1>6. ASSUME NEW m \in Managers, Crash(m)
        PROVE  Inv'
    <2>1. TypeOK'
      BY <1>6 DEF Crash, Inv, TypeOK
    <2>2. ASSUME ~overlapped PROVE Safe'
      BY <1>6, <2>2 DEF Crash, Inv, TypeOK, WorkOK, OneClientAtWork, FileWhole
    <2> QED
      BY <1>6, <2>1, <2>2 DEF Crash, Inv
  <1>7. ASSUME UNCHANGED vars
        PROVE  Inv'
    BY <1>7 DEF vars, Inv, TypeOK, WorkOK, OneClientAtWork, FileWhole
  <1> QED
    BY <1>1, <1>2, <1>3, <1>4, <1>5, <1>6, <1>7 DEF Next

LEMMA Invariance == Spec => []Inv
  BY InitOK, NextOK, PTL DEF Spec

\* Type correctness of writers, inodes and names, whoever writes when; the
\* target and the temporary file never share an inode.
THEOREM TypeCorrect == Spec => []TypeOK
  <1>1. Inv => TypeOK
    BY DEF Inv
  <1> QED
    BY <1>1, Invariance, PTL

\* Unless the writes of two clients have overlapped, whatever fails and
\* whenever a process dies, a reader finds all of what one save wrote.
THEOREM WritesWhole == Spec => []FileWhole
  <1>1. Inv => FileWhole
    BY DEF Inv, FileWhole
  <1> QED
    BY <1>1, Invariance, PTL

\* Unless the writes of two clients have overlapped, the data of the file
\* changes in no step but the rename of a save that holds its mutex, and then
\* to that save's data: opening and writing touch another inode.
THEOREM WritesAtomic == Spec => SavesAreAtomic
  <1>1. ASSUME Inv, [Next]_vars, ~overlapped, FileData' # FileData
        PROVE  \E w \in Writers : /\ fileMutex[ManagerOf[w]] = w
                                  /\ fileMutex'[ManagerOf[w]] = Free
                                  /\ FileData' = w
    <2> USE FileAssumption
    <2>1. ASSUME NEW w \in Writers, NEW i \in Inodes, OpenTemp(w, i)
          PROVE  FALSE
      <3>1. i # file
        BY <1>1, <2>1 DEF OpenTemp, Inv, TypeOK
      <3> QED
        BY <1>1, <2>1, <3>1 DEF OpenTemp, FileData, Inv, TypeOK
    <2>2. ASSUME NEW w \in Writers, WriteTemp(w) \/ Fail(w)
          PROVE  FALSE
      <3>1. pc[w] = "write" => fd[w] # file
        BY <1>1 DEF Inv, TypeOK, WorkOK
      <3>2. \A i \in Inodes : i # fd[w] => content'[i] = content[i]
        BY <1>1, <2>2 DEF WriteTemp, Fail, Inv, TypeOK
      <3>3. pc[w] # "write" => content' = content
        BY <2>2 DEF WriteTemp, Fail
      <3> QED
        BY <1>1, <2>2, <3>1, <3>2, <3>3 DEF WriteTemp, Fail, FileData, Inv, TypeOK
    <2>3. ASSUME NEW w \in Writers, RenameTemp(w)
          PROVE  /\ fileMutex[ManagerOf[w]] = w
                 /\ fileMutex'[ManagerOf[w]] = Free
                 /\ FileData' = w
      BY <1>1, <2>3 DEF RenameTemp, Return, FileData, Inv, TypeOK, WorkOK
    <2>4. \A w \in Writers : ~ Lock(w)
      BY <1>1 DEF Lock, FileData
    <2>5. \A m \in Managers : ~ Crash(m)
      BY <1>1 DEF Crash, FileData
    <2>6. ~ UNCHANGED vars
      BY <1>1 DEF vars, FileData
    <2> QED
      BY <1>1, <2>1, <2>2, <2>3, <2>4, <2>5, <2>6 DEF Next
  <1> QED
    BY <1>1, Invariance, PTL DEF Spec, SavesAreAtomic

\* The only client of a directory needs no provision: whatever fails and
\* whenever the process dies, the file is always whole.
THEOREM OneClientWritesWhole ==
    ASSUME \A m, n \in Managers : m = n
    PROVE  Spec => [](file # NoInode => content[file] \in Writers)
  <1>1. Init => ~overlapped
    BY DEF Init
  <1>2. ~overlapped /\ [Next]_vars => ~overlapped'
    <2>1. \A w \in Writers : ~ Overlaps(w)
      BY FileAssumption DEF Overlaps
    <2> QED
      BY <2>1 DEF Next, vars, Lock, OpenTemp, WriteTemp, RenameTemp, Fail, Crash
  <1>3. ~overlapped /\ FileWhole => (file # NoInode => content[file] \in Writers)
    BY DEF FileWhole
  <1> QED
    BY <1>1, <1>2, <1>3, WritesWhole, PTL DEF Spec
=============================================================================
