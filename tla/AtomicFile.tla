------------------------------- MODULE AtomicFile -------------------------------
(***************************************************************************)
(* writeJSONFile (pkg/httpdns/cache.go) on the file system it runs on: the *)
(* data goes to a temporary file next to the target, which is then renamed *)
(* over the target.  The temporary file has one fixed name, so everything  *)
(* rests on fileMutex, and each CacheManager has a fileMutex of its own:   *)
(* two clients of one account share the names and not the mutex.           *)
(*                                                                         *)
(* A name is bound to an inode; an open file keeps its inode when the name *)
(* is bound anew.  This is the branch for systems other than Windows.      *)
(***************************************************************************)
EXTENDS Naturals

CONSTANTS
    Writers,        \* goroutines that write the file, each its own data
    Managers,
    ManagerOf,      \* the CacheManager whose fileMutex a writer takes
    Inodes,
    NoInode,        \* the name is not bound
    Free,           \* the mutex is not held
    Empty,          \* contents: nothing, as after O_TRUNC
    Torn            \* contents: part of some data, or a mix

ASSUME FileAssumption ==
    /\ ManagerOf \in [Writers -> Managers]
    /\ NoInode \notin Inodes
    /\ Free \notin Writers
    /\ {Empty, Torn} \cap Writers = {}

VARIABLES
    pc,             \* control point of each writer
    fd,             \* the inode it has open
    fileMutex,      \* of each manager: its holder, or Free
    content,        \* of each inode: a writer's data, Empty or Torn
    file,           \* the inode of the target
    temp,           \* the inode of the temporary file
    overlapped      \* history: two clients have written at the same time

vars == <<pc, fd, fileMutex, content, file, temp, overlapped>>

\* A goroutine of another client is writing: clients of one account have one
\* cache directory.
Overlaps(w) == \E v \in Writers : pc[v] # "idle" /\ ManagerOf[v] # ManagerOf[w]

Init ==
    /\ pc = [w \in Writers |-> "idle"]
    /\ fd = [w \in Writers |-> NoInode]
    /\ fileMutex = [m \in Managers |-> Free]
    /\ content = [i \in Inodes |-> Empty]
    /\ file = NoInode
    /\ temp = NoInode
    /\ overlapped = FALSE

\* Mutant of Lock: the mutex is taken without waiting for it.
LockAnyway(w) ==
    /\ pc[w] = "idle"
    /\ fileMutex' = [fileMutex EXCEPT ![ManagerOf[w]] = w]
    /\ pc' = [pc EXCEPT ![w] = "open"]
    /\ overlapped' = (overlapped \/ Overlaps(w))
    /\ UNCHANGED <<fd, content, file, temp>>

Lock(w) ==
    /\ pc[w] = "idle"
    /\ fileMutex[ManagerOf[w]] = Free
    /\ fileMutex' = [fileMutex EXCEPT ![ManagerOf[w]] = w]
    /\ pc' = [pc EXCEPT ![w] = "open"]
    /\ overlapped' = (overlapped \/ Overlaps(w))
    /\ UNCHANGED <<fd, content, file, temp>>

\* O_CREATE|O_TRUNC: the inode the name is bound to, or an unused one.
OpenTemp(w, i) ==
    /\ pc[w] = "open"
    /\ \/ i = temp
       \/ temp = NoInode /\ i # file /\ \A v \in Writers : fd[v] # i
    /\ temp' = i
    /\ content' = [content EXCEPT ![i] = Empty]
    /\ fd' = [fd EXCEPT ![w] = i]
    /\ pc' = [pc EXCEPT ![w] = "write"]
    /\ UNCHANGED <<fileMutex, file, overlapped>>

\* Data written over other data replaces it if it is long enough.
WriteTemp(w) ==
    /\ pc[w] = "write"
    /\ \E data \in IF content[fd[w]] = Empty THEN {w} ELSE {w, Torn} :
           content' = [content EXCEPT ![fd[w]] = data]
    /\ fd' = [fd EXCEPT ![w] = NoInode]
    /\ pc' = [pc EXCEPT ![w] = "rename"]
    /\ UNCHANGED <<fileMutex, file, temp, overlapped>>

\* The end of writeJSONFile and the deferred unlock.
Return(w) ==
    /\ pc' = [pc EXCEPT ![w] = "idle"]
    /\ fd' = [fd EXCEPT ![w] = NoInode]
    /\ fileMutex' = [fileMutex EXCEPT ![ManagerOf[w]] = Free]

\* Mutant of RenameTemp: the temporary file is linked and left behind.
LinkTemp(w) ==
    /\ pc[w] = "rename"
    /\ temp # NoInode
    /\ file' = temp
    /\ Return(w)
    /\ UNCHANGED <<content, temp, overlapped>>

RenameTemp(w) ==
    /\ pc[w] = "rename"
    /\ temp # NoInode
    /\ file' = temp
    /\ temp' = NoInode
    /\ Return(w)
    /\ UNCHANGED <<content, overlapped>>

\* Any of the calls returns an error; the write may have got half way.
Fail(w) ==
    /\ pc[w] # "idle"
    /\ content' = IF pc[w] = "write" THEN [content EXCEPT ![fd[w]] = Torn] ELSE content
    /\ Return(w)
    /\ UNCHANGED <<file, temp, overlapped>>

\* The process of a manager dies; what is on the disk stays.
Crash(m) ==
    /\ pc' = [w \in Writers |-> IF ManagerOf[w] = m THEN "idle" ELSE pc[w]]
    /\ fd' = [w \in Writers |-> IF ManagerOf[w] = m THEN NoInode ELSE fd[w]]
    /\ fileMutex' = [fileMutex EXCEPT ![m] = Free]
    /\ UNCHANGED <<content, file, temp, overlapped>>

Next ==
    \/ \E w \in Writers : \/ Lock(w)
                          \/ \E i \in Inodes : OpenTemp(w, i)
                          \/ WriteTemp(w)
                          \/ RenameTemp(w)
                          \/ Fail(w)
    \/ \E m \in Managers : Crash(m)

Spec == Init /\ [][Next]_vars

-----------------------------------------------------------------------------

\* Every variable stays in its range, and the two names are never bound to
\* the same inode.
TypeOK ==
    /\ pc \in [Writers -> {"idle", "open", "write", "rename"}]
    /\ fd \in [Writers -> Inodes \cup {NoInode}]
    /\ fileMutex \in [Managers -> Writers \cup {Free}]
    /\ content \in [Inodes -> Writers \cup {Empty, Torn}]
    /\ file \in Inodes \cup {NoInode}
    /\ temp \in Inodes \cup {NoInode}
    /\ overlapped \in BOOLEAN
    /\ file = temp => file = NoInode

\* Whoever reads the file, at any moment and after any crash, reads all of
\* what one writer wrote (cache.go, the comment on writeJSONFile), as long as
\* two clients have never been writing at the same time.
FileWhole == ~overlapped /\ file # NoInode => content[file] \in Writers

\* What a reader of the file finds.
FileData == IF file = NoInode THEN Empty ELSE content[file]

\* Until two clients have been writing at the same time, writeJSONFile is one
\* step to whoever reads the file: its data changes only as a save succeeds,
\* with the mutex held until then, to all of that save's own data, and no
\* failure or crash touches it.  (CachePersistence and ServiceIPPersistence
\* take it as one step.)
SavesAreAtomic ==
    [][~overlapped /\ FileData' # FileData =>
           \E w \in Writers : /\ fileMutex[ManagerOf[w]] = w
                              /\ fileMutex'[ManagerOf[w]] = Free
                              /\ FileData' = w]_vars
=============================================================================
