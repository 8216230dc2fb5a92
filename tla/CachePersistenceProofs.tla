------------------------- MODULE CachePersistenceProofs -------------------------
(***************************************************************************)
(* Proofs about CachePersistence, for any domains, writers and goroutines. *)
(***************************************************************************)
EXTENDS CachePersistence, TLAPS

\* Every entry of f is in g, or a newer one is, or it has expired.
Precedes(f, g) == \A d \in Domains : f[d] <= g[d] \/ f[d] \in expired

\* Images are ordered: file (if the client could read it), copy under way,
\* memory.
Ordered ==
    /\ ~unread => Precedes(disk, cache)
    /\ \A s \in InFlight : /\ ~unread => Precedes(disk, image[s])
                           /\ Precedes(image[s], cache)

\* Unless a save is owed, the copy under way, or else the file, is current;
\* or the cache is still as empty as a file it could not read left it.
Current ==
    ~SaveOwed => /\ \A s \in InFlight : image[s] = cache
                 /\ InFlight = {} /\ ~writeFailed =>
                        disk = cache \/ (unread /\ cache = EmptyCache)

Inv ==
    /\ TypeOK
    /\ SingleSaver
    /\ savePending => saving
    /\ Ordered
    /\ Current

LEMMA InitOK == Init => Inv
  <1> SUFFICES ASSUME Init PROVE Inv
    OBVIOUS
  <1> USE DEF Init, EmptyCache
  <1>1. Active = {} /\ InFlight = {}
    BY DEF Active, InFlight
  <1>2. TypeOK
    <2>1. EmptyCache \in [Domains -> 0 .. clock]
      OBVIOUS
    <2>2. image \in [Savers -> [Domains -> 0 .. clock]]
      BY <2>1
    <2>3. saver \in [Savers -> SaverLabels]
      BY DEF SaverLabels
    <2>4. clock \in 0 .. MaxSets /\ expired \subseteq 1 .. clock
      BY PersistenceAssumption
    <2> QED
      BY <2>1, <2>2, <2>3, <2>4 DEF TypeOK
  <1>3. SingleSaver
    BY <1>1 DEF SingleSaver
  <1>4. Ordered /\ Current
    BY <1>1 DEF Ordered, Current, Precedes
  <1> QED
    BY <1>2, <1>3, <1>4 DEF Inv

\* A request that finds no save under way starts the only one.
LEMMA StartOK ==
    ASSUME TypeOK, SingleSaver, ~saving, NEW s \in Savers, StartSaver(s)
    PROVE  Active' = {s} /\ InFlight' = {} /\ saver'[s] = "copy"
  <1>1. \A t \in Savers : saver[t] = "none"
    BY DEF SingleSaver, Active
  <1>2. \A t \in Savers : saver'[t] = IF t = s THEN "copy" ELSE "none"
    BY <1>1 DEF TypeOK, StartSaver
  <1> QED
    BY <1>2 DEF Active, InFlight

\* The goroutine that looks for more requests is the only one, before and
\* after, and has nothing in flight.
LEMMA AfterWrite ==
    ASSUME TypeOK, SingleSaver, NEW s \in Savers, SaveAgainOrStop(s)
    PROVE  InFlight' = {} /\ InFlight = {} /\ Active = {s}
  <1>1. Active = {s}
    BY DEF SaveAgainOrStop, SingleSaver, Active
  <1>2. InFlight = {}
    BY <1>1 DEF SaveAgainOrStop, Active, InFlight
  <1>3. \A t \in Savers : t # s => saver'[t] = "none"
    BY <1>1 DEF SaveAgainOrStop, TypeOK, Active
  <1>4. saver'[s] \in {"copy", "none"}
    BY DEF SaveAgainOrStop, TypeOK
  <1> QED
    BY <1>1, <1>2, <1>3, <1>4 DEF InFlight

LEMMA NextOK == Inv /\ [Next]_vars => Inv'
  <1> SUFFICES ASSUME Inv, [Next]_vars PROVE Inv'
    OBVIOUS
  <1> USE PersistenceAssumption
  <1>1. ASSUME NEW w \in Writers, NEW d \in Domains, Set(w, d)
        PROVE  Inv'
    <2>1. TypeOK'
      BY <1>1 DEF Set, Inv, TypeOK
    <2>2. SingleSaver' /\ (savePending => saving)'
      BY <1>1 DEF Set, Inv, SingleSaver, Active
    <2>3. Ordered'
      BY <1>1 DEF Set, Inv, TypeOK, Ordered, Precedes, InFlight
    <2>4. Current'
      BY <1>1 DEF Set, Current, SaveOwed
    <2> QED
      BY <2>1, <2>2, <2>3, <2>4 DEF Inv
  <1>2. ASSUME NEW w \in Writers, SaveResolveCacheAsync(w)
        PROVE  Inv'
    <2>1. CASE saving /\ savePending' = TRUE /\ UNCHANGED <<saving, saver>>
      <3>1. TypeOK'
        BY <1>2, <2>1 DEF SaveResolveCacheAsync, Inv, TypeOK
      <3>2. SingleSaver' /\ (savePending => saving)'
        BY <2>1 DEF Inv, SingleSaver, Active
      <3>3. Ordered'
        BY <1>2, <2>1 DEF SaveResolveCacheAsync, Inv, Ordered, Precedes, InFlight
      <3>4. Current'
        BY <2>1 DEF Current, SaveOwed
      <3> QED
        BY <3>1, <3>2, <3>3, <3>4 DEF Inv
    <2>2. ASSUME ~saving, saving' = TRUE, UNCHANGED savePending,
                 NEW s \in Savers, StartSaver(s)
          PROVE  Inv'
      <3>1. Active' = {s} /\ InFlight' = {} /\ saver'[s] = "copy"
        BY <2>2, StartOK DEF Inv
      <3>2. TypeOK'
        BY <1>2, <2>2 DEF SaveResolveCacheAsync, StartSaver, Inv, TypeOK, SaverLabels
      <3>3. SingleSaver' /\ (savePending => saving)'
        BY <2>2, <3>1 DEF SingleSaver
      <3>4. Ordered'
        BY <1>2, <3>1 DEF SaveResolveCacheAsync, Inv, Ordered, Precedes
      <3>5. Current'
        BY <3>1 DEF Current, SaveOwed
      <3> QED
        BY <3>2, <3>3, <3>4, <3>5 DEF Inv
    <2> QED
      BY <1>2, <2>1, <2>2 DEF SaveResolveCacheAsync
  <1>3. ASSUME NEW s \in Savers, CopyCache(s)
        PROVE  Inv'
    <2>1. Active' = Active /\ InFlight' = {s}
      BY <1>3 DEF CopyCache, Inv, TypeOK, SingleSaver, Active, InFlight
    <2>2. TypeOK'
      BY <1>3 DEF CopyCache, Inv, TypeOK, SaverLabels
    <2>3. SingleSaver' /\ (savePending => saving)'
      BY <1>3, <2>1 DEF CopyCache, Inv, SingleSaver
    <2>4. image'[s] = cache /\ UNCHANGED <<cache, disk, expired, unread>>
      BY <1>3 DEF CopyCache, Inv, TypeOK
    <2>5. Ordered'
      BY <2>1, <2>4 DEF Inv, TypeOK, Ordered, Precedes
    <2>6. Current'
      BY <2>1, <2>4 DEF Current
    <2> QED
      BY <2>2, <2>3, <2>5, <2>6 DEF Inv
  <1>4. ASSUME NEW s \in Savers, LockFile(s)
        PROVE  Inv'
    <2>1. Active' = Active /\ InFlight' = InFlight
      BY <1>4 DEF LockFile, Inv, TypeOK, Active, InFlight
    <2>2. TypeOK'
      BY <1>4 DEF LockFile, Inv, TypeOK, SaverLabels
    <2>3. SingleSaver' /\ (savePending => saving)'
      BY <1>4, <2>1 DEF LockFile, Inv, SingleSaver
    <2>4. Ordered'
      BY <1>4, <2>1 DEF LockFile, Inv, Ordered, Precedes
    <2>5. Current'
      BY <1>4, <2>1 DEF LockFile, Inv, TypeOK, Current, SaveOwed
    <2> QED
      BY <2>2, <2>3, <2>4, <2>5 DEF Inv
  <1>5. ASSUME NEW s \in Savers, NEW ok \in BOOLEAN, WriteFile(s, ok)
        PROVE  Inv'
    <2>1. Active' = Active /\ InFlight = {s} /\ InFlight' = {}
      BY <1>5 DEF WriteFile, Inv, TypeOK, SingleSaver, Active, InFlight
    <2>2. TypeOK'
      BY <1>5 DEF WriteFile, Inv, TypeOK, SaverLabels
    <2>3. SingleSaver' /\ (savePending => saving)'
      BY <1>5, <2>1 DEF WriteFile, Inv, SingleSaver
    <2>4. Ordered'
      BY <1>5, <2>1 DEF WriteFile, Inv, Ordered, Precedes
    <2>5. Current'
      BY <1>5, <2>1 DEF WriteFile, Inv, TypeOK, Current, SaveOwed
    <2> QED
      BY <2>2, <2>3, <2>4, <2>5 DEF Inv
  <1>6. ASSUME NEW s \in Savers, SaveAgainOrStop(s)
        PROVE  Inv'
    <2>1. InFlight' = {} /\ InFlight = {} /\ Active = {s}
      BY <1>6, AfterWrite DEF Inv
    <2>2. TypeOK'
      BY <1>6 DEF SaveAgainOrStop, Inv, TypeOK, SaverLabels
    <2>3. SingleSaver' /\ (savePending => saving)'
      BY <1>6, <2>1 DEF SaveAgainOrStop, Inv, TypeOK, SingleSaver, Active
    <2>4. Ordered'
      BY <1>6, <2>1 DEF SaveAgainOrStop, Inv, Ordered, Precedes
    <2>5. Current'
      BY <1>6, <2>1 DEF SaveAgainOrStop, Inv, TypeOK, Current, SaveOwed
    <2> QED
      BY <2>2, <2>3, <2>4, <2>5 DEF Inv
  <1>7. ASSUME NEW o \in Others, OtherLocks(o) \/ OtherUnlocks(o)
        PROVE  Inv'
    <2> USE <1>7 DEF OtherLocks, OtherUnlocks
    <2>1. TypeOK'
      BY DEF Inv, TypeOK
    <2>2. SingleSaver' /\ (savePending => saving)'
      BY DEF Inv, SingleSaver, Active
    <2>3. Ordered'
      BY DEF Inv, Ordered, Precedes, InFlight
    <2>4. Current'
      BY DEF Inv, Current, SaveOwed, InFlight
    <2> QED
      BY <2>1, <2>2, <2>3, <2>4 DEF Inv
  <1>8. ASSUME NEW nowExpired \in SUBSET OnDisk, Restart(nowExpired)
        PROVE  Inv'
    <2>1. expired' = expired \cup nowExpired /\ expired' \subseteq 1 .. clock
      <3>1. \A v \in OnDisk : v \in 1 .. clock
        BY DEF OnDisk, Inv, TypeOK
      <3> QED
        BY <1>8, <3>1 DEF Restart, LoadFromDisk, Inv, TypeOK
    <2>2. CASE LoadFails
      <3>1. Active' = {} /\ InFlight' = {}
        BY <2>2 DEF LoadFails, NoSaver, Active, InFlight
      <3>2. TypeOK'
        <4>1. EmptyCache \in [Domains -> 0 .. clock] /\ clock' = clock
          BY <1>8 DEF Restart, EmptyCache, Inv, TypeOK
        <4>2. saver' \in [Savers -> SaverLabels]
          BY <2>2 DEF LoadFails, NoSaver, SaverLabels
        <4> QED
          BY <1>8, <2>1, <2>2, <4>1, <4>2 DEF Restart, LoadFails, Inv, TypeOK
      <3>3. SingleSaver' /\ (savePending => saving)'
        BY <1>8, <2>2, <3>1 DEF Restart, LoadFails, SingleSaver
      <3>4. Ordered'
        BY <2>2, <3>1 DEF LoadFails, Ordered
      <3>5. EmptyCache' = EmptyCache
        BY DEF EmptyCache
      <3>6. Current'
        BY <2>2, <3>1, <3>5 DEF LoadFails, Current
      <3> QED
        BY <3>2, <3>3, <3>4, <3>6 DEF Inv
    <2>3. CASE cache' = disk /\ unread' = FALSE /\ saving' = FALSE /\ saver' = NoSaver
      <3>1. Active' = {} /\ InFlight' = {}
        BY <2>3 DEF NoSaver, Active, InFlight
      <3>2. TypeOK'
        BY <1>8, <2>1, <2>3 DEF Restart, NoSaver, Inv, TypeOK, SaverLabels
      <3>3. SingleSaver' /\ (savePending => saving)'
        BY <1>8, <2>3, <3>1 DEF Restart, SingleSaver
      <3>4. Ordered' /\ Current'
        BY <1>8, <2>3, <3>1 DEF Restart, Inv, TypeOK, Ordered, Current, Precedes
      <3> QED
        BY <3>2, <3>3, <3>4 DEF Inv
    <2>4. ASSUME cache' = KeepUnexpired, unread' = FALSE, saving' = TRUE,
                 NEW s \in Savers, saver' = [NoSaver EXCEPT ![s] = "copy"]
          PROVE  Inv'
      <3>1. Active' = {s} /\ InFlight' = {} /\ saver'[s] = "copy"
        BY <2>4 DEF NoSaver, Active, InFlight
      <3>2. TypeOK'
        <4>1. cache' \in [Domains -> 0 .. clock] /\ clock' = clock
          BY <1>8, <2>4 DEF Restart, KeepUnexpired, Inv, TypeOK
        <4>2. saver' \in [Savers -> SaverLabels]
          BY <2>4 DEF NoSaver, SaverLabels
        <4> QED
          BY <1>8, <2>1, <2>4, <4>1, <4>2 DEF Restart, Inv, TypeOK
      <3>3. SingleSaver' /\ (savePending => saving)'
        BY <1>8, <2>4, <3>1 DEF Restart, SingleSaver
      <3>4. Ordered'
        <4>1. Precedes(disk, cache)'
          BY <1>8, <2>4 DEF Restart, KeepUnexpired, Inv, TypeOK, Precedes
        <4> QED
          BY <3>1, <4>1 DEF Ordered
      <3>5. Current'
        BY <3>1 DEF Current, SaveOwed
      <3> QED
        BY <3>2, <3>3, <3>4, <3>5 DEF Inv
    <2> QED
      BY <1>8, <2>2, <2>3, <2>4 DEF Restart, LoadFromDisk
  <1>9. ASSUME UNCHANGED vars
        PROVE  Inv'
    BY <1>9 DEF vars, Inv, TypeOK, SingleSaver, Active, Ordered, Precedes, InFlight, Current,
                SaveOwed
  <1> QED
    BY <1>1, <1>2, <1>3, <1>4, <1>5, <1>6, <1>7, <1>8, <1>9 DEF Next, Run, SaverStep

-----------------------------------------------------------------------------

\* The inductive invariant holds in every reachable state.
THEOREM Invariance == Spec => []Inv
  BY InitOK, NextOK, PTL DEF Spec

\* Every variable keeps its type.
THEOREM TypeCorrect == Spec => []TypeOK
  BY Invariance, PTL DEF Inv

\* However requests, saves and restarts interleave, at most one goroutine
\* saves, and saving tells whether one does.
THEOREM OneSaver == Spec => []SingleSaver
  BY Invariance, PTL DEF Inv

\* Once saving has come to rest, with no failed write, the file is the
\* cache: no merged request is lost.  Only a client that could not read the
\* file and has set nothing since holds nothing beside it.
THEOREM NoLostSave == Spec => []QuiescentPersisted
  <1>1. Inv => QuiescentPersisted
    BY DEF Inv, SingleSaver, Active, Current, InFlight, SaveOwed, QuiescentPersisted
  <1> QED
    BY <1>1, Invariance, PTL

\* The file never goes back to an older entry, nor loses one that has not
\* expired, across saves and restarts, but for the first save of a client
\* that could not read it.
THEOREM NoRegression == Spec => DiskNeverRegresses
  <1> DEFINE Forward ==
               \A d \in Domains : disk[d] <= disk'[d] \/ disk[d] \in expired' \/ unread
  <1>1. Inv /\ [Next]_vars => [Forward]_vars
    <2> SUFFICES ASSUME Inv, Next PROVE Forward
      BY DEF vars
    <2>1. CASE disk' = disk
      BY <2>1 DEF Inv, TypeOK
    <2>2. ASSUME NEW s \in Savers, WriteFile(s, TRUE)
          PROVE  Forward
      BY <2>2 DEF WriteFile, Inv, Ordered, Precedes, InFlight
    <2>3. disk' = disk \/ \E s \in Savers : WriteFile(s, TRUE)
      BY DEF Next, Run, SaverStep, Set, SaveResolveCacheAsync, CopyCache, LockFile, WriteFile,
             SaveAgainOrStop, OtherLocks, OtherUnlocks, Restart
    <2> QED
      BY <2>1, <2>2, <2>3
  <1> QED
    BY <1>1, Invariance, PTL DEF Spec, DiskNeverRegresses

-----------------------------------------------------------------------------
\* Refinement.

\* With one goroutine in flight, its copy is the image of WriteBehind.
LEMMA OneInFlight ==
    ASSUME NEW s, InFlight = {s}
    PROVE  ImageUnderWay = image[s]
  BY DEF ImageUnderWay

LEMMA ImageIsCache ==
    ASSUME TypeOK, InFlight # {}
    PROVE  ImageUnderWay \in [Domains -> Nat]
  <1>1. (CHOOSE s \in InFlight : TRUE) \in Savers
    BY DEF InFlight
  <1>2. image \in [Savers -> [Domains -> Nat]]
    BY DEF TypeOK
  <1> QED
    BY <1>1, <1>2 DEF ImageUnderWay

\* Background saving implements write-behind: nothing reaches the disk but
\* copies of the cache in the order they were taken, and every change is
\* covered by one of them or by a save that is still owed.
THEOREM Refinement == Spec => ImplementsWriteBehind
  <1>1. Init => WB!WBInit
    <2> SUFFICES ASSUME Init PROVE WB!WBInit
      OBVIOUS
    <2>1. InFlight = {} /\ ~SaveOwed
      BY DEF Init, InFlight, SaveOwed
    <2>2. cache \in [Domains -> Nat] /\ disk = cache
      BY DEF Init, EmptyCache
    <2>3. ImageUnderWay = NoImage /\ SaveOwed \in BOOLEAN
      BY <2>1 DEF ImageUnderWay, SaveOwed
    <2>4. writeFailed = FALSE /\ unread = FALSE
      BY DEF Init
    <2> QED
      BY <2>2, <2>3, <2>4 DEF WB!WBInit
  <1>2. Inv /\ Inv' /\ [Next]_vars => [WB!WBNext]_WB!wbVars
    <2> SUFFICES ASSUME Inv, Inv', [Next]_vars
                 PROVE  WB!WBNext \/ UNCHANGED WB!wbVars
      OBVIOUS
    <2> USE DEF WB!wbVars
    <2>0. cache' \in [Domains -> Nat] /\ SaveOwed' \in BOOLEAN
      BY DEF Inv, TypeOK, SaveOwed
    <2>1. ASSUME NEW w \in Writers, NEW d \in Domains, Set(w, d)
          PROVE  WB!Change
      <3>1. SaveOwed' /\ ImageUnderWay' = ImageUnderWay
        BY <2>1 DEF Set, SaveOwed, ImageUnderWay, InFlight
      <3> QED
        BY <2>0, <2>1, <3>1 DEF Set, WB!Change
    <2>2. ASSUME NEW w \in Writers, SaveResolveCacheAsync(w)
          PROVE  UNCHANGED WB!wbVars
      <3>1. SaveOwed
        BY <2>2 DEF SaveResolveCacheAsync, SaveOwed
      <3>2. SaveOwed' /\ InFlight' = InFlight
        BY <2>2 DEF SaveResolveCacheAsync, StartSaver, Inv, TypeOK, SaveOwed, InFlight
      <3> QED
        BY <2>2, <3>1, <3>2 DEF SaveResolveCacheAsync, ImageUnderWay
    <2>3. ASSUME NEW s \in Savers, CopyCache(s)
          PROVE  WB!Take
      <3>1. InFlight = {} /\ InFlight' = {s}
        BY <2>3 DEF CopyCache, Inv, TypeOK, SingleSaver, Active, InFlight
      <3>2. ImageUnderWay = NoImage /\ ImageUnderWay' = cache
        BY <2>3, <3>1, OneInFlight DEF CopyCache, Inv, TypeOK, ImageUnderWay
      <3>3. SaveOwed
        BY <2>3 DEF CopyCache, SaveOwed
      <3> QED
        BY <2>0, <2>3, <3>2, <3>3 DEF CopyCache, WB!Take
    <2>4. ASSUME NEW s \in Savers, LockFile(s)
          PROVE  UNCHANGED WB!wbVars
      <3>1. InFlight' = InFlight /\ (SaveOwed' <=> SaveOwed)
        BY <2>4 DEF LockFile, Inv, TypeOK, InFlight, SaveOwed
      <3> QED
        BY <2>0, <2>4, <3>1 DEF LockFile, ImageUnderWay, SaveOwed
    <2>5. ASSUME NEW s \in Savers, NEW ok \in BOOLEAN, WriteFile(s, ok)
          PROVE  WB!Commit \/ WB!Drop
      <3>1. InFlight = {s} /\ InFlight' = {} /\ (SaveOwed' <=> SaveOwed)
        BY <2>5 DEF WriteFile, Inv, TypeOK, SingleSaver, Active, InFlight, SaveOwed
      <3>2. ImageUnderWay = image[s] /\ ImageUnderWay' = NoImage /\ ImageUnderWay # NoImage
        BY <3>1, OneInFlight, ImageIsCache, PersistenceAssumption DEF Inv, ImageUnderWay
      <3>3. UNCHANGED cache
        BY <2>5 DEF WriteFile
      <3>4. CASE ok
        <4>1. unread' = FALSE /\ writeFailed' = FALSE
          BY <2>5, <3>4 DEF WriteFile
        <4> QED
          BY <2>0, <2>5, <3>1, <3>2, <3>3, <3>4, <4>1 DEF WriteFile, WB!Commit, SaveOwed
      <3>5. CASE ~ok
        <4>1. unread' = unread /\ writeFailed' = TRUE
          BY <2>5, <3>5, Zenon DEF WriteFile, Inv, TypeOK
        <4> QED
          BY <2>0, <2>5, <3>1, <3>2, <3>3, <3>5, <4>1 DEF WriteFile, WB!Drop, SaveOwed
      <3> QED
        BY <3>4, <3>5
    <2>6. ASSUME NEW s \in Savers, SaveAgainOrStop(s)
          PROVE  UNCHANGED WB!wbVars
      <3>1. InFlight = {} /\ InFlight' = {}
        BY <2>6, AfterWrite DEF Inv
      <3>2. SaveOwed' <=> SaveOwed
        BY <2>6 DEF SaveAgainOrStop, Inv, TypeOK, SingleSaver, Active, SaveOwed
      <3> QED
        BY <2>0, <2>6, <3>1, <3>2 DEF SaveAgainOrStop, ImageUnderWay, SaveOwed
    <2>7. ASSUME NEW o \in Others, OtherLocks(o) \/ OtherUnlocks(o)
          PROVE  UNCHANGED WB!wbVars
      <3>1. UNCHANGED <<cache, disk, requesting, savePending, saver, image, writeFailed, unread>>
        BY <2>7 DEF OtherLocks, OtherUnlocks
      <3> QED
        BY <3>1 DEF ImageUnderWay, InFlight, SaveOwed
    <2>8. ASSUME NEW nowExpired \in SUBSET OnDisk, Restart(nowExpired)
          PROVE  WB!Reopen \/ WB!ReopenBlank
      <3>1. InFlight' = {}
        BY <2>8 DEF Restart, LoadFromDisk, LoadFails, NoSaver, InFlight
      <3>2. ImageUnderWay' = NoImage
        BY <3>1 DEF ImageUnderWay
      <3>3. CASE LoadFails
        <4>1. ~SaveOwed'
          BY <2>8, <3>3 DEF Restart, LoadFails, NoSaver, SaveOwed
        <4> QED
          BY <2>0, <2>8, <3>2, <3>3, <4>1 DEF Restart, LoadFails, WB!ReopenBlank
      <3>4. CASE ~LoadFails
        <4>1. unread' = FALSE
          BY <2>8, <3>4 DEF Restart, LoadFromDisk
        <4>2. ~SaveOwed' => cache' = disk
          BY <2>8, <3>4 DEF Restart, LoadFromDisk, NoSaver, SaveOwed
        <4> QED
          BY <2>0, <2>8, <3>2, <4>1, <4>2 DEF Restart, WB!Reopen
      <3> QED
        BY <3>3, <3>4
    <2>9. CASE UNCHANGED vars
      BY <2>9 DEF vars, ImageUnderWay, InFlight, SaveOwed
    <2> QED
      BY <2>1, <2>2, <2>3, <2>4, <2>5, <2>6, <2>7, <2>8, <2>9
      DEF Next, Run, SaverStep, WB!WBNext
  <1> QED
    BY <1>1, <1>2, Invariance, PTL DEF Spec, WB!WBSpec, ImplementsWriteBehind
-----------------------------------------------------------------------------

\* While something is being written and nothing is owed, that something is
\* the memory.
WBInv ==
    /\ cache \in [Domains -> Nat]
    /\ ~SaveOwed /\ ImageUnderWay # NoImage => ImageUnderWay = cache
    /\ WB!NothingLost

\* What the promise of write-behind is worth: whatever keeps it, quiescent,
\* has lost nothing (cache.go, savePending), unless it could not read the
\* disk and has changed nothing since.
THEOREM WriteBehindLosesNothing == ImplementsWriteBehind => []WB!NothingLost
  <1>1. WB!WBInit => WBInv
    BY DEF WB!WBInit, WBInv, WB!NothingLost
  <1>2. WBInv /\ [WB!WBNext]_WB!wbVars => WBInv'
    <2> SUFFICES ASSUME WBInv, [WB!WBNext]_WB!wbVars PROVE WBInv'
      OBVIOUS
    <2> USE PersistenceAssumption DEF WBInv, WB!NothingLost
    <2>1. CASE WB!Change
      BY <2>1 DEF WB!Change
    <2>2. CASE WB!Take
      BY <2>2 DEF WB!Take
    <2>3. CASE WB!Commit
      BY <2>3 DEF WB!Commit
    <2>4. CASE WB!Drop
      BY <2>4 DEF WB!Drop
    <2>5. CASE WB!Reopen
      BY <2>5 DEF WB!Reopen
    <2>6. CASE WB!ReopenBlank
      BY <2>6 DEF WB!ReopenBlank, EmptyCache
    <2>7. CASE UNCHANGED WB!wbVars
      BY <2>7 DEF WB!wbVars
    <2> QED
      BY <2>1, <2>2, <2>3, <2>4, <2>5, <2>6, <2>7 DEF WB!WBNext
  <1>3. WBInv => WB!NothingLost
    BY DEF WBInv
  <1> QED
    BY <1>1, <1>2, <1>3, PTL DEF WB!WBSpec, ImplementsWriteBehind
=============================================================================
