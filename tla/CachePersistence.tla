---------------------------- MODULE CachePersistence ----------------------------
(***************************************************************************)
(* The resolve cache and its file (pkg/httpdns/cache.go).  A writer runs   *)
(* updateCache: Set changes the memory, then SaveResolveCacheAsync asks    *)
(* for a save.  One background goroutine at a time copies the cache and    *)
(* writes the copy under fileMutex; requests that arrive meanwhile are     *)
(* merged into savePending.  A crash loses everything but the file, which  *)
(* LoadFromDisk reads at the next start, dropping what has expired, or     *)
(* fails to read, which leaves the cache empty.                            *)
(*                                                                         *)
(* Persistence is enabled throughout (c.persistent).  An entry is its      *)
(* version: every Set stores a newer one than any before.  writeJSONFile   *)
(* is one step here; AtomicFile takes it apart.  One client at a time has  *)
(* the file: a client that was closed has it until its goroutines are      *)
(* done, which Close does not wait for.                                    *)
(***************************************************************************)
EXTENDS Naturals

CONSTANTS
    Domains,    \* normalised domain names
    Writers,    \* goroutines that run updateCache
    Savers,     \* names for the goroutines SaveResolveCacheAsync starts
    Others,     \* goroutines of SaveServiceIPsAsync, which share fileMutex
    Free,       \* fileMutex is not held
    NoImage,    \* no copy of the cache is on its way to the disk
    MaxSets     \* bound: Sets in a behaviour

ASSUME PersistenceAssumption ==
    /\ Savers # {}
    /\ Free \notin Savers \cup Others
    /\ NoImage \notin [Domains -> Nat]
    /\ MaxSets \in Nat

VARIABLES
    cache,          \* version of each domain in memory, 0 for none
    clock,          \* the newest version so far
    requesting,     \* writers between Set and SaveResolveCacheAsync
    saving,
    savePending,
    saver,          \* control point of each saving goroutine
    image,          \* its copy of the cache
    fileMutex,      \* who holds it, or Free
    disk,           \* resolve_cache.json: version of each domain, 0 for none
    expired,        \* versions that were past TTL and threshold at some start
    writeFailed,    \* history: the last writeJSONFile returned an error
    unread          \* history: the file is one LoadFromDisk could not read

vars == <<cache, clock, requesting, saving, savePending, saver, image,
          fileMutex, disk, expired, writeFailed, unread>>

SaverLabels == {"none", "copy", "lock", "write", "after"}

Active == {s \in Savers : saver[s] # "none"}

EmptyCache == [d \in Domains |-> 0]

-----------------------------------------------------------------------------

\* NewCacheManager, and LoadFromDisk without a file.
Init ==
    /\ cache = EmptyCache
    /\ clock = 0
    /\ requesting = {}
    /\ saving = FALSE
    /\ savePending = FALSE
    /\ saver = [s \in Savers |-> "none"]
    /\ image = [s \in Savers |-> EmptyCache]
    /\ fileMutex = Free
    /\ disk = EmptyCache
    /\ expired = {}
    /\ writeFailed = FALSE
    /\ unread = FALSE

\* Mutant of Set: the entry is dated in the future.
SetInTheFuture(w, d) ==
    /\ w \notin requesting
    /\ clock < MaxSets
    /\ cache' = [cache EXCEPT ![d] = clock + 2]
    /\ clock' = clock + 1
    /\ requesting' = requesting \cup {w}
    /\ UNCHANGED <<saving, savePending, saver, image, fileMutex, disk, expired,
                   writeFailed, unread>>

\* updateCache, first half.
Set(w, d) ==
    /\ w \notin requesting
    /\ clock < MaxSets
    /\ cache' = [cache EXCEPT ![d] = clock + 1]
    /\ clock' = clock + 1
    /\ requesting' = requesting \cup {w}
    /\ UNCHANGED <<saving, savePending, saver, image, fileMutex, disk, expired,
                   writeFailed, unread>>

StartSaver(s) ==
    /\ saver[s] = "none"
    /\ saver' = [saver EXCEPT ![s] = "copy"]

\* Mutant of SaveResolveCacheAsync: every request starts a goroutine.
SaveUnmerged(w) ==
    /\ w \in requesting
    /\ requesting' = requesting \ {w}
    /\ saving' = TRUE
    /\ \E s \in Savers : StartSaver(s)
    /\ UNCHANGED <<cache, clock, savePending, image, fileMutex, disk, expired,
                   writeFailed, unread>>

\* Mutant of SaveResolveCacheAsync: a request during a save is dropped.
SaveUnlessSaving(w) ==
    /\ w \in requesting
    /\ requesting' = requesting \ {w}
    /\ \/ saving /\ UNCHANGED <<saving, saver>>
       \/ /\ ~saving /\ saving' = TRUE
          /\ \E s \in Savers : StartSaver(s)
    /\ UNCHANGED <<cache, clock, savePending, image, fileMutex, disk, expired,
                   writeFailed, unread>>

\* updateCache, second half: merge the request or start the goroutine.
SaveResolveCacheAsync(w) ==
    /\ w \in requesting
    /\ requesting' = requesting \ {w}
    /\ \/ saving /\ savePending' = TRUE /\ UNCHANGED <<saving, saver>>
       \/ /\ ~saving /\ saving' = TRUE /\ UNCHANGED savePending
          /\ \E s \in Savers : StartSaver(s)
    /\ UNCHANGED <<cache, clock, image, fileMutex, disk, expired, writeFailed, unread>>

\* doSaveResolveCache: the copy is taken before fileMutex is asked for.
CopyCache(s) ==
    /\ saver[s] = "copy"
    /\ image' = [image EXCEPT ![s] = cache]
    /\ saver' = [saver EXCEPT ![s] = "lock"]
    /\ UNCHANGED <<cache, clock, requesting, saving, savePending, fileMutex, disk,
                   expired, writeFailed, unread>>

LockFile(s) ==
    /\ saver[s] = "lock"
    /\ fileMutex = Free
    /\ fileMutex' = s
    /\ saver' = [saver EXCEPT ![s] = "write"]
    /\ UNCHANGED <<cache, clock, requesting, saving, savePending, image, disk, expired,
                   writeFailed, unread>>

\* writeJSONFile and the deferred unlock; an error is logged and forgotten.
WriteFile(s, ok) ==
    /\ saver[s] = "write"
    /\ disk' = IF ok THEN image[s] ELSE disk
    /\ writeFailed' = ~ok
    /\ unread' = (unread /\ ~ok)
    /\ fileMutex' = Free
    /\ saver' = [saver EXCEPT ![s] = "after"]
    /\ UNCHANGED <<cache, clock, requesting, saving, savePending, image, expired>>

\* Mutant of SaveAgainOrStop: savePending is never looked at.
SaveOnce(s) ==
    /\ saver[s] = "after"
    /\ saving' = FALSE
    /\ savePending' = FALSE
    /\ saver' = [saver EXCEPT ![s] = "none"]
    /\ UNCHANGED <<cache, clock, requesting, image, fileMutex, disk, expired,
                   writeFailed, unread>>

\* Mutant of SaveAgainOrStop: saving is cleared before the loop goes round.
SaveAgainUnguarded(s) ==
    /\ saver[s] = "after"
    /\ saving' = FALSE
    /\ savePending' = FALSE
    /\ saver' = [saver EXCEPT ![s] = IF savePending THEN "copy" ELSE "none"]
    /\ UNCHANGED <<cache, clock, requesting, image, fileMutex, disk, expired,
                   writeFailed, unread>>

\* The end of the loop body, under saveMu: once more, or stop.
SaveAgainOrStop(s) ==
    /\ saver[s] = "after"
    /\ IF savePending
       THEN /\ savePending' = FALSE
            /\ saver' = [saver EXCEPT ![s] = "copy"]
            /\ UNCHANGED saving
       ELSE /\ saving' = FALSE
            /\ saver' = [saver EXCEPT ![s] = "none"]
            /\ UNCHANGED savePending
    /\ UNCHANGED <<cache, clock, requesting, image, fileMutex, disk, expired,
                   writeFailed, unread>>

\* SaveServiceIPsAsync holds fileMutex for a while.
OtherLocks(o) ==
    /\ fileMutex = Free
    /\ fileMutex' = o
    /\ UNCHANGED <<cache, clock, requesting, saving, savePending, saver, image, disk,
                   expired, writeFailed, unread>>

OtherUnlocks(o) ==
    /\ fileMutex = o
    /\ fileMutex' = Free
    /\ UNCHANGED <<cache, clock, requesting, saving, savePending, saver, image, disk,
                   expired, writeFailed, unread>>

KeepUnexpired == [d \in Domains |-> IF disk[d] \in expired' THEN 0 ELSE disk[d]]

NoSaver == [s \in Savers |-> "none"]

\* The file cannot be read (an error other than that there is none, which
\* NewResolver logs) or cannot be parsed: the cache stays empty, and the file
\* as it is, until something is saved.
LoadFails ==
    /\ cache' = EmptyCache
    /\ unread' = TRUE
    /\ saving' = FALSE /\ saver' = NoSaver

\* Mutant of LoadFromDisk: expired entries are left on the disk.
LoadWithoutRewrite(nowExpired) ==
    /\ expired' = expired \cup nowExpired
    /\ \/ LoadFails
       \/ /\ cache' = KeepUnexpired
          /\ unread' = FALSE
          /\ saving' = FALSE /\ saver' = NoSaver

\* LoadFromDisk keeps the entries that have not expired, and schedules a
\* rewrite of the file when it left some out.
LoadFromDisk(nowExpired) ==
    /\ expired' = expired \cup nowExpired
    /\ \/ LoadFails
       \/ /\ cache' = KeepUnexpired
          /\ unread' = FALSE
          /\ IF cache' = disk
             THEN saving' = FALSE /\ saver' = NoSaver
             ELSE /\ saving' = TRUE
                  /\ \E s \in Savers : saver' = [NoSaver EXCEPT ![s] = "copy"]

\* The process dies at any point, goroutines and mutexes with it, and a new
\* one starts: NewResolver.  (Or the client is closed, has nothing left to
\* save, and another is made.)
Restart(nowExpired) ==
    /\ LoadFromDisk(nowExpired)
    /\ requesting' = {}
    /\ savePending' = FALSE
    /\ fileMutex' = Free
    /\ writeFailed' = FALSE
    /\ UNCHANGED <<clock, image, disk>>

-----------------------------------------------------------------------------

SaverStep(s) ==
    \/ CopyCache(s)
    \/ LockFile(s)
    \/ \E ok \in BOOLEAN : WriteFile(s, ok)
    \/ SaveAgainOrStop(s)

Run ==
    \/ \E w \in Writers, d \in Domains : Set(w, d)
    \/ \E w \in Writers : SaveResolveCacheAsync(w)
    \/ \E s \in Savers : SaverStep(s)
    \/ \E o \in Others : OtherLocks(o) \/ OtherUnlocks(o)

OnDisk == {disk[d] : d \in Domains} \ {0}

Next == Run \/ \E nowExpired \in SUBSET OnDisk : Restart(nowExpired)

Spec == Init /\ [][Next]_vars

\* Goroutines run.  A Go mutex hands itself to a waiter that has starved for
\* a millisecond, hence strong fairness for the lock.
Fairness ==
    /\ \A w \in Writers : WF_vars(SaveResolveCacheAsync(w))
    /\ \A s \in Savers : WF_vars(SaverStep(s)) /\ SF_vars(LockFile(s))
    /\ \A o \in Others : WF_vars(OtherUnlocks(o))

FairSpec == Spec /\ Fairness

-----------------------------------------------------------------------------

\* Every variable stays in its range; no entry is newer than the newest Set.
TypeOK ==
    /\ clock \in 0 .. MaxSets
    /\ cache \in [Domains -> 0 .. clock]
    /\ requesting \subseteq Writers
    /\ saving \in BOOLEAN
    /\ savePending \in BOOLEAN
    /\ saver \in [Savers -> SaverLabels]
    /\ image \in [Savers -> [Domains -> 0 .. clock]]
    /\ fileMutex \in Savers \cup Others \cup {Free}
    /\ disk \in [Domains -> 0 .. clock]
    /\ expired \subseteq 1 .. clock
    /\ writeFailed \in BOOLEAN
    /\ unread \in BOOLEAN

\* Goroutines do not pile up, as saving and savePending are there to ensure
\* (cache.go, the comment on saveMu): there is at most one that saves, and
\* saving says whether there is one.
SingleSaver ==
    /\ \A s, t \in Active : s = t
    /\ saving <=> Active # {}

\* A merged request is not a lost one: when no request and no save is under
\* way, the file holds the cache, unless the last write failed.  A file that
\* could not be read stays as it is only until something has been set.
QuiescentPersisted ==
    requesting = {} /\ ~saving /\ ~writeFailed =>
        disk = cache \/ (unread /\ cache = EmptyCache)

\* With one client at a time, the file never goes back to an older entry, nor
\* loses one, across saves and restarts, except those that have expired, and
\* those the running client could not read: its first save that succeeds
\* writes over these, and no later one loses anything.
DiskNeverRegresses ==
    [][\A d \in Domains : disk[d] <= disk'[d] \/ disk[d] \in expired' \/ unread]_vars

\* Whatever is set reaches the disk, or something newer does, although
\* requests are merged and fileMutex is shared; unless the process dies
\* first, which takes the entry from memory, or a write fails.
Persisted ==
    \A d \in Domains, v \in 1 .. MaxSets :
        cache[d] = v ~> disk[d] >= v \/ cache[d] < v \/ writeFailed

\* The refinement of WriteBehind: the image under way is the copy of the
\* goroutine between CopyCache and WriteFile; a save is owed as long as a
\* request is on its way, merged, or about to be served.
InFlight == {s \in Savers : saver[s] \in {"lock", "write"}}

ImageUnderWay == IF InFlight = {} THEN NoImage ELSE image[CHOOSE s \in InFlight : TRUE]

SaveOwed ==
    \/ requesting # {}
    \/ savePending
    \/ \E s \in Savers : saver[s] = "copy"

WB == INSTANCE WriteBehind WITH
          Contents <- [Domains -> Nat], mem <- cache,
          Blank <- EmptyCache,
          image <- ImageUnderWay, owed <- SaveOwed, failed <- writeFailed

\* Saving in the background is write-behind of the cache.
ImplementsWriteBehind == WB!WBSpec
=============================================================================
