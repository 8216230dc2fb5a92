-------------------------- MODULE ServiceIPPersistence --------------------------
(***************************************************************************)
(* The list of service IPs across restarts: who fetches it, who saves it,  *)
(* and for how long a saved list is used again (pkg/httpdns/client.go,     *)
(* network.go and cache.go).  Calls fetch a list when the one in memory is *)
(* stale and do not save it; client.UpdateServiceIPs and the periodic      *)
(* goroutine fetch and save.  A save is a goroutine of its own that dates  *)
(* the list when it has fileMutex, not when the list was fetched.  A new   *)
(* process loads a list that was dated less than a day ago and takes it    *)
(* for one fetched just now.                                               *)
(*                                                                         *)
(* A list is the tick in which it was fetched.  The code takes no time;    *)
(* asking an endpoint, waiting for fileMutex and writing do.               *)
(***************************************************************************)
EXTENDS Naturals, FiniteSets

CONSTANTS
    Callers,    \* calls that fetch a list when they need one
    Updaters,   \* UpdateServiceIPs and the periodic goroutine
    Savers,     \* goroutines of SaveServiceIPsAsync, used again when they are
                \* done: a bound on those alive at a time
    StaleAfter, \* eight hours: a list in memory is fetched again
    KeepFor,    \* a day: a list on disk is loaded
    SaveDelay,  \* the longest a save takes, the wait for fileMutex included
    MaxTime     \* bound: where the clock stops

Fetchers == Callers \cup Updaters

NoList == 0

Times == 0 .. MaxTime

ASSUME TimeAssumption ==
    /\ StaleAfter \in Nat /\ KeepFor \in Nat /\ SaveDelay \in Nat
    /\ MaxTime \in Nat \ {0}
    /\ IsFiniteSet(Savers) /\ IsFiniteSet(Updaters)

VARIABLES
    now,
    up,             \* the process runs
    list,           \* the list in memory, or NoList
    updatedAt,      \* when the pool believes it was fetched
    fetcher,        \* control point of each fetcher
    saver,          \* control point of each saver
    ips,            \* the list it is to save
    begun,          \* when it was started
    stamp,          \* the UpdatedAt it writes
    otherHolds,     \* a save of the resolve cache holds fileMutex
    diskList,       \* service_ips.json: the list, or NoList, and its date
    diskStamp,
    writeFailed     \* history: a write has failed in this process

poolVars == <<list, updatedAt>>
saverVars == <<saver, ips, begun, stamp>>
diskVars == <<diskList, diskStamp, writeFailed>>
vars == <<now, up, poolVars, fetcher, saverVars, otherHolds, diskVars>>

FileMutexFree == ~otherHolds /\ \A s \in Savers : saver[s] # "write"

-----------------------------------------------------------------------------

\* The first process, without a file.
Init ==
    /\ now = 1
    /\ up = TRUE
    /\ list = NoList /\ updatedAt = 0
    /\ fetcher = [f \in Fetchers |-> "idle"]
    /\ saver = [s \in Savers |-> "idle"]
    /\ ips = [s \in Savers |-> NoList]
    /\ begun = [s \in Savers |-> 0]
    /\ stamp = [s \in Savers |-> 0]
    /\ otherHolds = FALSE
    /\ diskList = NoList /\ diskStamp = 0 /\ writeFailed = FALSE

ShouldUpdateServiceIPs == list = NoList \/ now > updatedAt + StaleAfter

\* Room for the saves of all updaters under way.
MaySave ==
    Cardinality({u \in Updaters : fetcher[u] # "idle"})
      < Cardinality({s \in Savers : saver[s] = "idle"})

BeginFetch(f) ==
    /\ up /\ fetcher[f] = "idle"
    /\ \/ f \in Callers /\ ShouldUpdateServiceIPs
       \/ f \in Updaters /\ MaySave
    /\ fetcher' = [fetcher EXCEPT ![f] = "fetch"]
    /\ UNCHANGED <<now, up, poolVars, saverVars, otherHolds, diskVars>>

Fetched(f) ==
    /\ fetcher[f] = "fetch"
    /\ list' = now /\ updatedAt' = now
    /\ fetcher' = [fetcher EXCEPT ![f] = IF f \in Updaters THEN "save" ELSE "idle"]
    /\ UNCHANGED <<now, up, saverVars, otherHolds, diskVars>>

\* Mutant of FetchFails: what is in memory is saved in any case.
SaveAfterFailure(f) ==
    /\ fetcher[f] = "fetch"
    /\ fetcher' = [fetcher EXCEPT ![f] = IF f \in Updaters THEN "save" ELSE "idle"]
    /\ UNCHANGED <<now, up, poolVars, saverVars, otherHolds, diskVars>>

FetchFails(f) ==
    /\ fetcher[f] = "fetch"
    /\ fetcher' = [fetcher EXCEPT ![f] = "idle"]
    /\ UNCHANGED <<now, up, poolVars, saverVars, otherHolds, diskVars>>

\* Mutant of SaveServiceIPsAsync: a save under way is enough.
SaveUnlessSaving(u) ==
    /\ fetcher[u] = "save"
    /\ fetcher' = [fetcher EXCEPT ![u] = "idle"]
    /\ \/ /\ \E s \in Savers : saver[s] # "idle"
          /\ UNCHANGED saverVars
       \/ /\ \A s \in Savers : saver[s] = "idle"
          /\ \E s \in Savers :
                /\ saver' = [saver EXCEPT ![s] = "lock"]
                /\ ips' = [ips EXCEPT ![s] = list]
                /\ begun' = [begun EXCEPT ![s] = now]
          /\ UNCHANGED stamp
    /\ UNCHANGED <<now, up, poolVars, otherHolds, diskVars>>

\* GetServiceIPs and the start of the goroutine; the list may by now be the
\* one of another fetch.
SaveServiceIPsAsync(u) ==
    /\ fetcher[u] = "save"
    /\ fetcher' = [fetcher EXCEPT ![u] = "idle"]
    /\ \E s \in Savers :
          /\ saver[s] = "idle"
          /\ saver' = [saver EXCEPT ![s] = "lock"]
          /\ ips' = [ips EXCEPT ![s] = list]
          /\ begun' = [begun EXCEPT ![s] = now]
    /\ UNCHANGED <<now, up, poolVars, stamp, otherHolds, diskVars>>

\* Mutant of LockAndDate: the file says until when the list is good.
LockAndDateAhead(s) ==
    /\ saver[s] = "lock" /\ FileMutexFree
    /\ saver' = [saver EXCEPT ![s] = "write"]
    /\ stamp' = [stamp EXCEPT ![s] = now + KeepFor]
    /\ UNCHANGED <<now, up, poolVars, fetcher, ips, begun, otherHolds, diskVars>>

\* Goroutines get fileMutex in any order.
LockAndDate(s) ==
    /\ saver[s] = "lock" /\ FileMutexFree
    /\ saver' = [saver EXCEPT ![s] = "write"]
    /\ stamp' = [stamp EXCEPT ![s] = now]
    /\ UNCHANGED <<now, up, poolVars, fetcher, ips, begun, otherHolds, diskVars>>

\* writeJSONFile, one step here, and the deferred unlock; an
\* error is logged and forgotten.
WriteFile(s) ==
    /\ saver[s] = "write"
    /\ saver' = [saver EXCEPT ![s] = "idle"]
    /\ ips' = [ips EXCEPT ![s] = NoList]
    /\ begun' = [begun EXCEPT ![s] = 0]
    /\ stamp' = [stamp EXCEPT ![s] = 0]
    /\ \/ /\ diskList' = ips[s] /\ diskStamp' = stamp[s]
          /\ UNCHANGED writeFailed
       \/ /\ writeFailed' = TRUE
          /\ UNCHANGED <<diskList, diskStamp>>
    /\ UNCHANGED <<now, up, poolVars, fetcher, otherHolds>>

OtherLocks ==
    /\ up /\ FileMutexFree
    /\ otherHolds' = TRUE
    /\ UNCHANGED <<now, up, poolVars, fetcher, saverVars, diskVars>>

OtherUnlocks ==
    /\ otherHolds
    /\ otherHolds' = FALSE
    /\ UNCHANGED <<now, up, poolVars, fetcher, saverVars, diskVars>>

-----------------------------------------------------------------------------

\* The process dies at any point; only the file is left.
Crash ==
    /\ up
    /\ up' = FALSE
    /\ list' = NoList /\ updatedAt' = 0
    /\ fetcher' = [f \in Fetchers |-> "idle"]
    /\ saver' = [s \in Savers |-> "idle"]
    /\ ips' = [s \in Savers |-> NoList]
    /\ begun' = [s \in Savers |-> 0]
    /\ stamp' = [s \in Savers |-> 0]
    /\ otherHolds' = FALSE
    /\ UNCHANGED <<now, diskVars>>

\* Mutant of LoadServiceIPs: a list of any age will do.
LoadAnything(loaded) == loaded = diskList

\* What is loaded from the file: nothing if it is too old, and nothing if it
\* cannot be read or parsed.
LoadServiceIPs(loaded) ==
    \/ loaded = NoList
    \/ now <= diskStamp + KeepFor /\ loaded = diskList

\* NewClient: a list that is loaded is put into the pool as a fetched one is.
NewClient ==
    /\ ~up
    /\ up' = TRUE
    /\ \E loaded \in Times :
          /\ LoadServiceIPs(loaded)
          /\ list' = loaded
          /\ updatedAt' = IF loaded = NoList THEN 0 ELSE now
    /\ writeFailed' = FALSE
    /\ UNCHANGED <<now, fetcher, saverVars, otherHolds, diskList, diskStamp>>

Tick ==
    /\ now < MaxTime
    /\ \A u \in Updaters : fetcher[u] # "save"
    /\ \A s \in Savers : saver[s] # "idle" => now < begun[s] + SaveDelay
    /\ now' = now + 1
    /\ UNCHANGED <<up, poolVars, fetcher, saverVars, otherHolds, diskVars>>

-----------------------------------------------------------------------------

SaverStep(s) == LockAndDate(s) \/ WriteFile(s)

Next ==
    \/ \E f \in Fetchers : BeginFetch(f) \/ Fetched(f) \/ FetchFails(f)
    \/ \E u \in Updaters : SaveServiceIPsAsync(u)
    \/ \E s \in Savers : SaverStep(s)
    \/ OtherLocks \/ OtherUnlocks
    \/ Crash \/ NewClient
    \/ Tick

Spec == Init /\ [][Next]_vars

\* Goroutines run, writes end, and a mutex does not pass over a waiter for
\* ever.
Fairness ==
    /\ \A u \in Updaters : WF_vars(SaveServiceIPsAsync(u))
    /\ \A s \in Savers : WF_vars(SaverStep(s)) /\ SF_vars(LockAndDate(s))
    /\ WF_vars(OtherUnlocks)

FairSpec == Spec /\ Fairness

-----------------------------------------------------------------------------

\* Every variable stays in its range; nothing is dated in the future.
TypeOK ==
    /\ now \in Times
    /\ up \in BOOLEAN /\ otherHolds \in BOOLEAN /\ writeFailed \in BOOLEAN
    /\ list \in 0 .. now /\ updatedAt \in 0 .. now
    /\ fetcher \in [Fetchers -> {"idle", "fetch", "save"}]
    /\ saver \in [Savers -> {"idle", "lock", "write"}]
    /\ ips \in [Savers -> 0 .. now]
    /\ begun \in [Savers -> 0 .. now]
    /\ stamp \in [Savers -> 0 .. now]
    /\ diskList \in 0 .. now /\ diskStamp \in 0 .. now

\* The date on the file is the list's own, but for the time a save takes:
\* saving late, or in another order than the lists were fetched in, makes no
\* old list young.
DateIsHonest ==
    diskList # NoList => diskStamp <= diskList + SaveDelay

\* A list that is used without asking for a new one was fetched at most a day
\* and eight hours ago (and the time a save takes), over however many
\* restarts it was handed on.
NeverTooOld ==
    up /\ ~ShouldUpdateServiceIPs => now <= list + KeepFor + StaleAfter + SaveDelay

\* The file never goes back by more than the time a save takes, although
\* saves overtake each other.
FileKeepsUp == [][diskList' + SaveDelay >= diskList]_vars

\* A list that UpdateServiceIPs or the periodic goroutine fetched reaches the
\* file, or one that is newer does; unless a write fails or the process dies.
ListIsSaved ==
    \A u \in Updaters, t \in 1 .. MaxTime :
        fetcher[u] = "save" /\ list = t
          ~> diskList >= t \/ writeFailed \/ ~up
=============================================================================
