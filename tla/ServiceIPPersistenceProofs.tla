----------------------- MODULE ServiceIPPersistenceProofs -----------------------
(***************************************************************************)
(* Proofs about ServiceIPPersistence, for any number of fetchers and       *)
(* savers, any limits and any length of the run.                           *)
(***************************************************************************)
EXTENDS ServiceIPPersistence, TLAPS

\* A list is taken to be saved in the tick in which it was fetched, and the
\* clock does not outrun a save.
SavesOK ==
    /\ \A u \in Updaters : fetcher[u] = "save" => list = now
    /\ \A s \in Savers :
          /\ saver[s] # "idle" => ips[s] = begun[s] /\ now <= begun[s] + SaveDelay
          /\ saver[s] = "write" => begun[s] <= stamp[s]

\* Nothing fetches while the process is down.
DownOK == up \/ \A f \in Fetchers : fetcher[f] = "idle"

\* The date of the file is neither earlier than its list nor much later.
DiskOK ==
    /\ diskList <= diskStamp
    /\ DateIsHonest

\* What the pool believes of its list is off by a day and a save at most.
PoolOK ==
    list # NoList => /\ updatedAt <= list + KeepFor + SaveDelay

Inv == TypeOK /\ SavesOK /\ DownOK /\ DiskOK /\ PoolOK

LEMMA InitOK == Init => Inv
  <1> SUFFICES ASSUME Init PROVE Inv
    OBVIOUS
  <1>1. now \in Times
    BY TimeAssumption DEF Init, Times
  <1>2. up \in BOOLEAN /\ otherHolds \in BOOLEAN /\ writeFailed \in BOOLEAN
    BY DEF Init
  <1>3. TypeOK
    BY <1>1, <1>2 DEF Init, TypeOK, NoList
  <1>4. SavesOK /\ DiskOK /\ PoolOK
    BY DEF Init, SavesOK, DiskOK, DateIsHonest, PoolOK, NoList, Fetchers
  <1>5. DownOK
    BY DEF Init, DownOK
  <1> QED
    BY <1>3, <1>4, <1>5 DEF Inv

\* A process that is down stays idle until the next one starts.
LEMMA DownKept == Inv /\ [Next]_vars => DownOK'
  <1> SUFFICES ASSUME Inv, [Next]_vars PROVE DownOK'
    OBVIOUS
  <1>1. CASE UNCHANGED <<up, fetcher>>
    BY <1>1 DEF Inv, DownOK
  <1>2. ASSUME NEW f \in Fetchers, BeginFetch(f) \/ Fetched(f) \/ FetchFails(f)
        PROVE  DownOK'
    BY <1>2 DEF BeginFetch, Fetched, FetchFails, Inv, DownOK, TypeOK
  <1>3. ASSUME NEW u \in Updaters, SaveServiceIPsAsync(u)
        PROVE  DownOK'
    BY <1>3 DEF SaveServiceIPsAsync, Inv, DownOK, TypeOK, Fetchers
  <1>4. CASE Crash \/ NewClient
    BY <1>4 DEF Crash, NewClient, DownOK
  <1> QED
    BY <1>1, <1>2, <1>3, <1>4
    DEF Next, vars, SaverStep, LockAndDate, WriteFile, OtherLocks, OtherUnlocks, Tick

\* The rest of the invariant.
Rest == TypeOK /\ SavesOK /\ DiskOK /\ PoolOK

\* Steps of a fetcher.
LEMMA FetchOK ==
    ASSUME Inv, NEW f \in Fetchers, BeginFetch(f) \/ Fetched(f) \/ FetchFails(f)
    PROVE  Rest'
  <1> USE TimeAssumption DEF Inv, Rest
  <1>1. UNCHANGED <<now, up, saverVars, otherHolds, diskVars>>
    BY DEF BeginFetch, Fetched, FetchFails
  <1>2. CASE BeginFetch(f) \/ FetchFails(f)
    <2>1. UNCHANGED poolVars /\ \A u \in Updaters : fetcher'[u] = "save" => fetcher[u] = "save"
      BY <1>2 DEF BeginFetch, FetchFails, TypeOK, Fetchers
    <2>2. fetcher' \in [Fetchers -> {"idle", "fetch", "save"}]
      BY <1>2 DEF BeginFetch, FetchFails, TypeOK
    <2> QED
      BY <1>1, <2>1, <2>2
      DEF TypeOK, SavesOK, DiskOK, DateIsHonest, PoolOK, poolVars, saverVars, diskVars
  <1>3. CASE Fetched(f)
    <2>1. list' = now /\ updatedAt' = now /\ now \in Nat
      BY <1>3 DEF Fetched, TypeOK, Times
    <2>2. fetcher' \in [Fetchers -> {"idle", "fetch", "save"}]
      BY <1>3 DEF Fetched, TypeOK
    <2> QED
      BY <1>1, <2>1, <2>2
      DEF TypeOK, SavesOK, DiskOK, DateIsHonest, PoolOK, saverVars, diskVars
  <1> QED
    BY <1>2, <1>3

LEMMA SaveOK ==
    ASSUME Inv, NEW u \in Updaters, SaveServiceIPsAsync(u)
    PROVE  Rest'
  <1> USE TimeAssumption DEF Inv, Rest
  <1>1. UNCHANGED <<now, up, list, updatedAt, stamp, otherHolds, diskVars>>
        /\ list = now /\ now \in Nat
    BY DEF SaveServiceIPsAsync, poolVars, SavesOK, TypeOK, Times
  <1>2. fetcher' \in [Fetchers -> {"idle", "fetch", "save"}]
        /\ \A v \in Updaters : fetcher'[v] = "save" => fetcher[v] = "save"
    BY DEF SaveServiceIPsAsync, TypeOK, Fetchers
  <1>3. PICK s \in Savers :
           /\ saver[s] = "idle"
           /\ saver' = [saver EXCEPT ![s] = "lock"]
           /\ ips' = [ips EXCEPT ![s] = list]
           /\ begun' = [begun EXCEPT ![s] = now]
    BY DEF SaveServiceIPsAsync
  <1>4. TypeOK'
    BY <1>1, <1>2, <1>3 DEF TypeOK, diskVars
  <1>5. SavesOK'
    BY <1>1, <1>2, <1>3 DEF TypeOK, SavesOK
  <1> QED
    BY <1>1, <1>4, <1>5 DEF DiskOK, DateIsHonest, PoolOK, diskVars

LEMMA SaverOK ==
    ASSUME Inv, NEW s \in Savers, SaverStep(s)
    PROVE  Rest'
  <1> USE TimeAssumption DEF Inv, Rest
  <1>1. CASE LockAndDate(s)
    <2>1. UNCHANGED <<now, up, list, updatedAt, fetcher, ips, begun, otherHolds, diskVars>>
          /\ now \in Nat /\ begun[s] <= now
      BY <1>1 DEF LockAndDate, poolVars, TypeOK, Times
    <2>2. TypeOK'
      BY <1>1, <2>1 DEF LockAndDate, TypeOK, diskVars
    <2>3. SavesOK'
      BY <1>1, <2>1 DEF LockAndDate, SavesOK, TypeOK
    <2> QED
      BY <2>1, <2>2, <2>3 DEF DiskOK, DateIsHonest, PoolOK, diskVars
  <1>2. CASE WriteFile(s)
    <2>1. UNCHANGED <<now, up, list, updatedAt, fetcher, otherHolds>> /\ now \in Nat
      BY <1>2 DEF WriteFile, poolVars, TypeOK, Times
    <2>2. /\ saver' = [saver EXCEPT ![s] = "idle"]
          /\ ips' = [ips EXCEPT ![s] = NoList]
          /\ begun' = [begun EXCEPT ![s] = 0]
          /\ stamp' = [stamp EXCEPT ![s] = 0]
      BY <1>2 DEF WriteFile
    <2>3. \/ diskList' = diskList /\ diskStamp' = diskStamp
          \/ diskList' = ips[s] /\ diskStamp' = stamp[s]
      BY <1>2 DEF WriteFile
    <2>4. writeFailed' \in BOOLEAN
      BY <1>2 DEF WriteFile, TypeOK
    <2>5. TypeOK'
      BY <2>1, <2>2, <2>3, <2>4 DEF TypeOK, NoList
    <2>6. SavesOK'
      BY <2>1, <2>2 DEF SavesOK, TypeOK
    <2>7. /\ ips[s] <= stamp[s] /\ stamp[s] <= now /\ now <= ips[s] + SaveDelay
          /\ ips[s] \in Nat /\ stamp[s] \in Nat
      BY <1>2, <2>1 DEF WriteFile, SavesOK, TypeOK
    <2>8. DiskOK'
      BY <2>1, <2>3, <2>7 DEF DiskOK, DateIsHonest, NoList
    <2> QED
      BY <2>1, <2>5, <2>6, <2>8 DEF PoolOK
  <1> QED
    BY <1>1, <1>2 DEF SaverStep

LEMMA OtherOK == ASSUME Inv, OtherLocks \/ OtherUnlocks PROVE Rest'
  <1>1. UNCHANGED <<now, up, list, updatedAt, fetcher, saver, ips, begun, stamp,
                    diskList, diskStamp, writeFailed>>
    BY DEF OtherLocks, OtherUnlocks, poolVars, saverVars, diskVars
  <1>2. otherHolds' \in BOOLEAN
    BY DEF OtherLocks, OtherUnlocks
  <1>3. TypeOK'
    BY <1>1, <1>2 DEF Inv, TypeOK
  <1> QED
    BY <1>1, <1>3 DEF Inv, Rest, SavesOK, DiskOK, DateIsHonest, PoolOK

LEMMA CrashOK == ASSUME Inv, Crash PROVE Rest'
  <1>1. TypeOK'
    <2>1. up' \in BOOLEAN /\ otherHolds' \in BOOLEAN /\ writeFailed' \in BOOLEAN
      BY DEF Crash, diskVars, Inv, TypeOK
    <2> QED
      BY <2>1, TimeAssumption DEF Crash, Inv, TypeOK, diskVars, NoList, Times
  <1>2. SavesOK' /\ DiskOK' /\ PoolOK'
    BY DEF Crash, Inv, SavesOK, DiskOK, DateIsHonest, PoolOK, diskVars, NoList, Fetchers
  <1> QED
    BY <1>1, <1>2 DEF Rest

LEMMA NewClientOK == ASSUME Inv, NewClient PROVE Rest'
  <1> USE TimeAssumption DEF Inv, Rest
  <1>1. UNCHANGED <<now, fetcher, saver, ips, begun, stamp, otherHolds, diskList, diskStamp>>
        /\ now \in Nat
    BY DEF NewClient, saverVars, TypeOK, Times
  <1>2. \/ list' = NoList /\ updatedAt' = 0
        \/ /\ list' = diskList /\ list' # NoList /\ updatedAt' = now
           /\ now <= diskStamp + KeepFor
    BY DEF NewClient, LoadServiceIPs
  <1>3. up' \in BOOLEAN /\ writeFailed' \in BOOLEAN
    BY DEF NewClient
  <1>4. TypeOK'
    BY <1>1, <1>2, <1>3 DEF TypeOK, NoList
  <1>5. SavesOK'
    <2>1. \A f \in Fetchers : fetcher[f] = "idle"
      BY DEF NewClient, DownOK
    <2> QED
      BY <1>1, <2>1 DEF SavesOK, Fetchers
  <1>6. PoolOK'
    BY <1>1, <1>2 DEF PoolOK, DiskOK, DateIsHonest, TypeOK, NoList
  <1> QED
    BY <1>1, <1>4, <1>5, <1>6 DEF DiskOK, DateIsHonest

LEMMA TickOK == ASSUME Inv, Tick PROVE Rest'
  <1> USE TimeAssumption DEF Inv, Rest
  <1>1. /\ UNCHANGED <<up, list, updatedAt, fetcher, saver, ips, begun, stamp, otherHolds,
                       diskList, diskStamp, writeFailed>>
        /\ now \in Nat /\ now' = now + 1 /\ now' \in Times
    BY DEF Tick, poolVars, saverVars, diskVars, TypeOK, Times
  <1>2. TypeOK'
    BY <1>1 DEF TypeOK
  <1>3. SavesOK'
    BY <1>1 DEF Tick, SavesOK, TypeOK
  <1> QED
    BY <1>1, <1>2, <1>3 DEF DiskOK, DateIsHonest, PoolOK

LEMMA NextOK == Inv /\ [Next]_vars => Inv'
  <1> SUFFICES ASSUME Inv, [Next]_vars PROVE Inv'
    OBVIOUS
  <1>1. ASSUME UNCHANGED vars PROVE Rest'
    BY <1>1 DEF vars, poolVars, saverVars, diskVars, Inv, TypeOK, SavesOK, DiskOK,
                DateIsHonest, PoolOK, Rest
  <1>2. ASSUME Next PROVE Rest'
    BY <1>2, FetchOK, SaveOK, SaverOK, OtherOK, CrashOK, NewClientOK, TickOK DEF Next
  <1> QED
    BY <1>1, <1>2, DownKept DEF Rest, Inv

LEMMA Invariance == Spec => []Inv
  BY InitOK, NextOK, PTL DEF Spec

-----------------------------------------------------------------------------

\* Type correctness; nothing is ever dated in the future.
THEOREM TypeCorrect == Spec => []TypeOK
  <1>1. Inv => TypeOK
    BY DEF Inv
  <1> QED
    BY <1>1, Invariance, PTL

\* The date LoadServiceIPs trusts is the list's own, but for the time a save
\* takes, whatever saves overlap and whenever the process dies.
THEOREM FileIsDatedHonestly == Spec => []DateIsHonest
  <1>1. Inv => DateIsHonest
    BY DEF Inv, DiskOK
  <1> QED
    BY <1>1, Invariance, PTL

\* However often the process restarts, no list is used that was fetched more
\* than a day, eight hours and the time of a save ago.
THEOREM NoListTooOld == Spec => []NeverTooOld
  <1>1. Inv => NeverTooOld
    <2> SUFFICES ASSUME Inv, ~ShouldUpdateServiceIPs
                 PROVE  now <= list + KeepFor + StaleAfter + SaveDelay
      BY DEF NeverTooOld
    <2>1. list # NoList /\ now <= updatedAt + StaleAfter
      BY TimeAssumption DEF ShouldUpdateServiceIPs, Inv, TypeOK, Times
    <2>2. updatedAt <= list + KeepFor + SaveDelay
      BY <2>1 DEF Inv, PoolOK
    <2> QED
      BY <2>1, <2>2, TimeAssumption DEF Inv, TypeOK, Times
  <1> QED
    BY <1>1, Invariance, PTL

\* Saves that overtake each other take the file back by no more than the
\* time a save takes.
THEOREM FileNeverFarBehind == Spec => FileKeepsUp
  <1>1. Inv /\ [Next]_vars => [diskList' + SaveDelay >= diskList]_vars
    <2> SUFFICES ASSUME Inv, Next PROVE diskList' + SaveDelay >= diskList
      OBVIOUS
    <2>1. diskList \in Nat /\ diskList <= now /\ now \in Nat /\ SaveDelay \in Nat
      BY TimeAssumption DEF Inv, TypeOK, Times
    <2>2. ASSUME NEW s \in Savers, WriteFile(s)
          PROVE  diskList' = diskList \/ (diskList' \in Nat /\ now <= diskList' + SaveDelay)
      BY <2>2, TimeAssumption DEF WriteFile, Inv, SavesOK, TypeOK
    <2>3. diskList' = diskList \/ (diskList' \in Nat /\ now <= diskList' + SaveDelay)
      BY <2>2 DEF Next, SaverStep, BeginFetch, Fetched, FetchFails, SaveServiceIPsAsync,
                  LockAndDate, OtherLocks, OtherUnlocks, Crash, NewClient, Tick, diskVars
    <2> QED
      BY <2>1, <2>3
  <1> QED
    BY <1>1, Invariance, PTL DEF Spec, FileKeepsUp
=============================================================================
