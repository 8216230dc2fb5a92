# Formal model of alicloud-httpdns-go-sdk

TLA+ modules, TLC configurations and TLAPS proofs for the Go SDK in this
repository: a client that resolves domains over HTTP against Alibaba Cloud's
HTTPDNS service, with failover between server addresses, a memory cache that
may serve expired entries, and a cache on disk.

## The system

| part | code | state | operations | talks to |
|---|---|---|---|---|
| service IP pool | `internal/pool/service_ip.go` | list, current IP, failed IPs with times, time of update; one RWMutex | `UpdateServiceIPs`, `GetAvailableIP`, `MarkIPFailed`, readers | called by the request path, by `NewClient` and by the periodic goroutine |
| bootstrap | `internal/pool/service_ip.go` | endpoints (fixed) | `FetchServiceIPs`: ask the endpoints in order, then a domain | HTTP; fills the pool |
| request path | `pkg/httpdns/network.go` | none of its own | `UpdateServiceIPsIfNeeded`, `GetAvailableServiceIP`, `DoRequestWithRetry`, `DoRequest` | pool, bootstrap, HTTP |
| resolver | `pkg/httpdns/resolver.go` | `updating`, under `updateMu` | `ResolveSingle`, `ResolveBatch`, `ResolveAsync`, `tryAsyncUpdate`, `asyncUpdate`, `updateCache` | cache, request path, goroutines of its own |
| memory cache | `pkg/httpdns/cache.go` | `cache`, under `cacheMutex` | `Get`, `Set` | resolver |
| persistence | `pkg/httpdns/cache.go` | `saving`, `savePending` under `saveMu`; `fileMutex`; two files | `LoadFromDisk`, `SaveResolveCacheAsync`, `LoadServiceIPs`, `SaveServiceIPsAsync`, `writeJSONFile` | memory cache, file system, one goroutine per save |
| client | `pkg/httpdns/client.go` | `started`, `stopCh`, `wg`; an RWMutex held for reading by every call | `NewClient`, `start`, `Close`, periodic update of the list, the public API | all of the above |
| metrics | `pkg/httpdns/metrics.go` | counters under one mutex | `RecordX`, `GetStats`, `Reset` | resolver |
| signatures, URLs, configuration, errors, types | `auth.go`, `network.go`, `config.go`, `errors.go`, `types.go` | none | pure functions, constructors | |

What is hard to test in it: any number of calls share one pool and one cache;
deadlines, cancellation and back-off race answers; requests to save are merged
while a save runs; the process may die between any two steps; a call reads the
cache, starts a goroutine and goes on; answers arrive in any order; two clients
may share a directory. PROJECT.json lists each hazard with its line.

What makes each part right:

* pool: the current IP is listed; it is left only for a reason; a retry moves on;
* request path: a call ends; it succeeds if a good IP can be reached in time;
  the client recovers when the network does;
* resolver: one refresh per name; expired entries that are asked for become
  fresh; a batch returns what was asked for; answers are what the caller asked for;
* persistence: one saver, nothing lost, nothing older than before, a readable file;
* life cycle: a client is closed once, no call resolves when it is closed, and none hangs;
* persistence of the list: it is not used for ever, and the file does not fall behind;
* metrics: a snapshot adds up;
* URLs: a signature is good for as long as configured, the IP marked is the one asked.

## The modules

| module | models | checked by | proved in |
|---|---|---|---|
| `ServiceIPManager` | the pool: each operation is one action, as each runs under the mutex from start to end | through `HTTPDNSClient` | through `HTTPDNSClientProofs` |
| `HTTPDNSClient` | extends the pool with the calls and refreshes that use it, deadlines and the clock | `MCHTTPDNSClient` | `HTTPDNSClientProofs` |
| `Resolver` | calls, memory cache, background refreshes | `MCResolver` | `ResolverProofs` |
| `ResolverContract` | the abstract promise of a caching resolver | as a PROPERTY of `Resolver` | through `ResolverProofs` |
| `CachePersistence` | memory cache, merged saves, the file, restarts | itself | `CachePersistenceProofs` |
| `WriteBehind` | the abstract promise of asynchronous persistence | as a PROPERTY of `CachePersistence` | through `CachePersistenceProofs` |
| `AtomicFile` | `writeJSONFile` on inodes, for several clients of one directory | `MCAtomicFile` | `AtomicFileProofs` |
| `ServiceIPPersistence` | the list across restarts: fetches, saves, the file and its date | itself | `ServiceIPPersistenceProofs` |
| `ClientLifecycle` | the RWMutex around every call, the periodic goroutine, `Close`, callbacks | itself | `ClientLifecycleProofs` |
| `ClientContract` | the abstract promise of closing | as a PROPERTY of `ClientLifecycle` | through `ClientLifecycleProofs` |
| `Metrics` | the counters and the calls that move them | itself | `MetricsProofs` |
| `RequestURL` | URLs, signatures, the IP read back from a URL, over the attempts of a call | `MCRequestURL` | `RequestURLProofs` |

`HTTPDNSClient` composes with `ServiceIPManager` by EXTENDS: its steps call the
pool's operations. `Resolver` abstracts the request path to "answered or
failed", `HTTPDNSClient` abstracts the resolver to "a call begins and ends".
`CachePersistence` and `ServiceIPPersistence` take `writeJSONFile` as one step and
`AtomicFile` takes it apart; each of the two sees the other as the other user of
`fileMutex`. `SavesAreAtomic` is what entitles them to that one step.
`ClientLifecycle` knows that a call takes a while, `Metrics` how it
ends, `RequestURL` what it sends. Definitions whose comment begins with "Mutant of" are not part of any
specification: each is a plausible mistake that a listed property must catch.

### ServiceIPManager and HTTPDNSClient

`serviceIPs` and `currentIP` are the fields of those names. Times are ages:
`sinceFailure[ip]` is the age of `failedIPs[ip]`, `sinceUpdate` that of
`updatedAt`, both cut off one tick past the bound the code compares them with,
so the clock is finite without a bound on the length of behaviours.

A process is a `Calls` (the network part of `ResolveSingle`, `ResolveBatch` or
`asyncUpdate`) or a `Refreshers` (`FetchServiceIPs` from `UpdateServiceIPs` or
the periodic goroutine). Control points: `check` (UpdateServiceIPsIfNeeded),
`fetch` (waiting for bootstrap endpoint `ep`), `build` (the top of the retry
loop), `send` (waiting for service IP `ip`), `backoff`, then `ok` or `failed`.
`ctxLeft` is what is left of the context, `timer` of the request or the back-off.
Time passes only when every running process waits, and a process starts once a
tick at most. So a tick stands for "the same moment up to rounding": steps of
code in one tick interleave in every order.

`Behaviour` says what an endpoint may do with a request: answer, answer 200 with
rubbish, refuse, or stay silent. It is not fixed per request: an endpoint with
several reactions chooses each time.

`Deadlines` are bounded by `CoolDown` in an assumption: the five minutes of a
failed IP outlast any deadline. `RetrySwitches` needs it, as a call that lasted
longer could see its first IP return; it is stated for calls whose context has a
deadline that has not passed. A call cancelled in the meantime may mark an IP
that did nothing wrong.

### Resolver and ResolverContract

`cache[d]` has a version (which addresses), `fresh` (TTL not passed) and the
address families it was filled with. `zone[d]` is the version at the servers.
`updating` is the field of that name. A call is `look` (the loop over its
domains), `refresh` (about to run `tryAsyncUpdate`), `network`, `store` (the
loop that updates the cache), `done` or `failed`. `task[g]` is the goroutine of
`tryAsyncUpdate`: `start`, `network`, `store`, `release`, each with the key it
has registered. `Get`, the check in `tryAsyncUpdate`, `Set` and the deferred
delete are separate steps, as each takes its mutex by itself.

`go.mod` says `go 1.21`. In that version of the language the variable of the
loop in `ResolveBatch` is one for all rounds, and the function given to
`tryAsyncUpdate` captures it. `ReadLoopVar` reads it when the goroutine runs;
nothing synchronises that read with the loop, so while the loop may still write,
the read may also give `Torn`, a string made of two halves. The server's answer
for such a name changes nothing anybody asks for and is left out. A call's name
is not reused while a goroutine of it has not read its variable.

External: the server answers a single query with the families asked for and a
batch, whose URL names none, with all, in one record for a host or in one for
each family, which `ResolveBatch` merges (`Merged`); a batch's answer may omit
hosts and spells the others as they were asked.

`ResolverContract` is a cache and nothing else: servers publish and answer, answers
fill the cache, callers are told what is cached or has just been answered. It has no
goroutines, no `updating`, no batches. `Resolver` implements it with `told` being the
results of the calls and `answers` what calls and goroutines at `store` hold and have
not stored yet (`Pending`). Where the loop variable and the registered key differ, an
answer belongs to the name that was asked for, which is what `Contract` says and the
key does not. Callers at `store` give up what they hold one name at a time; two
that hold the same answer fill the cache twice with it.

### CachePersistence, WriteBehind and AtomicFile

An entry is its version, one more than any before. `requesting` are callers
between `Set` and `SaveResolveCacheAsync`. The goroutine of a save goes `copy`,
`lock`, `write`, `after` and round again if `savePending`. `Restart` is the death
of the process at any point and `LoadFromDisk` at the next start, which may find
any set of versions expired, and once expired they stay so. It may also fail
(`LoadFails`): when the file cannot be read or parsed the cache stays empty and no save
is started, so the file stays as it is until the next save overwrites it, with
whatever it held. `unread` remembers this, from such a start until a write succeeds,
and the properties that compare file and cache say what it exempts. One client at a
time has the file: a client that was closed has it until its goroutines are done.

`WriteBehind` has a memory, a disk, an image on its way and the knowledge that
something is owed. It may be opened again from what the disk holds (`Reopen`) or, when
that cannot be read, with a blank memory (`ReopenBlank`). `CachePersistence` implements it with the image being the copy
of the goroutine between its copy and its write, and a save being owed while a
request is on its way, merged, or about to be served.

`AtomicFile` has names bound to inodes. `os.WriteFile` is opening (which
truncates) and writing; `os.Rename` binds the target to the inode of the
temporary name. Calls may fail half way, processes may die between any two.
`ManagerOf` says which client a goroutine belongs to: clients of one account share
the directory, and with it the names, but each has a `fileMutex` of its own.
`overlapped` remembers whether two clients were ever writing at the same time.

### ServiceIPPersistence

A list is the tick in which it was fetched. `Callers` fetch when the list is stale
and do not save; `Updaters` (`client.UpdateServiceIPs`, the periodic goroutine)
fetch and save. `SaveServiceIPsAsync` copies the list and starts a goroutine;
`LockAndDate` is that goroutine getting `fileMutex`, in any order, and dating the
list then; `WriteFile` writes or fails. `Crash` may come at any point and
`NewClient` loads what is not older than `KeepFor` (a day), as if it had been
fetched just now; a file that cannot be read or parsed is as none. `SaveDelay` is the longest a save takes, waiting included. The
code takes no time, so between a fetch and its save the clock stands still, but
other fetches may put their list first.

### ClientLifecycle and ClientContract

`started` is the field. `stopCloses` counts the closes of `stopCh`. The RWMutex is
Go's: a writer first announces itself (`AnnounceWriter`), which keeps new readers
out, waits for the readers inside (`Lock`), and lets in all it kept out when it
unlocks. `holds[p]` counts read locks, as a goroutine that reads twice holds two.
`ClosedIsQuiet` is about calls: goroutines that `ResolveAsync` or `tryAsyncUpdate` has
started outlive `Close`, which does not wait for them.
`op[p]` is the call: `resolve` stands for `Resolve`, `ResolveBatch` and
`UpdateServiceIPs`, which work under the read lock; `read` for the getters;
`async` for `ResolveAsync`, which starts a goroutine that needs no lock, or, when
the client is closed, runs the callback at once with the read lock held;
`close` for `Close`. Callbacks are the application's code: they may call what
`OnResult` and `OnStopped` say, and the call of a callback returns into it.
The periodic goroutine is in its `select`, in a fetch, or gone; when a tick waits
and `stopCh` is closed, `select` takes either.

`ClientContract` is what an application may rely on: calls and background work
are accepted while the client is open, it is shut once, only when no accepted
call and no periodic fetch is under way, and for good. The client is `open` in
this sense until `Close` has seen the periodic goroutine off.

### Metrics

One action per section under the mutex. A failed call takes it twice (`RecordError`,
then `Fail`, which is `RecordResolve`), a Reset may come in between, and some
failures record nothing (`FailUnrecorded`). `succeeded` and `failed` are history:
what an observer outside would have counted since the last Reset. `RecordError`
may or may not count a network error, as only one operation name counts.

### RequestURL

One call, attempt after attempt. A URL is the sequence of the parts of its text up
to the "?" and a function from parameter names after it, so that
`extractServiceIPFromURL` is modelled by what it does to the text: trim one of two
prefixes, cut at the first slash. An IP has no slash in it, which is all that is
assumed of one. A signature is the tuple of what is hashed.
`Timestamp` is in whole seconds, of `Second` ticks each, as in `Unix()`. The server
(`Accepts`) compares the signature and looks at its own clock, `Skew` ahead.
`Validate` replaces values out of range, which the instance has among its inputs.

## The runs

TLC, with the deadlock check on in every run but `client_lifecycle`, where a client
that a callback has hung really stops.

| run | instance | shows |
|---|---|---|
| `client_chaos` | 2 calls, 1 refresh, a list that loses an IP and gets it back, 1 retry, contexts with and without deadline, every endpoint may do everything, one caller cancels | `TypeOK`, `CurrentIPListed`, `NeverPickFromEmpty`, `RetrySwitches`, `StickyCurrent`, `CallsTerminate` |
| `client_failover` | 2 calls, 1 refresh, a flaky and a good IP, a flaky and a good bootstrap endpoint, deadlines that are long enough or absent | `NoCallFails`, `Recovers`: with this network no call fails, so `Recovers` adds that they end |
| `cache_persistence` | 2 domains, 2 writers, 2 saver names, 3 sets, crashes, failures, expiry, files that cannot be read | `TypeOK`, `SingleSaver`, `QuiescentPersisted`, `DiskNeverRegresses`, `ImplementsWriteBehind`, `Persisted` |
| `atomic_file` | 2 clients, one of them with 2 goroutines, crashes, failures | `TypeOK`, `FileWhole`, `SavesAreAtomic` |
| `resolver_refresh` | 3 callers of single queries, a cached domain with 3 versions, refreshes that may fail | `NeverOlder`, `Refreshed` |
| `resolver_batch` | 2 callers, overlapping batches with a repeated name, a batch above the limit, hosts left out, hosts in two records | `TypeOK`, `SingleFlight`, `EveryDomainReturned`, `AskedFamilies`, `ImplementsContract` |
| `client_lifecycle` | 3 goroutines that call anything, 1 goroutine of `ResolveAsync`, callbacks that call again | `TypeOK`, `ClosedOnce`, `ClosedIsQuiet`, `ImplementsContract`, `CallsReturn` |
| `service_ip_persistence` | 1 caller, 2 updaters, 2 savers, failing writes, crashes and restarts over 8 ticks | `TypeOK`, `DateIsHonest`, `NeverTooOld`, `FileKeepsUp`, `ListIsSaved` |
| `metrics` | 3 callers, latencies 0 and 4, 4 calls between Resets | `TypeOK`, `AverageInRange`, `CountsAddUp` |
| `request_url` | single and batch requests, http and https, signed or not, 0 to 2 retries, clocks apart | `TypeOK`, `AcceptedInTime`, `MarksWhoFailed` |

Runs whose property is violated show that the code does not do what a document
or comment says:

| run | property | what happens |
|---|---|---|
| `batch_forgets_refresh` | `Refreshed` | the captured loop variable: a domain that is not last in its batch is never refreshed |
| `family_not_asked` | `AskedFamilies` | the cache does not know which families a query asked for |

Observed while modelling, and left without a run of their own:

* all bootstrap endpoints share one deadline, by default as long as the limit of one
  request, so a silent first endpoint starves the others at every call, against
  the redundancy README.md:12 promises; `client_failover` gives calls more time;
* likewise a silent service IP leaves no time for the retry, by default;
* a service IP is marked only when a retry is left, so with the default of none a
  dead one stays in use; `client_failover` has a retry;
* two clients of one account truncate, mix and rename each other's temporary file
  when they write at the same time: `FileWhole` is stated up to that moment,
  the comment at cache.go:336 without it;
* when the file of the resolve cache cannot be read (permissions, an I/O error) or
  cannot be parsed, the client starts with an empty cache and its next save overwrites
  the file, entries that have not expired included (cache.go:184-198); `NewResolver`
  only logs the error. `DiskNeverRegresses` has this one exception;
* `Close` does not wait for a save under way: a client made next in the same process
  may load the file before it and be overwritten by it;
* a batch returns its cache hits first, not in the order of the input
  (CHANGELOG.md:16);
* the date of the list in the file is forgotten when it is loaded: what counts as
  stale after eight hours may be a day older (`NeverTooOld` has the sum), and a list
  that a call fetched is not saved;
* on a closed client the callback of `ResolveAsync` holds the read lock: if it calls
  `Close`, or anything while another goroutine waits to close, the client hangs
  for good (`WaitsForItself`);
* single queries without a list, or with a body that does not decode, and batches of
  the wrong length leave no trace in the metrics, though a batch without a list does;
* a server that refuses a signature gets its IP marked like one that is down;
* a domain with a control character makes the request itself impossible
  (network.go:150), and with retries the IPs that never saw it are marked;
* a service IP that answers 200 with a body that does not decode is past the
  retry loop, so it is neither retried nor marked (`DecodeFails`);
* a call whose list is older than eight hours fails when no bootstrap endpoint
  answers, though the IPs it has may work;
* `updating` is keyed by the spelling of a name and the cache by its normal form, so
  two spellings of a domain are refreshed at once.

### Bounds

Two calls and one refresh are enough for every race in the pool: its operations
are atomic, and each property concerns one call and whatever the others do to
the shared fields. Two lists, one without the first IP of the other, give an IP
that leaves while calls use it, one that stays and one that comes back. `CoolDown` and `MaxAge` of a few ticks let failures and lists
age within one behaviour; only the comparisons with deadlines matter, and the
assumption keeps them as in the code. Two saver names are one more than the code
may use at a time. `MaxSets = 3` allows a set before, during and after a save;
`MaxVersion = 3` two changes of an address while an answer is on its way. One
domain is enough for `NeverOlder` and `Refreshed`, as single queries and their
refreshes touch one name each; races between names are those of `resolver_batch`.
There an address stays the same, and `ImplementsContract` is about the name an answer
is stored under and the families it has; `Refinement` proves it for changing addresses
and for single queries too.
Two refresh goroutines suffice for two spellings, by `SingleFlight`. `MaxBatch = 3`
stands for the five of the code. Three goroutines of the application are one that
closes, one that is inside and one that is kept out; `MaxDepth = 1` is a callback
that is already enough to hang the client. Two updaters and two savers let saves
overtake each other. `KeepFor`, `StaleAfter` and `SaveDelay` of 3, 1 and 1 keep the
order of a day, eight hours and a write, and 8 ticks are enough for a list to pass
through two restarts until it is too old. Two latencies are enough for an average
strictly between its extremes. Two retries with their back-offs outlast the longest
signature of `request_url`, so that one made at the first attempt would be refused at
the last; a `Second` of two ticks makes the rounding of `Timestamp` show.
Symmetry is used in `resolver_batch`, which has no
liveness property, over names of callers and goroutines.

### Fairness

* Goroutines run: weak fairness of each process's own steps. Go's scheduler is
  preemptive and every wait in the code ends by itself.
* Time passes: weak fairness of `Tick`. `http.Client.Timeout`, contexts and
  `time.After` rest on it.
* `fileMutex`: strong fairness of the lock, as a Go mutex is handed to a waiter
  that has starved for a millisecond.
* `Persisted` needs no more: it is about a process that lives on and a write that
  does not fail, and says so.
* `AnnounceWriter`: strong fairness, for the same reason: the mutex inside an RWMutex
  hands itself to a writer that starves. `LockAndDate` likewise.
* `PeriodicStops`: strong fairness, as `select` picks at random among the cases that are
  ready, and does not pass over a closed `stopCh` for ever. Calls and callbacks are
  assumed to end (`HTTPDNSClient` shows the former).
* `BusySpec` and the strong fairness of `Call` assume an application that keeps
  asking. `Refreshed` is about such an application; without calls nothing is
  refreshed.
* `GetsAnswer` and `GetsName` are strong: a server that is asked for one name
  again and again answers some time, and a variable that is read again and again
  is whole some time. Without them a network that always fails would refute
  `Refreshed`, which says nothing about the code.

## The proofs

Every theorem holds for all values of the constants that satisfy the ASSUMEs.

* `HTTPDNSClientProofs`. `CurrentIPListed` is inductive with the types.
  `NeverPickFromEmpty` needs that a list is never replaced by an empty one and
  that a call leaves `check` and `fetch` only with a list. `RetrySwitches` needs
  what its invariant adds: an IP that a call has `tried` failed no longer ago than
  the call's context has been running, so while the deadline has not passed the IP
  is still cooling down (`Deadlines` are at most `CoolDown`); `GetAvailableIP`
  then returns it only when all are. `StickyCurrent` is a step property of the
  pool's operations.
  `NoneFails` states `NoCallFails` for every network that is `Steady`: service IPs
  that refuse or are silent are no more than `MaxRetries`, the others answer and none
  answers with rubbish, every list names one that answers, some bootstrap endpoint
  answers, no call is cancelled, and `LongestCall` (every endpoint and every attempt
  at its limit, with every back-off) is below the deadlines and at most `CoolDown`.
  `client_failover` is such a network, with one bad IP. The invariant (`Healthy`)
  bounds the time a call may still take at each control point (`WorkLeft`), which falls
  with every tick; so an IP the call has tried cools down at least until the call ends,
  each attempt goes to another bad IP until none is left, and the deadline is not
  reached. An IP that answers is never marked. What happens
  without most of these hypotheses is listed above under "Observed while modelling".
* `CachePersistenceProofs`. The invariant orders file, copy on its way and memory
  (`Ordered`), says that unless a save is owed the copy, or else the file, is
  current (`Current`), and that `savePending` implies `saving`. The safety
  properties follow, and the refinement: copying maps to `Take`, a write that
  succeeds to `Commit`, one that fails to `Drop`, a restart to `Reopen`, or to
  `ReopenBlank` when the file cannot be read. The abstract
  specification keeps `NothingLost` (`WriteBehindLosesNothing`). While `unread`, the
  order is that of copy and memory alone, and `Current` allows a cache that is still
  empty beside whatever the file holds; the first write that succeeds restores both.
* `AtomicFileProofs`: as long as the clients have not overlapped, goroutines past
  `Lock` belong to one client, so the holder of its mutex is the only one, and what
  is renamed is what it wrote. Opening and writing never touch the inode the target
  is bound to, so the file changes with the rename alone (`WritesAtomic`). With one
  client no overlap is possible (`OneClientWritesWhole`).
* `ClientLifecycleProofs`. `Inv` says what each control point implies: who holds the
  write lock and that nobody else is past it, that a process holds as many read
  locks as its control point needs, that the lock is free of readers while a writer
  is past `Lock`, and that `running` under a lock implies `started`. `ClosedOnce`
  and `ClosedIsQuiet` follow, and the refinement: letting `Resolve` in maps to
  `Accept`, a started goroutine to `HandOver`, `Waited` to `Shut`, and everything the
  lock does to a stutter.
* `ServiceIPPersistenceProofs`. The invariant bounds the age of a save under way
  by `SaveDelay`, so its date is near the list's; it then relates, in one chain,
  the list in memory to the file it was loaded from: fetched at most `KeepFor` and
  `SaveDelay` before `updatedAt`, which is what `NeverTooOld` adds `StaleAfter` to.
* `MetricsProofs`. The sum lies between the count times either extreme, which is
  inductive where the average is not; the quotient follows. `CountsAddUp` is
  inductive with the number of calls between their two records.
* `ResolverProofs`. `SingleFlight` is inductive with the types. `CacheMovesForward`
  assumes `AlwaysCached`: every domain preloaded, expired entries allowed, one
  spelling to a domain, single queries. Its invariant `Forward` says that calls
  never reach the network, that a goroutine's loop variable is its key, and that
  an answer on its way lies between the cache's version and the server's. Each
  assumption is needed: two callers that miss together, two spellings, or a
  batch's loop variable let an older answer overwrite a newer one.
  `AllReturned` counts positions: the invariant (`Counted`) splits what was asked for
  into what has been looked at and what is left, and again what is stored, so that
  each step adds one position to one side. `FamiliesAsAsked` shows `AskedFamilies`
  where all requests want the same families (`AllAskFor`); in general it is violated,
  see `family_not_asked`. `Refinement` maps `Get` of a hit to `TellCached`,
  an answer to `Give`, a `Set` to `Fill`, the start of a call and its failure to
  `Clear`, and all else to a stutter; `ContractInventsNothing` says what an
  implementation of the contract gains.
* `RequestURLProofs`. The invariant adds to the properties that the attempt under
  way can be told from its URL (`Dated`): the IP it was sent to is the one
  `extractServiceIPFromURL` finds in the URL, and a signature in it carries the
  second in which it was made plus `SignatureExpireTime`, as `Validate` left it.
  The rest is what trimming and cutting do to the first pieces of a URL, and integer
  division.

Only model-checked: liveness (`CallsTerminate`, `Recovers`, `Persisted`, `Refreshed`,
`CallsReturn`, `ListIsSaved`), which is beyond the prover. Every invariant, action
property and refinement of the passing runs is proved; of these `NoCallFails`,
`NeverOlder` and `AskedFamilies` hold of a certain network, cache or kind of request,
which their theorems state as hypotheses.

## Not modelled

* JSON, addresses, hashes, error texts, logging: no state, no order.
* A disabled memory cache (`Get` never hits, `Set` does nothing) and disabled
  persistence: the parts modelled are simply not there.
* The client's IP as part of a query. Like the query type it is not in the cache
  key; `AskedFamilies` shows the effect for the latter.
* The TTLs of several records of one host, of which the largest is kept: an entry is
  fresh or not.
* `RecordAPIRequest`, `BuildServiceIPURL` and `ValidateDomain`, which nobody calls.
* Overflow of the counters, which are 64 bits wide.
* The programs under `examples/`, `scripts/` and `tools/`: they use the library one call
  after the other or check its output.
* A client that is closed and made again in the same process while the first one's
  save is still under way: `CachePersistence` has one client at a time.
* A cache directory that cannot be found or made: `NewCacheManager` then goes on
  without persistence.
* The Windows branch of `writeJSONFile`, which writes in place, and loss of power
  (the file is not synchronised before the rename).
* `WithTimeout(0)`, which leaves a call without deadline, is `NoDeadline`; the
  fetch inside `GetAvailableServiceIP` is left out because `NeverPickFromEmpty`
  proves it is not reached from a call.
* An IPv6 or port in `extractServiceIPFromURL`: the host of the URL is the IP.

## Plan

Done: every stateful component of the library, with proofs of all safety properties
and of the three refinements. To come:

1. What the contracts give to each other: `CachePersistence` with
   `ResolverContract` above it (what is told after a restart was published before it).
2. `NoneFails` without the hypothesis on deadlines, for calls that end by their
   deadline only.
3. TTLs of merged records, as a bound on how long an entry counts as fresh.
