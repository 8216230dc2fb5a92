-------------------------------- MODULE Resolver --------------------------------
(***************************************************************************)
(* Callers, the memory cache and the background refreshes                  *)
(* (pkg/httpdns/resolver.go with Get and Set of cache.go).  A call looks   *)
(* its domains up one after the other.  A hit is answered from the cache;  *)
(* when the entry has expired and that is allowed, the call starts a       *)
(* goroutine that refreshes it.  What is missing is asked for over the     *)
(* network in one request, stored, and added to the answer.                *)
(*                                                                         *)
(* The cache is keyed by the normalised domain, the set of refreshes under *)
(* way by the domain as the caller spelled it.  The go directive of go.mod *)
(* is 1.21, so the loop of ResolveBatch has one variable for all its       *)
(* rounds: a goroutine reads whatever the loop has put there by then.      *)
(*                                                                         *)
(* The memory cache is enabled throughout.  How a request reaches a server *)
(* is HTTPDNSClient's matter; here it is answered or it fails.             *)
(***************************************************************************)
EXTENDS Naturals, Sequences, FiniteSets

CONSTANTS
    Spellings,      \* domains as callers and servers write them
    Domains,        \* domains as normalizeDomain writes them
    Norm,           \* normalizeDomain
    Torn,           \* half of one spelling, half of another
    Families,       \* the address families a domain has
    Calls,          \* callers
    Refreshers,     \* names for the goroutines of tryAsyncUpdate
    Requests,       \* what callers ask for
    MaxBatch,       \* the five domains a batch may have
    AllowExpired,   \* config.AllowExpiredCache
    Preloaded,      \* domains LoadFromDisk finds
    NoEntry,
    MaxVersion      \* bound: changes of a domain's addresses

Kinds == {"single", "batch"}

Queries == [kind : Kinds, names : Seq(Spellings), want : SUBSET Families]

ASSUME ResolverAssumption ==
    /\ Norm \in [Spellings -> Domains]
    /\ Torn \notin Spellings
    /\ Requests \subseteq Queries
    /\ \A q \in Requests : q.kind = "single" => Len(q.names) = 1
    /\ MaxBatch \in Nat \ {0}
    /\ AllowExpired \in BOOLEAN
    /\ Preloaded \subseteq Domains
    /\ MaxVersion \in Nat \ {0}
    /\ NoEntry \notin [ver : Nat, fresh : BOOLEAN, fams : SUBSET Families]

VARIABLES
    zone,       \* version of each domain's addresses at the servers
    cache,      \* CacheManager.cache
    updating,   \* Resolver.updating
    pc,         \* control point of each call
    req,        \* what it was asked
    at,         \* its place in the loop over req.names, then over todo
    todo,       \* uncachedDomains
    reply,      \* what the network said of each name of todo
    results,    \* what it returns, in order
    task        \* the refresh each goroutine runs

callVars == <<pc, req, at, todo, reply, results>>
vars == <<zone, cache, updating, callVars, task>>

Idle == [pc |-> "none"]

Unasked == [kind |-> "single", names |-> <<>>, want |-> {}]

NoReply == [s \in {} |-> NoEntry]

Running == {g \in Refreshers : task[g] # Idle}

Entry(answer) == [ver |-> answer.ver, fresh |-> TRUE, fams |-> answer.fams]

Result(s, fams) == [host |-> s, fams |-> fams]

-----------------------------------------------------------------------------

\* NewResolver.
Init ==
    /\ zone = [d \in Domains |-> 1]
    /\ cache = [d \in Domains |->
                    IF d \in Preloaded THEN Entry([ver |-> 1, fams |-> Families]) ELSE NoEntry]
    /\ updating = {}
    /\ pc = [c \in Calls |-> "idle"]
    /\ req = [c \in Calls |-> Unasked]
    /\ at = [c \in Calls |-> 0]
    /\ todo = [c \in Calls |-> <<>>]
    /\ reply = [c \in Calls |-> NoReply]
    /\ results = [c \in Calls |-> <<>>]
    /\ task = [g \in Refreshers |-> Idle]

\* A goroutine started by c that has not read the loop variable yet keeps
\* the variable, and the name c, in use.
Captured(c) == \E g \in Running : task[g].pc = "start" /\ task[g].owner = c

\* ResolveSingle and ResolveBatch are called; a batch that is empty or too
\* long is refused.
Call(c, q) ==
    /\ pc[c] \in {"idle", "done", "failed"}
    /\ ~Captured(c)
    /\ req' = [req EXCEPT ![c] = q]
    /\ pc' = [pc EXCEPT ![c] = IF Len(q.names) \in 1 .. MaxBatch THEN "look" ELSE "failed"]
    /\ at' = [at EXCEPT ![c] = 0]
    /\ todo' = [todo EXCEPT ![c] = <<>>]
    /\ reply' = [reply EXCEPT ![c] = NoReply]
    /\ results' = [results EXCEPT ![c] = <<>>]
    /\ UNCHANGED <<zone, cache, updating, task>>

\* CacheManager.Get.
Hit(d) == cache[d] # NoEntry /\ (cache[d].fresh \/ AllowExpired)
NeedAsyncUpdate(d) == ~cache[d].fresh

\* One round of the loop: the variable gets the next domain, Get is asked.
Look(c) ==
    /\ pc[c] = "look"
    /\ at[c] < Len(req[c].names)
    /\ at' = [at EXCEPT ![c] = @ + 1]
    /\ LET s == req[c].names[at[c] + 1]
           d == Norm[s]
       IN  \/ /\ Hit(d)
              /\ results' = [results EXCEPT ![c] = Append(@, Result(s, cache[d].fams))]
              /\ pc' = [pc EXCEPT ![c] = IF NeedAsyncUpdate(d) THEN "refresh" ELSE "look"]
              /\ UNCHANGED todo
           \/ /\ ~Hit(d)
              /\ todo' = [todo EXCEPT ![c] = Append(@, s)]
              /\ UNCHANGED <<results, pc>>
    /\ UNCHANGED <<zone, cache, updating, req, reply, task>>

\* Mutant of TryAsyncUpdate: the updating set is not looked at.
TryUnguarded(c) ==
    /\ pc[c] = "refresh"
    /\ pc' = [pc EXCEPT ![c] = "look"]
    /\ LET s == req[c].names[at[c]]
       IN  /\ updating' = updating \cup {s}
           /\ \E g \in Refreshers \ Running :
                  task' = [task EXCEPT ![g] =
                               [pc |-> "start", key |-> s, owner |-> c, want |-> req[c].want]]
    /\ UNCHANGED <<zone, cache, req, at, todo, reply, results>>

\* tryAsyncUpdate: one refresh at a time for a spelling.
TryAsyncUpdate(c) ==
    /\ pc[c] = "refresh"
    /\ pc' = [pc EXCEPT ![c] = "look"]
    /\ LET s == req[c].names[at[c]]
       IN  \/ s \in updating /\ UNCHANGED <<updating, task>>
           \/ /\ s \notin updating
              /\ updating' = updating \cup {s}
              /\ \E g \in Refreshers \ Running :
                     task' = [task EXCEPT ![g] =
                                  [pc |-> "start", key |-> s, owner |-> c, want |-> req[c].want]]
    /\ UNCHANGED <<zone, cache, req, at, todo, reply, results>>

\* Mutant of LookedAtAll: the second loop starts where the first one ended.
LookedAtAllNoReset(c) ==
    /\ pc[c] = "look"
    /\ at[c] = Len(req[c].names)
    /\ pc' = [pc EXCEPT ![c] = IF todo[c] = <<>> THEN "done" ELSE "network"]
    /\ UNCHANGED <<zone, cache, updating, req, at, todo, reply, results, task>>

\* The loop is over: return what the cache had, or ask for the rest.
LookedAtAll(c) ==
    /\ pc[c] = "look"
    /\ at[c] = Len(req[c].names)
    /\ pc' = [pc EXCEPT ![c] = IF todo[c] = <<>> THEN "done" ELSE "network"]
    /\ at' = [at EXCEPT ![c] = 0]
    /\ UNCHANGED <<zone, cache, updating, req, todo, reply, results, task>>

\* The URL of a single query carries the families asked for, the URL of a
\* batch none, and the server gives all.
Queried(q) == IF q.kind = "single" THEN q.want ELSE Families

Names(seq) == {seq[i] : i \in DOMAIN seq}

\* The records of an answer: the hosts in split have one for each family.
Records(q, hosts, split) ==
    {[host |-> s, fams |-> Queried(q)] : s \in hosts \ split}
    \cup {[host |-> s, fams |-> {f}] : s \in split, f \in Queried(q)}

\* Mutant of Merged: one record is taken for a host.
OneRecord(records, s) == (CHOOSE r \in records : r.host = s).fams

\* domainResults: what all records say of a host.
Merged(records, s) == UNION {r.fams : r \in {x \in records : x.host = s}}

\* The answer of a batch may leave hosts out, and may have several records of
\* one host.
Answer(c, hosts, split) ==
    /\ pc[c] = "network"
    /\ hosts \subseteq Names(todo[c])
    /\ req[c].kind = "single" => hosts = Names(todo[c]) /\ split = {}
    /\ pc' = [pc EXCEPT ![c] = "store"]
    /\ reply' = [reply EXCEPT ![c] =
                     [s \in hosts |-> [ver |-> zone[Norm[s]],
                                      fams |-> Merged(Records(req[c], hosts, split), s)]]]
    /\ UNCHANGED <<zone, cache, updating, req, at, todo, results, task>>

\* No service IP, no answer in time, or one that does not decode.
NoAnswer(c) ==
    /\ pc[c] = "network"
    /\ pc' = [pc EXCEPT ![c] = "failed"]
    /\ results' = [results EXCEPT ![c] = <<>>]
    /\ UNCHANGED <<zone, cache, updating, req, at, todo, reply, task>>

\* Mutant of Store: a host the server left out ends the loop.
StoreUntilMissing(c) ==
    /\ pc[c] = "store"
    /\ at[c] < Len(todo[c])
    /\ LET s == todo[c][at[c] + 1]
       IN  \/ /\ s \in DOMAIN reply[c]
              /\ at' = [at EXCEPT ![c] = @ + 1]
              /\ cache' = [cache EXCEPT ![Norm[s]] = Entry(reply[c][s])]
              /\ results' = [results EXCEPT ![c] = Append(@, Result(s, reply[c][s].fams))]
           \/ /\ s \notin DOMAIN reply[c]
              /\ at' = [at EXCEPT ![c] = Len(todo[c])]
              /\ UNCHANGED <<cache, results>>
    /\ UNCHANGED <<zone, updating, pc, req, todo, reply, task>>

\* updateCache for one domain after the other; a host the server left out
\* is left out of the results.
Store(c) ==
    /\ pc[c] = "store"
    /\ at[c] < Len(todo[c])
    /\ at' = [at EXCEPT ![c] = @ + 1]
    /\ LET s == todo[c][at[c] + 1]
       IN  \/ /\ s \in DOMAIN reply[c]
              /\ cache' = [cache EXCEPT ![Norm[s]] = Entry(reply[c][s])]
              /\ results' = [results EXCEPT ![c] = Append(@, Result(s, reply[c][s].fams))]
           \/ s \notin DOMAIN reply[c] /\ UNCHANGED <<cache, results>>
    /\ UNCHANGED <<zone, updating, pc, req, todo, reply, task>>

Return(c) ==
    /\ pc[c] = "store"
    /\ at[c] = Len(todo[c])
    /\ pc' = [pc EXCEPT ![c] = "done"]
    /\ UNCHANGED <<zone, cache, updating, req, at, todo, reply, results, task>>

-----------------------------------------------------------------------------

\* What the goroutine may find in the variable of its caller's loop: the
\* domain of the round, the last one when the loop is over, or a torn string
\* when it reads while the loop writes.
LoopVar(c) ==
    LET names == req[c].names
    IN  IF pc[c] \in {"look", "refresh"}
        THEN {names[at[c]]} \cup IF at[c] < Len(names) THEN {Torn} ELSE {}
        ELSE {names[Len(names)]}

\* fn() calls asyncUpdate, which is when the variable is read.
ReadLoopVar(g, s) ==
    /\ g \in Running /\ task[g].pc = "start"
    /\ s \in LoopVar(task[g].owner)
    /\ task' = [task EXCEPT ![g] = [pc |-> "network", key |-> task[g].key, name |-> s,
                                    want |-> task[g].want]]
    /\ UNCHANGED <<zone, cache, updating, callVars>>

Released(g) ==
    /\ updating' = updating \ {task[g].key}
    /\ task' = [task EXCEPT ![g] = Idle]

\* Mutant of RefreshAnswered: the key is deleted before the cache is updated.
ReleaseOnAnswer(g) ==
    /\ g \in Running /\ task[g].pc = "network"
    /\ task[g].name # Torn
    /\ updating' = updating \ {task[g].key}
    /\ task' = [task EXCEPT ![g] = [pc |-> "store", key |-> task[g].key, name |-> task[g].name,
                                    ver |-> zone[Norm[task[g].name]], fams |-> task[g].want]]
    /\ UNCHANGED <<zone, cache, callVars>>

\* Nobody asks for a torn name: its answer, if there is one, is not modelled.
RefreshAnswered(g) ==
    /\ g \in Running /\ task[g].pc = "network"
    /\ task[g].name # Torn
    /\ task' = [task EXCEPT ![g] = [pc |-> "store", key |-> task[g].key, name |-> task[g].name,
                                    ver |-> zone[Norm[task[g].name]], fams |-> task[g].want]]
    /\ UNCHANGED <<zone, cache, updating, callVars>>

\* Mutant of RefreshFails: the delete is not deferred.
RefreshFailsHeld(g) ==
    /\ g \in Running /\ task[g].pc = "network"
    /\ task' = [task EXCEPT ![g] = Idle]
    /\ UNCHANGED <<zone, cache, updating, callVars>>

\* asyncUpdate gives up; the deferred delete lets the next refresh start.
RefreshFails(g) ==
    /\ g \in Running /\ task[g].pc = "network"
    /\ Released(g)
    /\ UNCHANGED <<zone, cache, callVars>>

\* Mutant of RefreshStores: the entry goes under the name that is registered.
RefreshStoresKey(g) ==
    /\ g \in Running /\ task[g].pc = "store"
    /\ cache' = [cache EXCEPT ![Norm[task[g].key]] = Entry(task[g])]
    /\ task' = [task EXCEPT ![g] = [pc |-> "release", key |-> task[g].key]]
    /\ UNCHANGED <<zone, updating, callVars>>

\* The end of asyncUpdate: updateCache.
RefreshStores(g) ==
    /\ g \in Running /\ task[g].pc = "store"
    /\ cache' = [cache EXCEPT ![Norm[task[g].name]] = Entry(task[g])]
    /\ task' = [task EXCEPT ![g] = [pc |-> "release", key |-> task[g].key]]
    /\ UNCHANGED <<zone, updating, callVars>>

\* The deferred delete after it.
Release(g) ==
    /\ g \in Running /\ task[g].pc = "release"
    /\ Released(g)
    /\ UNCHANGED <<zone, cache, callVars>>

-----------------------------------------------------------------------------

\* Time passes the entry's TTL.
Expire(d) ==
    /\ cache[d] # NoEntry /\ cache[d].fresh
    /\ cache' = [cache EXCEPT ![d].fresh = FALSE]
    /\ UNCHANGED <<zone, updating, callVars, task>>

\* The owner of the domain changes its addresses.
ZoneChanges(d) ==
    /\ zone[d] < MaxVersion
    /\ zone' = [zone EXCEPT ![d] = @ + 1]
    /\ UNCHANGED <<cache, updating, callVars, task>>

CallStep(c) ==
    \/ Look(c) \/ TryAsyncUpdate(c) \/ LookedAtAll(c)
    \/ NoAnswer(c)
    \/ \E hosts \in SUBSET Names(todo[c]) : \E split \in SUBSET hosts : Answer(c, hosts, split)
    \/ Store(c) \/ Return(c)

RefreshStep(g) ==
    \/ \E s \in Spellings \cup {Torn} : ReadLoopVar(g, s)
    \/ RefreshAnswered(g) \/ RefreshFails(g) \/ RefreshStores(g) \/ Release(g)

Next ==
    \/ \E c \in Calls, q \in Requests : Call(c, q)
    \/ \E c \in Calls : CallStep(c)
    \/ \E g \in Refreshers : RefreshStep(g)
    \/ \E d \in Domains : Expire(d) \/ ZoneChanges(d)

Spec == Init /\ [][Next]_vars

\* A goroutine that refreshes under s gets a whole name; the query for s is
\* answered.
GetsName(s) == \E g \in Running, n \in Spellings : task[g].key = s /\ ReadLoopVar(g, n)
GetsAnswer(s) == \E g \in Running : RefreshAnswered(g) /\ task[g].name = s

\* Goroutines run, every request comes to an end, callers keep asking, a
\* server that is asked for a name again and again answers at last, and a
\* variable that is read again and again is not torn every time.
Fairness ==
    /\ \A c \in Calls : WF_vars(CallStep(c))
    /\ \A c \in Calls, q \in Requests : SF_vars(Call(c, q))
    /\ \A g \in Refreshers : WF_vars(RefreshStep(g))
    /\ \A s \in Spellings : SF_vars(GetsName(s)) /\ SF_vars(GetsAnswer(s))

FairSpec == Spec /\ Fairness

-----------------------------------------------------------------------------

Labels == {"idle", "look", "refresh", "network", "store", "done", "failed"}

Answers == [ver : 1 .. MaxVersion, fams : SUBSET Families]

Results == [host : Spellings, fams : SUBSET Families]

Replies == UNION {[hosts -> Answers] : hosts \in SUBSET Spellings}

Entries == [ver : 1 .. MaxVersion, fresh : BOOLEAN, fams : SUBSET Families]

Tasks ==
    {Idle}
    \cup [pc : {"start"}, key : Spellings, owner : Calls, want : SUBSET Families]
    \cup [pc : {"network"}, key : Spellings, name : Spellings \cup {Torn}, want : SUBSET Families]
    \cup [pc : {"store"}, key : Spellings, name : Spellings,
          ver : 1 .. MaxVersion, fams : SUBSET Families]
    \cup [pc : {"release"}, key : Spellings]

\* Every variable stays in its range; a call is within the bounds of its
\* loops, and nothing is missing when a refresh is to be started.
TypeOK ==
    /\ zone \in [Domains -> 1 .. MaxVersion]
    /\ cache \in [Domains -> Entries \cup {NoEntry}]
    /\ updating \subseteq Spellings
    /\ pc \in [Calls -> Labels]
    /\ req \in [Calls -> Queries]
    /\ at \in [Calls -> Nat]
    /\ todo \in [Calls -> Seq(Spellings)]
    /\ \A c \in Calls :
           /\ pc[c] \in {"look", "refresh"} => at[c] <= Len(req[c].names)
           /\ pc[c] = "refresh" => at[c] > 0
           /\ pc[c] = "network" => at[c] = 0
           /\ pc[c] = "store" => at[c] <= Len(todo[c])
    /\ reply \in [Calls -> Replies]
    /\ results \in [Calls -> Seq(Results)]
    /\ task \in [Refreshers -> Tasks]

\* No two refreshes run under one spelling, and the spelling is in the set
\* exactly as long as one does, whichever way it ends: refreshes neither
\* pile up nor are shut out for good (Resolver.updating, tryAsyncUpdate).
SingleFlight ==
    /\ \A g, h \in Running : task[g].key = task[h].key => g = h
    /\ updating = {task[g].key : g \in Running}

\* With every domain cached, expired entries allowed, one spelling to a
\* domain and single queries, only refreshes write the cache, one at a time,
\* so an entry is never replaced by an older answer.
NeverOlder ==
    [][\A d \in Domains : cache[d] # NoEntry /\ cache'[d] # NoEntry
                              => cache[d].ver <= cache'[d].ver]_vars

Times(s, names) == Cardinality({i \in DOMAIN names : names[i] = s})
Returned(s, given) == Cardinality({i \in DOMAIN given : given[i].host = s})

\* However hits and misses fall, a call that succeeds returns each domain as
\* often as it was asked for, except what the server left out of its answer
\* (the merge of cachedResults and networkResults in ResolveBatch).
EveryDomainReturned ==
    \A c \in Calls : pc[c] = "done" =>
        \A s \in Spellings :
            LET LeftOut == IF s \in DOMAIN reply[c] THEN 0 ELSE Times(s, todo[c])
            IN  Returned(s, results[c]) = Times(s, req[c].names) - LeftOut

\* "Even when the cache has expired the old value is returned at once, and a
\* request to update it is made in the background" (README.md:209): as long
\* as it is asked for, an expired entry becomes fresh.
Refreshed ==
    \A d \in Domains : cache[d] # NoEntry /\ ~cache[d].fresh ~> cache[d].fresh

\* A result has the families that were asked for: "resolve IPv4 only",
\* "resolve IPv6 only" (README.md:144, 149), and all that a batch is told, in
\* one record of the answer or in several.
AskedFamilies ==
    \A c \in Calls : pc[c] = "done" =>
        \A i \in DOMAIN results[c] : results[c][i].fams = req[c].want

\* The answers that calls and goroutines have and are yet to store.
AnswerFor(s, answer) == [dom |-> Norm[s], ver |-> answer.ver, fams |-> answer.fams]
ToStore(c) ==
    IF pc[c] = "store"
    THEN {AnswerFor(todo[c][i], reply[c][todo[c][i]]) :
             i \in {j \in at[c] + 1 .. Len(todo[c]) : todo[c][j] \in DOMAIN reply[c]}}
    ELSE {}
RefreshesToStore ==
    {AnswerFor(task[g].name, task[g]) : g \in {h \in Running : task[h].pc = "store"}}
Pending == RefreshesToStore \cup UNION {ToStore(c) : c \in Calls}

Contract == INSTANCE ResolverContract WITH
    Callers <- Calls,
    answers <- Pending,
    told <- results

\* Calls, refreshes and whatever a goroutine finds in the loop variable keep
\* the contract: no entry holds what was answered for another domain, and no
\* caller is told anything else than what is cached or has just been answered.
ImplementsContract == Contract!ContractSpec
=============================================================================
