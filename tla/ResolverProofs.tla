----------------------------- MODULE ResolverProofs -----------------------------
(***************************************************************************)
(* Proofs about Resolver, for any names, callers, requests and number of   *)
(* goroutines.                                                             *)
(***************************************************************************)
EXTENDS Resolver, FiniteSetTheorems, SequenceTheorems, TLAPS

LEMMA EntryType == ASSUME NEW a \in Answers PROVE Entry(a) \in Entries
  BY DEF Entry, Entries, Answers

LEMMA Override ==
    ASSUME NEW S, NEW T, NEW f \in [S -> T], NEW x, NEW v \in T
    PROVE  [f EXCEPT ![x] = v] \in [S -> T]
  OBVIOUS

LEMMA InitTypeOK == Init => TypeOK
  <1> SUFFICES ASSUME Init PROVE TypeOK
    OBVIOUS
  <1> USE DEF Init
  <1>1. zone \in [Domains -> 1 .. MaxVersion]
    BY ResolverAssumption
  <1>2. cache \in [Domains -> Entries \cup {NoEntry}]
    <2>1. [ver |-> 1, fams |-> Families] \in Answers
      BY ResolverAssumption DEF Answers
    <2> QED
      BY <2>1, EntryType
  <1>3. req \in [Calls -> Queries]
    BY DEF Unasked, Kinds, Queries
  <1>4. reply \in [Calls -> Replies]
    <2>1. NoReply \in [{} -> Answers]
      BY DEF NoReply
    <2> QED
      BY <2>1 DEF Replies
  <1>5. task \in [Refreshers -> Tasks]
    BY DEF Tasks
  <1>6. todo \in [Calls -> Seq(Spellings)]
        /\ results \in [Calls -> Seq(Results)]
    OBVIOUS
  <1> QED
    BY <1>1, <1>2, <1>3, <1>4, <1>5, <1>6 DEF TypeOK, Labels

\* What TypeOK says of a call, one call at a time.
CallBounds(c) ==
    /\ pc[c] \in {"look", "refresh"} => at[c] <= Len(req[c].names)
    /\ pc[c] = "refresh" => at[c] > 0
    /\ pc[c] = "network" => at[c] = 0
    /\ pc[c] = "store" => at[c] <= Len(todo[c])

LEMMA CallTypeOK ==
    ASSUME TypeOK, NEW c \in Calls, NEW q \in Requests, Call(c, q)
    PROVE  TypeOK'
  <1> USE DEF Call
  <1>1. q \in Queries
    BY ResolverAssumption
  <1>2. NoReply \in Replies
    <2>1. NoReply \in [{} -> Answers]
      BY DEF NoReply
    <2> QED
      BY <2>1 DEF Replies
  <1>3. /\ req' \in [Calls -> Queries]
        /\ reply' \in [Calls -> Replies]
        /\ pc' \in [Calls -> Labels]
        /\ at' \in [Calls -> Nat]
        /\ todo' \in [Calls -> Seq(Spellings)]
        /\ results' \in [Calls -> Seq(Results)]
    <2>1. \A S : <<>> \in Seq(S)
      OBVIOUS
    <2>2. "look" \in Labels /\ "failed" \in Labels
      BY DEF Labels
    <2> QED
      BY <1>1, <1>2, <2>1, <2>2, Override DEF TypeOK
  <1>4. ASSUME NEW b \in Calls PROVE CallBounds(b)'
    <2>1. Len(q.names) \in Nat
      BY <1>1 DEF Queries
    <2> QED
      BY <2>1 DEF TypeOK, CallBounds
  <1> QED
    BY <1>3, <1>4 DEF TypeOK, CallBounds

LEMMA LookTypeOK ==
    ASSUME TypeOK, NEW c \in Calls, Look(c)
    PROVE  TypeOK'
  <1> DEFINE s == req[c].names[at[c] + 1]
  <1>1. req[c].names \in Seq(Spellings) /\ at[c] \in Nat /\ at[c] + 1 \in 1 .. Len(req[c].names)
    BY DEF TypeOK, Look, Queries
  <1>2. s \in Spellings /\ Norm[s] \in Domains
    BY <1>1, ResolverAssumption
  <1> HIDE DEF s
  <1>3. todo' \in [Calls -> Seq(Spellings)]
    <2>1. Append(todo[c], s) \in Seq(Spellings)
      BY <1>2 DEF TypeOK
    <2> QED
      BY <2>1, Override DEF TypeOK, Look, s
  <1>4. results' \in [Calls -> Seq(Results)]
    <2>1. CASE Hit(Norm[s])
      <3>1. Result(s, cache[Norm[s]].fams) \in Results
        BY <1>2, <2>1 DEF TypeOK, Hit, Entries, Result, Results
      <3>2. Append(results[c], Result(s, cache[Norm[s]].fams)) \in Seq(Results)
        BY <3>1 DEF TypeOK
      <3> QED
        BY <2>1, <3>2, Override DEF TypeOK, Look, s
    <2>2. CASE ~Hit(Norm[s])
      BY <2>2 DEF TypeOK, Look, s
    <2> QED
      BY <2>1, <2>2
  <1>5. pc' \in [Calls -> Labels] /\ at' \in [Calls -> Nat]
    <2>1. "look" \in Labels /\ "refresh" \in Labels
      BY DEF Labels
    <2>2. pc' = pc \/ \E l \in Labels : pc' = [pc EXCEPT ![c] = l]
      BY <2>1 DEF Look
    <2>3. pc' \in [Calls -> Labels]
      BY <2>2, Override DEF TypeOK
    <2>4. at' = [at EXCEPT ![c] = at[c] + 1] /\ at[c] + 1 \in Nat
      BY <1>1 DEF Look
    <2> QED
      BY <2>3, <2>4, Override DEF TypeOK
  <1>6. ASSUME NEW b \in Calls PROVE CallBounds(b)'
    BY <1>1 DEF TypeOK, CallBounds, Look
  <1> QED
    BY <1>3, <1>4, <1>5, <1>6 DEF TypeOK, CallBounds, Look

LEMMA TryAsyncUpdateTypeOK ==
    ASSUME TypeOK, NEW c \in Calls, TryAsyncUpdate(c)
    PROVE  TypeOK'
  <1> DEFINE s == req[c].names[at[c]]
  <1>1. s \in Spellings
    BY DEF TypeOK, TryAsyncUpdate, Queries
  <1>2. task' \in [Refreshers -> Tasks]
    <2>1. [pc |-> "start", key |-> s, owner |-> c, want |-> req[c].want] \in Tasks
      BY <1>1 DEF TypeOK, Tasks, Queries
    <2> QED
      BY <2>1 DEF TypeOK, TryAsyncUpdate
  <1>3. updating' \subseteq Spellings /\ pc' \in [Calls -> Labels]
    BY <1>1 DEF TypeOK, TryAsyncUpdate, Labels
  <1> QED
    BY <1>2, <1>3 DEF TypeOK, TryAsyncUpdate

\* However an answer is split into records, no host gets a family nobody has.
LEMMA MergedType ==
    ASSUME NEW q \in Queries, NEW hosts, NEW split, NEW s
    PROVE  Merged(Records(q, hosts, split), s) \in SUBSET Families
  <1>1. Queried(q) \subseteq Families
    BY DEF Queried, Queries
  <1>2. \A r \in Records(q, hosts, split) : r.fams \subseteq Families
    BY <1>1 DEF Records
  <1> QED
    BY <1>2 DEF Merged

LEMMA NetworkTypeOK ==
    ASSUME TypeOK, NEW c \in Calls,
           LookedAtAll(c) \/ NoAnswer(c) \/ Return(c)
           \/ \E hosts \in SUBSET Names(todo[c]) : \E split \in SUBSET hosts : Answer(c, hosts, split)
    PROVE  TypeOK'
  <1>1. CASE LookedAtAll(c)
    <2>1. pc' \in [Calls -> Labels] /\ at' \in [Calls -> Nat]
      BY <1>1 DEF TypeOK, LookedAtAll, Labels
    <2> QED
      BY <1>1, <2>1 DEF TypeOK, LookedAtAll
  <1>2. CASE NoAnswer(c)
    <2>1. pc' \in [Calls -> Labels] /\ results' \in [Calls -> Seq(Results)]
      BY <1>2 DEF TypeOK, NoAnswer, Labels
    <2> QED
      BY <1>2, <2>1 DEF TypeOK, NoAnswer
  <1>3. CASE Return(c)
    BY <1>3 DEF TypeOK, Return, Labels
  <1>4. ASSUME NEW hosts \in SUBSET Names(todo[c]), NEW split \in SUBSET hosts,
               Answer(c, hosts, split)
        PROVE  TypeOK'
    <2> DEFINE fams(s) == Merged(Records(req[c], hosts, split), s)
               r == [s \in hosts |-> [ver |-> zone[Norm[s]], fams |-> fams(s)]]
    <2>1. hosts \subseteq Spellings
      BY <1>4 DEF TypeOK, Names
    <2>2. r \in [hosts -> Answers]
      <3>1. \A s \in hosts : fams(s) \in SUBSET Families
        BY MergedType DEF TypeOK
      <3> HIDE DEF fams
      <3> QED
        BY <2>1, <3>1, ResolverAssumption DEF TypeOK, Answers
    <2>3. r \in Replies
      BY <2>1, <2>2 DEF Replies
    <2>4. reply' \in [Calls -> Replies]
      BY <1>4, <2>3 DEF TypeOK, Answer
    <2>5. pc' \in [Calls -> Labels]
      BY <1>4 DEF TypeOK, Answer, Labels
    <2>6. \A b \in Calls : CallBounds(b)'
      BY <1>4 DEF TypeOK, Answer, CallBounds
    <2> QED
      BY <1>4, <2>4, <2>5, <2>6 DEF TypeOK, Answer, CallBounds
  <1> QED
    BY <1>1, <1>2, <1>3, <1>4

LEMMA StoreTypeOK ==
    ASSUME TypeOK, NEW c \in Calls, Store(c)
    PROVE  TypeOK'
  <1> DEFINE s == todo[c][at[c] + 1]
  <1>1. at[c] \in Nat /\ at[c] + 1 \in 1 .. Len(todo[c]) /\ s \in Spellings
    BY DEF TypeOK, Store
  <1>2. Norm[s] \in Domains
    BY <1>1, ResolverAssumption
  <1>3. s \in DOMAIN reply[c] => reply[c][s] \in Answers
    <2>1. PICK hosts \in SUBSET Spellings : reply[c] \in [hosts -> Answers]
      BY DEF TypeOK, Replies
    <2> QED
      BY <2>1
  <1>4. cache' \in [Domains -> Entries \cup {NoEntry}]
    <2>1. CASE s \in DOMAIN reply[c]
      <3>1. Entry(reply[c][s]) \in Entries
        BY <1>3, <2>1, EntryType
      <3> QED
        BY <1>2, <2>1, <3>1 DEF TypeOK, Store
    <2> QED
      BY <2>1 DEF TypeOK, Store
  <1>5. results' \in [Calls -> Seq(Results)]
    <2>1. CASE s \in DOMAIN reply[c]
      <3>1. Result(s, reply[c][s].fams) \in Results
        BY <1>1, <1>3, <2>1 DEF Result, Results, Answers
      <3>2. Append(results[c], Result(s, reply[c][s].fams)) \in Seq(Results)
        BY <3>1 DEF TypeOK
      <3>3. results' = [results EXCEPT ![c] = Append(results[c], Result(s, reply[c][s].fams))]
        BY <2>1 DEF Store
      <3> HIDE DEF s
      <3> QED
        BY <3>2, <3>3, Override DEF TypeOK
    <2>2. CASE s \notin DOMAIN reply[c]
      BY <2>2 DEF TypeOK, Store
    <2> QED
      BY <2>1, <2>2
  <1>6. at' \in [Calls -> Nat] /\ \A b \in Calls : CallBounds(b)'
    BY <1>1 DEF TypeOK, CallBounds, Store
  <1> QED
    BY <1>4, <1>5, <1>6 DEF TypeOK, CallBounds, Store

LEMMA RefreshTypeOK ==
    ASSUME TypeOK, NEW g \in Refreshers, RefreshStep(g)
    PROVE  TypeOK'
  <1>1. ASSUME NEW s \in Spellings \cup {Torn}, ReadLoopVar(g, s) PROVE TypeOK'
    <2>1. [pc |-> "network", key |-> task[g].key, name |-> s, want |-> task[g].want] \in Tasks
      BY <1>1 DEF TypeOK, Tasks, ReadLoopVar, Running, Idle
    <2>2. task' \in [Refreshers -> Tasks]
      BY <1>1, <2>1 DEF TypeOK, ReadLoopVar
    <2> QED
      BY <1>1, <2>2 DEF TypeOK, ReadLoopVar, callVars
  <1>2. CASE RefreshAnswered(g)
    <2>1. task[g] \in [pc : {"network"}, key : Spellings, name : Spellings \cup {Torn},
                       want : SUBSET Families]
      BY <1>2 DEF TypeOK, Tasks, RefreshAnswered, Running, Idle
    <2>2. zone[Norm[task[g].name]] \in 1 .. MaxVersion
      BY <1>2, <2>1, ResolverAssumption DEF TypeOK, RefreshAnswered
    <2>3. [pc |-> "store", key |-> task[g].key, name |-> task[g].name,
           ver |-> zone[Norm[task[g].name]], fams |-> task[g].want] \in Tasks
      BY <1>2, <2>1, <2>2 DEF Tasks, RefreshAnswered
    <2>4. task' \in [Refreshers -> Tasks]
      BY <1>2, <2>3 DEF TypeOK, RefreshAnswered
    <2> QED
      BY <1>2, <2>4 DEF TypeOK, RefreshAnswered, callVars
  <1>3. ASSUME Released(g), UNCHANGED <<zone, cache, callVars>> PROVE TypeOK'
    <2>1. task' \in [Refreshers -> Tasks] /\ updating' \subseteq Spellings
      BY <1>3 DEF TypeOK, Released, Tasks
    <2> QED
      BY <1>3, <2>1 DEF TypeOK, callVars
  <1>4. CASE RefreshStores(g)
    <2>1. task[g] \in [pc : {"store"}, key : Spellings, name : Spellings,
                       ver : 1 .. MaxVersion, fams : SUBSET Families]
      BY <1>4 DEF TypeOK, Tasks, RefreshStores, Running, Idle
    <2>2. Entry(task[g]) \in Entries /\ Norm[task[g].name] \in Domains
      BY <2>1, ResolverAssumption DEF Entry, Entries
    <2>3. [pc |-> "release", key |-> task[g].key] \in Tasks
      BY <2>1 DEF Tasks
    <2>4. /\ task' \in [Refreshers -> Tasks]
          /\ cache' \in [Domains -> Entries \cup {NoEntry}]
      BY <1>4, <2>2, <2>3 DEF TypeOK, RefreshStores
    <2> QED
      BY <1>4, <2>4 DEF TypeOK, RefreshStores, callVars
  <1> QED
    BY <1>1, <1>2, <1>3, <1>4 DEF RefreshStep, RefreshFails, Release

LEMMA WorldTypeOK ==
    ASSUME TypeOK, NEW d \in Domains, Expire(d) \/ ZoneChanges(d)
    PROVE  TypeOK'
  <1>1. CASE Expire(d)
    <2>1. cache' \in [Domains -> Entries \cup {NoEntry}]
      <3>1. [cache[d] EXCEPT !.fresh = FALSE] \in Entries
        BY <1>1 DEF TypeOK, Expire, Entries
      <3> QED
        BY <1>1, <3>1 DEF TypeOK, Expire
    <2> QED
      BY <1>1, <2>1 DEF TypeOK, Expire, callVars
  <1>2. CASE ZoneChanges(d)
    <2>1. zone[d] + 1 \in 1 .. MaxVersion
      BY <1>2, ResolverAssumption DEF TypeOK, ZoneChanges
    <2>2. zone' \in [Domains -> 1 .. MaxVersion]
      BY <1>2, <2>1, Override DEF TypeOK, ZoneChanges
    <2> QED
      BY <1>2, <2>2 DEF TypeOK, ZoneChanges, callVars
  <1> QED
    BY <1>1, <1>2

\* Every variable of the resolver stays in its range.
THEOREM TypeCorrect == Spec => []TypeOK
  <1>1. TypeOK /\ [Next]_vars => TypeOK'
    <2> SUFFICES ASSUME TypeOK, [Next]_vars PROVE TypeOK'
      OBVIOUS
    <2>1. ASSUME NEW c \in Calls, CallStep(c) PROVE TypeOK'
      BY <2>1, LookTypeOK, TryAsyncUpdateTypeOK, NetworkTypeOK, StoreTypeOK DEF CallStep
    <2>2. CASE UNCHANGED vars
      BY <2>2 DEF TypeOK, vars, callVars
    <2> QED
      BY <2>1, <2>2, CallTypeOK, RefreshTypeOK, WorldTypeOK DEF Next
  <1> QED
    BY <1>1, InitTypeOK, PTL DEF Spec

-----------------------------------------------------------------------------

\* A step that leaves every goroutine running under its key, or idle.
LEMMA KeysKept ==
    ASSUME TypeOK, SingleFlight, UNCHANGED updating,
           \A g \in Refreshers : /\ task'[g] # Idle <=> task[g] # Idle
                                 /\ task[g] # Idle => task'[g].key = task[g].key
    PROVE  SingleFlight'
  <1>1. Running' = Running
    BY DEF Running
  <1>2. \A g \in Running : task'[g].key = task[g].key
    BY DEF Running
  <1> QED
    BY <1>1, <1>2 DEF SingleFlight, Running

LEMMA StartKeeps ==
    ASSUME TypeOK, SingleFlight, NEW c \in Calls, TryAsyncUpdate(c)
    PROVE  SingleFlight'
  <1> DEFINE s == req[c].names[at[c]]
             t == [pc |-> "start", key |-> s, owner |-> c, want |-> req[c].want]
  <1>1. CASE UNCHANGED <<updating, task>>
    BY <1>1 DEF SingleFlight, Running
  <1>2. ASSUME NEW g \in Refreshers \ Running, s \notin updating,
               updating' = updating \cup {s}, task' = [task EXCEPT ![g] = t]
        PROVE  SingleFlight'
    <2>1. task'[g] = t /\ t # Idle /\ t.key = s
      BY <1>2 DEF TypeOK, Idle
    <2>2. \A h \in Refreshers \ {g} : task'[h] = task[h]
      BY <1>2 DEF TypeOK
    <2>3. Running' = Running \cup {g} /\ g \notin Running
      BY <2>1, <2>2 DEF Running
    <2>4. \A h \in Running : task'[h].key = task[h].key /\ task[h].key # s
      BY <1>2, <2>2, <2>3 DEF SingleFlight, Running
    <2>5. task'[g].key = s
      BY <2>1
    <2> HIDE DEF s, t
    <2> QED
      BY <1>2, <2>3, <2>4, <2>5 DEF SingleFlight
  <1> QED
    BY <1>1, <1>2 DEF TryAsyncUpdate

LEMMA ReleaseKeeps ==
    ASSUME TypeOK, SingleFlight, NEW g \in Running, Released(g)
    PROVE  SingleFlight'
  <1>1. task'[g] = Idle /\ \A h \in Refreshers \ {g} : task'[h] = task[h]
    BY DEF TypeOK, Released, Running
  <1>2. Running' = Running \ {g}
    BY <1>1 DEF Running
  <1>3. \A h \in Running \ {g} : task'[h].key = task[h].key /\ task[h].key # task[g].key
    BY <1>1 DEF SingleFlight, Running
  <1>4. updating' = updating \ {task[g].key}
    BY DEF Released
  <1> QED
    BY <1>2, <1>3, <1>4 DEF SingleFlight

LEMMA RefreshKeepsFlight ==
    ASSUME TypeOK, SingleFlight, NEW g \in Refreshers, RefreshStep(g)
    PROVE  SingleFlight'
  <1>1. CASE RefreshFails(g) \/ Release(g)
    BY <1>1, ReleaseKeeps DEF RefreshFails, Release
  <1>2. ASSUME NEW t, task' = [task EXCEPT ![g] = t], g \in Running, UNCHANGED updating,
               t # Idle, t.key = task[g].key
        PROVE  SingleFlight'
    BY <1>2, KeysKept DEF TypeOK, Running
  <1>3. ASSUME NEW s \in Spellings \cup {Torn}, ReadLoopVar(g, s) PROVE SingleFlight'
    BY <1>2, <1>3 DEF ReadLoopVar, Idle
  <1>4. CASE RefreshAnswered(g)
    BY <1>2, <1>4 DEF RefreshAnswered, Idle
  <1>5. CASE RefreshStores(g)
    BY <1>2, <1>5 DEF RefreshStores, Idle
  <1> QED
    BY <1>1, <1>3, <1>4, <1>5 DEF RefreshStep

\* One refresh under a spelling, registered as long as it runs.
THEOREM OneFlight == Spec => []SingleFlight
  <1>1. Init => SingleFlight
    BY DEF Init, SingleFlight, Running
  <1>2. TypeOK /\ SingleFlight /\ [Next]_vars => SingleFlight'
    <2> SUFFICES ASSUME TypeOK, SingleFlight, [Next]_vars PROVE SingleFlight'
      OBVIOUS
    <2>1. CASE UNCHANGED <<updating, task>>
      BY <2>1, SMTT(30) DEF SingleFlight, Running
    <2>2. ASSUME NEW c \in Calls, CallStep(c) PROVE SingleFlight'
      BY <2>1, <2>2, StartKeeps
         DEF CallStep, Look, LookedAtAll, NoAnswer, Answer, Store, Return
    <2> QED
      BY <2>1, <2>2, RefreshKeepsFlight DEF Next, Call, Expire, ZoneChanges, vars
  <1> QED
    BY <1>1, <1>2, TypeCorrect, PTL DEF Spec

-----------------------------------------------------------------------------

\* The setting in which the cache only moves forward: it answers every
\* single query, and each domain has one spelling.
AlwaysCached ==
    /\ AllowExpired
    /\ Preloaded = Domains
    /\ \A s, t \in Spellings : Norm[s] = Norm[t] => s = t
    /\ \A q \in Requests : q.kind = "single"

\* Calls never reach the network, so their loop has one round.
CacheOnly(c) ==
    /\ pc[c] \notin {"network", "store"}
    /\ todo[c] = <<>>
    /\ pc[c] \in {"look", "refresh"} => Len(req[c].names) = 1

\* The loop variable of a goroutine's caller holds its key.
Starts(t) ==
    /\ req[t.owner].names = <<t.key>>
    /\ pc[t.owner] \in {"look", "refresh"} => at[t.owner] = 1

\* An answer on its way is between the cache and the servers.
Between(t) ==
    /\ t.name = t.key
    /\ cache[Norm[t.key]].ver <= t.ver
    /\ t.ver <= zone[Norm[t.key]]

Forward ==
    /\ \A d \in Domains : cache[d] # NoEntry /\ cache[d].ver <= zone[d]
    /\ \A c \in Calls : CacheOnly(c)
    /\ \A g \in Running : /\ task[g].pc = "start" => Starts(task[g])
                          /\ task[g].pc = "network" => task[g].name = task[g].key
                          /\ task[g].pc = "store" => Between(task[g])

\* No entry is lost or replaced by an older one: NeverOlder of one step.
NoneOlder ==
    \A d \in Domains : cache[d] # NoEntry /\ cache'[d] # NoEntry => cache[d].ver <= cache'[d].ver

LEMMA InitForward == ASSUME AlwaysCached PROVE Init => Forward
  <1> SUFFICES ASSUME Init PROVE Forward
    OBVIOUS
  <1>1. ASSUME NEW d \in Domains PROVE cache[d] # NoEntry /\ cache[d].ver <= zone[d]
    <2>1. Entry([ver |-> 1, fams |-> Families]) \in [ver : Nat, fresh : BOOLEAN, fams : SUBSET Families]
      BY DEF Entry
    <2>2. cache[d] = Entry([ver |-> 1, fams |-> Families])
      BY DEF Init, AlwaysCached
    <2>3. cache[d] # NoEntry
      BY <2>1, <2>2, ResolverAssumption
    <2>4. cache[d].ver = 1 /\ zone[d] = 1
      BY <2>2 DEF Init, Entry
    <2> QED
      BY <2>3, <2>4
  <1>2. Running = {}
    BY DEF Init, Running
  <1> QED
    BY <1>1, <1>2 DEF Init, Forward, CacheOnly

\* A step of one call that touches neither cache nor servers nor goroutines.
LEMMA CallKeeps ==
    ASSUME TypeOK, Forward, NEW c \in Calls, UNCHANGED <<zone, cache, task>>,
           \A b \in Calls \ {c} : pc'[b] = pc[b] /\ req'[b] = req[b]
                                  /\ at'[b] = at[b] /\ todo'[b] = todo[b],
           CacheOnly(c)',
           Captured(c) => /\ req'[c].names = req[c].names
                          /\ pc'[c] \in {"look", "refresh"} => at'[c] = 1
    PROVE  Forward' /\ NoneOlder
  <1>1. Running' = Running
    BY DEF Running
  <1>2. ASSUME NEW g \in Running, task[g].pc = "start" PROVE Starts(task[g])'
    <2>1. task[g].owner \in Calls
      BY <1>2 DEF TypeOK, Tasks, Running, Idle
    <2>2. CASE task[g].owner = c
      BY <1>2, <2>2 DEF Forward, Starts, Captured
    <2>3. CASE task[g].owner # c
      BY <1>2, <2>1, <2>3 DEF Forward, Starts
    <2> QED
      BY <2>2, <2>3
  <1>3. \A b \in Calls \ {c} : CacheOnly(b)'
    BY DEF Forward, CacheOnly
  <1>4. \A g \in Running : Between(task[g]) => Between(task[g])'
    BY DEF Between
  <1>5. NoneOlder
    BY DEF NoneOlder, Forward, TypeOK, Entries
  <1> QED
    BY <1>1, <1>2, <1>3, <1>4, <1>5 DEF Forward

LEMMA CallForward ==
    ASSUME AlwaysCached, TypeOK, Forward, NEW c \in Calls,
           CallStep(c) \/ \E q \in Requests : Call(c, q)
    PROVE  Forward' /\ NoneOlder
  <1> USE DEF TypeOK, Forward, CacheOnly
  <1>1. ASSUME NEW q \in Requests, Call(c, q) PROVE Forward' /\ NoneOlder
    <2>1. Len(q.names) = 1
      BY ResolverAssumption DEF AlwaysCached
    <2>2. CacheOnly(c)'
      BY <1>1, <2>1, SMTT(30) DEF Call
    <2> QED
      BY <1>1, <2>2, CallKeeps DEF Call
  <1>2. CASE Look(c)
    <2> DEFINE s == req[c].names[at[c] + 1]
    <2>1. Len(req[c].names) = 1 /\ at[c] = 0
      BY <1>2 DEF Look
    <2>2. Norm[s] \in Domains
      BY <2>1, ResolverAssumption DEF Queries
    <2>3. Hit(Norm[s])
      BY <2>2 DEF Hit, AlwaysCached
    <2>4. CacheOnly(c)' /\ at'[c] = 1
      BY <1>2, <2>1, <2>3 DEF Look
    <2> QED
      BY <1>2, <2>4, CallKeeps DEF Look
  <1>3. CASE LookedAtAll(c)
    <2>1. CacheOnly(c)' /\ pc'[c] = "done"
      BY <1>3 DEF LookedAtAll
    <2> QED
      BY <1>3, <2>1, CallKeeps DEF LookedAtAll
  <1>4. CASE TryAsyncUpdate(c)
    <2> DEFINE s == req[c].names[at[c]]
               t == [pc |-> "start", key |-> s, owner |-> c, want |-> req[c].want]
    <2>1. at[c] = 1 /\ req[c].names = <<s>>
      BY <1>4 DEF TryAsyncUpdate, Queries
    <2>2. CASE UNCHANGED task
      <3>1. CacheOnly(c)' /\ at'[c] = 1
        BY <1>4, <2>1 DEF TryAsyncUpdate
      <3> QED
        BY <1>4, <2>2, <3>1, CallKeeps DEF TryAsyncUpdate
    <2>3. ASSUME NEW g \in Refreshers \ Running, task' = [task EXCEPT ![g] = t]
          PROVE  Forward' /\ NoneOlder
      <3>1. \A h \in Running : task'[h] = task[h]
        BY <2>3 DEF Running
      <3>2. Running' \subseteq Running \cup {g} /\ task'[g] = t
        BY <2>3 DEF Running
      <3>3. Starts(task[g])'
        BY <1>4, <2>1, <3>2 DEF TryAsyncUpdate, Starts
      <3>4. task'[g].pc = "start"
        BY <3>2
      <3> HIDE DEF s, t
      <3>5. ASSUME NEW h \in Running'
            PROVE  /\ task'[h].pc = "start" => Starts(task[h])'
                   /\ task'[h].pc = "network" => task'[h].name = task'[h].key
                   /\ task'[h].pc = "store" => Between(task[h])'
        <4>1. CASE h = g
          BY <3>3, <3>4, <4>1
        <4>2. CASE h # g
          <5>1. h \in Running /\ task'[h] = task[h]
            BY <3>1, <3>2, <4>2
          <5>2. Starts(task[h]) => Starts(task[h])'
            BY <1>4, <2>1, <5>1 DEF TryAsyncUpdate, Starts
          <5>3. Between(task[h]) => Between(task[h])'
            BY <1>4, <5>1 DEF TryAsyncUpdate, Between
          <5> QED
            BY <5>1, <5>2, <5>3
        <4> QED
          BY <4>1, <4>2
      <3>6. \A b \in Calls : CacheOnly(b)'
        BY <1>4 DEF TryAsyncUpdate
      <3>7. \A d \in Domains : cache'[d] # NoEntry /\ cache'[d].ver <= zone'[d]
        BY <1>4 DEF TryAsyncUpdate
      <3>8. NoneOlder
        BY <1>4 DEF TryAsyncUpdate, NoneOlder, Entries
      <3> QED
        BY <3>5, <3>6, <3>7, <3>8
    <2> QED
      BY <1>4, <2>2, <2>3 DEF TryAsyncUpdate
  <1>5. ~(\/ NoAnswer(c) \/ Store(c) \/ Return(c)
          \/ \E hosts \in SUBSET Names(todo[c]) : \E split \in SUBSET hosts : Answer(c, hosts, split))
    BY DEF NoAnswer, Store, Return, Answer
  <1> QED
    BY <1>1, <1>2, <1>3, <1>4, <1>5 DEF CallStep

\* A step of one goroutine changes no call.
LEMMA RefreshForward ==
    ASSUME AlwaysCached, TypeOK, SingleFlight, Forward,
           NEW g \in Refreshers, RefreshStep(g)
    PROVE  Forward' /\ NoneOlder
  <1> USE DEF TypeOK
  <1>1. UNCHANGED <<zone, callVars>> /\ g \in Running
    BY DEF RefreshStep, ReadLoopVar, RefreshAnswered, RefreshFails, RefreshStores, Release
  <1>2. \A h \in Refreshers \ {g} : task'[h] = task[h]
    BY DEF RefreshStep, ReadLoopVar, RefreshAnswered, RefreshFails, RefreshStores, Release,
           Released
  <1>3. \A c \in Calls : CacheOnly(c)'
    BY <1>1 DEF Forward, CacheOnly, callVars
  <1>4. \A t : Starts(t) => Starts(t)'
    BY <1>1 DEF Starts, callVars
  <1>5. task[g] \in Tasks /\ task[g] # Idle
    BY <1>1 DEF Running
  <1>6. ASSUME UNCHANGED cache,
               /\ task'[g].pc = "start" => Starts(task[g])'
               /\ task'[g].pc = "network" => task'[g].name = task'[g].key
               /\ task'[g].pc = "store" => Between(task[g])'
        PROVE  Forward' /\ NoneOlder
    <2>1. ASSUME NEW h \in Running' \ {g}
          PROVE  /\ task'[h].pc = "start" => Starts(task[h])'
                 /\ task'[h].pc = "network" => task'[h].name = task'[h].key
                 /\ task'[h].pc = "store" => Between(task[h])'
      <3>1. h \in Running /\ task'[h] = task[h]
        BY <1>2 DEF Running
      <3>2. Between(task[h]) => Between(task[h])'
        BY <1>1, <1>6, <3>1 DEF Between
      <3> QED
        BY <1>4, <3>1, <3>2 DEF Forward, Starts
    <2>2. NoneOlder
      BY <1>6 DEF NoneOlder, Forward, Entries
    <2> QED
      BY <1>1, <1>3, <1>6, <2>1, <2>2 DEF Forward
  <1>7. ASSUME NEW s \in Spellings \cup {Torn}, ReadLoopVar(g, s) PROVE Forward' /\ NoneOlder
    <2>1. task[g].pc = "start" /\ task[g].owner \in Calls /\ Starts(task[g])
      BY <1>1, <1>5, <1>7 DEF ReadLoopVar, Tasks, Forward
    <2>2. s = task[g].key
      BY <1>7, <2>1 DEF ReadLoopVar, LoopVar, Starts
    <2>3. task'[g].pc = "network" /\ task'[g].name = s /\ task'[g].key = task[g].key
      BY <1>7 DEF ReadLoopVar
    <2> QED
      BY <1>6, <1>7, <2>2, <2>3 DEF ReadLoopVar
  <1>8. CASE RefreshAnswered(g)
    <2> DEFINE t == task[g]
    <2>1. t.key \in Spellings /\ t.name = t.key
      BY <1>1, <1>5, <1>8 DEF RefreshAnswered, Tasks, Forward
    <2>2. Norm[t.key] \in Domains
      BY <2>1, ResolverAssumption
    <2>3. /\ task'[g].pc = "store" /\ task'[g].key = t.key /\ task'[g].name = t.name
          /\ task'[g].ver = zone[Norm[t.key]]
      BY <1>8, <2>1 DEF RefreshAnswered
    <2>4. Between(task[g])'
      BY <1>1, <1>8, <2>2, <2>3, <2>1 DEF Between, RefreshAnswered, Forward
    <2> QED
      BY <1>6, <1>8, <2>3, <2>4 DEF RefreshAnswered
  <1>9. CASE RefreshFails(g) \/ Release(g)
    BY <1>6, <1>9 DEF RefreshFails, Release, Released, Idle
  <1>10. CASE RefreshStores(g)
    <2> DEFINE t == task[g]
               d == Norm[t.key]
    <2>1. /\ t \in [pc : {"store"}, key : Spellings, name : Spellings,
                    ver : 1 .. MaxVersion, fams : SUBSET Families]
          /\ Between(t)
      BY <1>1, <1>5, <1>10 DEF RefreshStores, Tasks, Forward
    <2>2. d \in Domains /\ t.name = t.key
      BY <2>1, ResolverAssumption DEF Between
    <2>3. Entry(t).ver = t.ver /\ Entry(t) # NoEntry
      <3>1. Entry(t) \in [ver : Nat, fresh : BOOLEAN, fams : SUBSET Families]
        BY <2>1 DEF Entry
      <3> QED
        BY <3>1, ResolverAssumption DEF Entry
    <2> HIDE DEF t, d
    <2>4. cache' = [cache EXCEPT ![d] = Entry(t)]
      BY <1>10, <2>2 DEF RefreshStores, t, d
    <2>5. cache'[d] = Entry(t) /\ \A e \in Domains \ {d} : cache'[e] = cache[e]
      BY <2>2, <2>4
    <2>6. \A e \in Domains : cache'[e] # NoEntry /\ cache'[e].ver <= zone'[e]
      BY <1>1, <2>1, <2>2, <2>3, <2>5 DEF Forward, Between, d
    <2>7. NoneOlder
      <3>1. ASSUME NEW e \in Domains PROVE cache[e].ver <= cache'[e].ver
        <4>1. cache[e] \in Entries
          BY DEF Forward
        <4>2. CASE e = d
          BY <2>1, <2>3, <2>5, <4>2 DEF Between, d
        <4>3. CASE e # d
          BY <2>5, <4>1, <4>3 DEF Entries
        <4> QED
          BY <4>2, <4>3
      <3> QED
        BY <3>1 DEF NoneOlder
    <2>8. ASSUME NEW h \in Running'
          PROVE  /\ task'[h].pc = "start" => Starts(task[h])'
                 /\ task'[h].pc = "network" => task'[h].name = task'[h].key
                 /\ task'[h].pc = "store" => Between(task[h])'
      <3>1. CASE h = g
        BY <1>10, <3>1 DEF RefreshStores
      <3>2. CASE h # g
        <4>1. h \in Running /\ task'[h] = task[h]
          BY <1>2, <3>2 DEF Running
        <4>2. task[h].pc = "store" => Between(task[h])'
          <5> SUFFICES ASSUME task[h].pc = "store" PROVE Between(task[h])'
            OBVIOUS
          <5>1. task[h].key \in Spellings /\ task[h].key # t.key
            BY <1>1, <3>2, <4>1 DEF SingleFlight, Running, Tasks, Idle, t
          <5>2. Norm[task[h].key] \in Domains \ {d}
            BY <2>1, <5>1, ResolverAssumption DEF AlwaysCached, d
          <5> QED
            BY <1>1, <2>5, <4>1, <5>2 DEF Between, Forward
        <4> QED
          BY <1>4, <4>1, <4>2 DEF Forward, Starts
      <3> QED
        BY <3>1, <3>2
    <2> QED
      BY <1>3, <2>6, <2>7, <2>8 DEF Forward
  <1> QED
    BY <1>7, <1>8, <1>9, <1>10 DEF RefreshStep

LEMMA WorldForward ==
    ASSUME TypeOK, Forward, NEW d \in Domains, Expire(d) \/ ZoneChanges(d)
    PROVE  Forward' /\ NoneOlder
  <1> USE DEF TypeOK
  <1>1. UNCHANGED <<callVars, task>> /\ Running' = Running
    BY DEF Expire, ZoneChanges, Running
  <1>2. \A e \in Domains : cache[e] \in Entries
    BY DEF Forward
  <1>3. ASSUME NEW e \in Domains
        PROVE  /\ cache'[e] # NoEntry /\ cache'[e].ver = cache[e].ver
               /\ zone[e] <= zone'[e] /\ cache'[e].ver <= zone'[e]
    <2>1. CASE Expire(d)
      <3>1. cache'[e] = cache[e] \/ cache'[e] = [cache[e] EXCEPT !.fresh = FALSE]
        <4>1. CASE e = d
          BY <2>1, <4>1 DEF Expire
        <4>2. CASE e # d
          BY <2>1, <4>2 DEF Expire
        <4> QED
          BY <4>1, <4>2
      <3>2. [cache[e] EXCEPT !.fresh = FALSE] \in Entries
        BY <1>2 DEF Entries
      <3>3. cache'[e] # NoEntry
        <4>1. NoEntry \notin Entries
          BY ResolverAssumption DEF Entries
        <4> QED
          BY <3>1, <3>2, <4>1 DEF Forward
      <3>4. cache'[e].ver = cache[e].ver
        BY <1>2, <3>1 DEF Entries
      <3> QED
        BY <2>1, <3>3, <3>4 DEF Expire, Forward
    <2>2. CASE ZoneChanges(d)
      BY <1>2, <2>2 DEF ZoneChanges, Forward, Entries
    <2> QED
      BY <2>1, <2>2
  <1>4. ASSUME NEW g \in Running, task[g].pc = "store" PROVE Between(task[g])'
    <2>1. task[g].key \in Spellings /\ task[g].ver \in Nat
      BY <1>4 DEF Running, Tasks, Idle
    <2>2. Norm[task[g].key] \in Domains
      BY <2>1, ResolverAssumption
    <2>3. Between(task[g]) /\ task'[g] = task[g]
      BY <1>1, <1>4 DEF Forward
    <2> DEFINE e == Norm[task[g].key]
    <2>4. cache'[e].ver = cache[e].ver /\ zone[e] <= zone'[e]
      BY <1>3, <2>2
    <2>5. zone[e] \in Nat /\ zone'[e] \in Nat
      BY <2>2, WorldTypeOK, ResolverAssumption
    <2> QED
      BY <2>1, <2>3, <2>4, <2>5 DEF Between
  <1>5. NoneOlder
    BY <1>2, <1>3 DEF NoneOlder, Entries
  <1>6. \A c \in Calls : CacheOnly(c)'
    BY <1>1 DEF Forward, CacheOnly, callVars
  <1>7. \A g \in Running : Starts(task[g]) => Starts(task[g])'
    BY <1>1 DEF Starts, callVars
  <1> QED
    BY <1>1, <1>3, <1>4, <1>5, <1>6, <1>7 DEF Forward

\* When the cache answers everything, background refreshes never put an
\* older answer in the place of a newer one.
THEOREM CacheMovesForward == ASSUME AlwaysCached PROVE Spec => NeverOlder
  <1>1. Init => Forward
    BY InitForward
  <1>2. TypeOK /\ SingleFlight /\ Forward /\ [Next]_vars => Forward' /\ NoneOlder
    <2> SUFFICES ASSUME TypeOK, SingleFlight, Forward, [Next]_vars PROVE Forward' /\ NoneOlder
      OBVIOUS
    <2>1. CASE UNCHANGED vars
      <3>1. Forward'
        BY <2>1 DEF Forward, vars, callVars, Running, CacheOnly, Starts, Between
      <3>2. NoneOlder
        BY <2>1 DEF TypeOK, NoneOlder, Forward, vars, Entries
      <3> QED
        BY <3>1, <3>2
    <2> QED
      BY <2>1, CallForward, RefreshForward, WorldForward DEF Next
  <1>3. NoneOlder => \A d \in Domains : cache[d] # NoEntry /\ cache'[d] # NoEntry
                                            => cache[d].ver <= cache'[d].ver
    BY DEF NoneOlder
  <1> QED
    BY <1>1, <1>2, <1>3, TypeCorrect, OneFlight, PTL DEF Spec, NeverOlder

-----------------------------------------------------------------------------

\* What a position adds to a count.
One(b) == IF b THEN 1 ELSE 0

\* How often s is among the first n of names.
UpTo(s, names, n) == Cardinality({i \in 1 .. n : names[i] = s})

\* One position more to look at.
LEMMA OnePositionMore ==
    ASSUME NEW n \in Nat, NEW A \in SUBSET (1 .. n), NEW B,
           B = A \/ B = A \cup {n + 1}
    PROVE  /\ Cardinality(A) \in Nat
           /\ Cardinality(B) = Cardinality(A) + One(n + 1 \in B)
  <1>1. IsFiniteSet(1 .. n)
    BY FS_Interval
  <1>2. IsFiniteSet(A)
    BY <1>1, FS_Subset
  <1>3. n + 1 \notin A
    OBVIOUS
  <1>4. Cardinality(A) \in Nat
    BY <1>2, FS_CardinalityType
  <1>5. Cardinality(A \cup {n + 1}) = Cardinality(A) + 1
    BY <1>2, <1>3, FS_AddElement
  <1> QED
    BY <1>3, <1>4, <1>5 DEF One

LEMMA UpToNext ==
    ASSUME NEW s, NEW names, NEW n \in Nat
    PROVE  /\ UpTo(s, names, n) \in Nat
           /\ UpTo(s, names, n + 1) = UpTo(s, names, n) + One(names[n + 1] = s)
  <1> DEFINE A == {i \in 1 .. n : names[i] = s}
             B == {i \in 1 .. n + 1 : names[i] = s}
  <1>1. A \in SUBSET (1 .. n) /\ (B = IF names[n + 1] = s THEN A \cup {n + 1} ELSE A)
    OBVIOUS
  <1>2. n + 1 \in B <=> names[n + 1] = s
    OBVIOUS
  <1> HIDE DEF A, B
  <1>3. Cardinality(A) \in Nat /\ Cardinality(B) = Cardinality(A) + One(n + 1 \in B)
    BY <1>1, OnePositionMore
  <1> QED
    BY <1>2, <1>3 DEF UpTo, One, A, B

LEMMA UpToNone ==
    ASSUME NEW s, NEW names
    PROVE  UpTo(s, names, 0) = 0
  <1>1. {i \in 1 .. 0 : names[i] = s} = {}
    OBVIOUS
  <1> QED
    BY <1>1, FS_EmptySet DEF UpTo

LEMMA TimesUpTo ==
    ASSUME NEW S, NEW s, NEW names \in Seq(S)
    PROVE  Times(s, names) = UpTo(s, names, Len(names))
  <1>1. DOMAIN names = 1 .. Len(names)
    OBVIOUS
  <1> QED
    BY <1>1 DEF Times, UpTo

LEMMA TimesAppend ==
    ASSUME NEW S, NEW s, NEW names \in Seq(S), NEW x \in S
    PROVE  /\ Times(s, names) \in Nat
           /\ Times(s, Append(names, x)) = Times(s, names) + One(x = s)
  <1> DEFINE n == Len(names)
             more == Append(names, x)
  <1>1. n \in Nat /\ more \in Seq(S) /\ Len(more) = n + 1
    OBVIOUS
  <1>2. more[n + 1] = x /\ \A i \in 1 .. n : more[i] = names[i]
    OBVIOUS
  <1> HIDE DEF more
  <1>3. Times(s, names) = UpTo(s, names, n) /\ Times(s, more) = UpTo(s, more, n + 1)
    BY <1>1, TimesUpTo
  <1> HIDE DEF n
  <1>4. {i \in 1 .. n : more[i] = s} = {i \in 1 .. n : names[i] = s}
    BY <1>2
  <1>5. UpTo(s, more, n) = UpTo(s, names, n)
    BY <1>4 DEF UpTo
  <1>6. /\ UpTo(s, more, n) \in Nat
        /\ UpTo(s, more, n + 1) = UpTo(s, more, n) + One(more[n + 1] = s)
    <2>1. n \in Nat
      BY <1>1
    <2> QED
      BY <2>1, UpToNext
  <1> QED
    BY <1>2, <1>3, <1>5, <1>6 DEF more

LEMMA ReturnedAppend ==
    ASSUME NEW S, NEW s, NEW given \in Seq(S), NEW r \in S
    PROVE  /\ Returned(s, given) \in Nat
           /\ Returned(s, Append(given, r)) = Returned(s, given) + One(r.host = s)
  <1> DEFINE n == Len(given)
             more == Append(given, r)
             A == {i \in 1 .. n : given[i].host = s}
             B == {i \in 1 .. n + 1 : more[i].host = s}
  <1>1. n \in Nat /\ more \in Seq(S) /\ Len(more) = n + 1
    OBVIOUS
  <1>2. more[n + 1] = r /\ \A i \in 1 .. n : more[i] = given[i]
    OBVIOUS
  <1>3. DOMAIN given = 1 .. n /\ DOMAIN more = 1 .. n + 1
    BY <1>1
  <1> HIDE DEF more, n
  <1>4. A \in SUBSET (1 .. n) /\ (B = IF r.host = s THEN A \cup {n + 1} ELSE A)
    BY <1>1, <1>2
  <1>5. n + 1 \in B <=> r.host = s
    BY <1>1, <1>2
  <1>6. Returned(s, given) = Cardinality(A) /\ Returned(s, more) = Cardinality(B)
    BY <1>3 DEF Returned
  <1> HIDE DEF A, B
  <1>7. Cardinality(A) \in Nat /\ Cardinality(B) = Cardinality(A) + One(n + 1 \in B)
    BY <1>1, <1>4, OnePositionMore
  <1> QED
    BY <1>5, <1>6, <1>7 DEF One, more

LEMMA CountsNat ==
    ASSUME NEW S, NEW s, NEW given \in Seq(S)
    PROVE  Times(s, given) \in Nat /\ Returned(s, given) \in Nat
  <1>1. DOMAIN given = 1 .. Len(given) /\ Len(given) \in Int
    OBVIOUS
  <1>2. ASSUME NEW P \in SUBSET DOMAIN given PROVE Cardinality(P) \in Nat
    <2>1. IsFiniteSet(DOMAIN given)
      BY <1>1, FS_Interval
    <2>2. IsFiniteSet(P)
      BY <2>1, FS_Subset
    <2> QED
      BY <2>2, FS_CardinalityType
  <1>3. /\ {i \in DOMAIN given : given[i] = s} \in SUBSET DOMAIN given
        /\ {i \in DOMAIN given : given[i].host = s} \in SUBSET DOMAIN given
    OBVIOUS
  <1> QED
    BY <1>2, <1>3 DEF Times, Returned

\* What is returned, missing and seen of s add up, at every point of a call.
Counted(c, s) ==
    /\ pc[c] \in {"look", "refresh"} =>
           Returned(s, results[c]) + Times(s, todo[c]) = UpTo(s, req[c].names, at[c])
    /\ pc[c] = "network" =>
           Returned(s, results[c]) + Times(s, todo[c]) = Times(s, req[c].names)
    /\ pc[c] = "store" =>
           Returned(s, results[c]) + Times(s, todo[c]) =
               Times(s, req[c].names)
               + IF s \in DOMAIN reply[c] THEN UpTo(s, todo[c], at[c]) ELSE 0
    /\ pc[c] = "done" =>
           Returned(s, results[c]) =
               Times(s, req[c].names)
               - IF s \in DOMAIN reply[c] THEN 0 ELSE Times(s, todo[c])

AllCounted == \A c \in Calls, s \in Spellings : Counted(c, s)

LEMMA CallCounts ==
    ASSUME TypeOK, NEW c \in Calls, NEW q \in Requests, Call(c, q),
           NEW s \in Spellings
    PROVE  Counted(c, s)'
  <1>1. /\ pc'[c] \in {"look", "failed"} /\ at'[c] = 0
        /\ todo'[c] = <<>> /\ results'[c] = <<>> /\ req'[c] = q
    BY DEF Call, TypeOK
  <1>2. Times(s, <<>>) = 0 /\ Returned(s, <<>>) = 0
    <2>1. {i \in DOMAIN <<>> : <<>>[i] = s} = {} /\ {i \in DOMAIN <<>> : <<>>[i].host = s} = {}
      OBVIOUS
    <2> QED
      BY <2>1, FS_EmptySet DEF Times, Returned
  <1> QED
    BY <1>1, <1>2, UpToNone DEF Counted

LEMMA LookCounts ==
    ASSUME TypeOK, NEW c \in Calls, Look(c), NEW s \in Spellings, Counted(c, s)
    PROVE  Counted(c, s)'
  <1> DEFINE names == req[c].names
             n == at[c]
             x == names[n + 1]
  <1>1. names \in Seq(Spellings) /\ n \in Nat /\ n + 1 \in 1 .. Len(names)
    BY DEF TypeOK, Look, Queries
  <1>2. x \in Spellings /\ Norm[x] \in Domains
    BY <1>1, ResolverAssumption
  <1>3. /\ UNCHANGED req /\ at'[c] = n + 1
        /\ pc[c] = "look" /\ pc'[c] \in {"look", "refresh"}
    BY DEF Look, TypeOK
  <1>4. todo[c] \in Seq(Spellings) /\ results[c] \in Seq(Results)
    BY DEF TypeOK
  <1>5. UpTo(s, names, n + 1) = UpTo(s, names, n) + One(x = s) /\ UpTo(s, names, n) \in Nat
    <2> HIDE DEF names, n
    <2> QED
      BY <1>1, UpToNext
  <1>6. Returned(s, results[c]) \in Nat /\ Times(s, todo[c]) \in Nat
    BY <1>4, CountsNat
  <1>7. Returned(s, results'[c]) + Times(s, todo'[c])
            = Returned(s, results[c]) + Times(s, todo[c]) + One(x = s)
    <2>1. CASE Hit(Norm[x])
      <3> DEFINE r == Result(x, cache[Norm[x]].fams)
      <3>1. r \in Results /\ r.host = x
        BY <1>2, <2>1 DEF TypeOK, Hit, Entries, Result, Results
      <3>2. todo'[c] = todo[c] /\ results'[c] = Append(results[c], r)
        BY <2>1 DEF Look, TypeOK
      <3> HIDE DEF r, x
      <3>3. Returned(s, Append(results[c], r)) = Returned(s, results[c]) + One(r.host = s)
        BY <1>4, <3>1, ReturnedAppend
      <3> QED
        BY <1>6, <3>1, <3>2, <3>3 DEF One
    <2>2. CASE ~Hit(Norm[x])
      <3>1. results'[c] = results[c] /\ todo'[c] = Append(todo[c], x)
        BY <2>2 DEF Look, TypeOK
      <3> HIDE DEF x
      <3>2. Times(s, Append(todo[c], x)) = Times(s, todo[c]) + One(x = s)
        BY <1>2, <1>4, TimesAppend
      <3> QED
        BY <1>6, <3>1, <3>2 DEF One
    <2> QED
      BY <2>1, <2>2
  <1> HIDE DEF x
  <1> QED
    BY <1>3, <1>5, <1>6, <1>7 DEF Counted, One

LEMMA StoreCounts ==
    ASSUME TypeOK, NEW c \in Calls, Store(c), NEW s \in Spellings, Counted(c, s)
    PROVE  Counted(c, s)'
  <1> DEFINE n == at[c]
             x == todo[c][n + 1]
  <1>1. todo[c] \in Seq(Spellings) /\ n \in Nat /\ n + 1 \in 1 .. Len(todo[c])
    BY DEF TypeOK, Store
  <1>2. x \in Spellings /\ results[c] \in Seq(Results)
    BY <1>1 DEF TypeOK
  <1>3. /\ UNCHANGED <<req, todo, reply, pc>> /\ at'[c] = n + 1 /\ pc[c] = "store"
    BY DEF Store, TypeOK
  <1>4. UpTo(s, todo[c], n + 1) = UpTo(s, todo[c], n) + One(x = s) /\ UpTo(s, todo[c], n) \in Nat
    BY <1>1, UpToNext
  <1>5. Returned(s, results[c]) \in Nat /\ Times(s, todo[c]) \in Nat /\ Times(s, req[c].names) \in Nat
    <2>1. req[c].names \in Seq(Spellings)
      BY DEF TypeOK, Queries
    <2> QED
      BY <1>1, <1>2, <2>1, CountsNat
  <1>6. CASE x \in DOMAIN reply[c]
    <2> DEFINE r == Result(x, reply[c][x].fams)
    <2>1. PICK hosts \in SUBSET Spellings : reply[c] \in [hosts -> Answers]
      BY DEF TypeOK, Replies
    <2>2. r \in Results /\ r.host = x
      BY <1>2, <1>6, <2>1 DEF Result, Results, Answers
    <2>3. results'[c] = Append(results[c], r)
      BY <1>6 DEF Store, TypeOK
    <2> HIDE DEF r, x
    <2>4. Returned(s, results'[c]) = Returned(s, results[c]) + One(x = s)
      BY <1>2, <2>2, <2>3, ReturnedAppend
    <2> QED
      BY <1>3, <1>4, <1>5, <1>6, <2>4 DEF Counted, One
  <1>7. CASE x \notin DOMAIN reply[c]
    <2>1. results'[c] = results[c]
      BY <1>7 DEF Store, TypeOK
    <2> HIDE DEF x
    <2> QED
      BY <1>3, <1>4, <1>5, <1>7, <2>1 DEF Counted, One
  <1> QED
    BY <1>6, <1>7

LEMMA RestCounts ==
    ASSUME TypeOK, NEW c \in Calls, NEW s \in Spellings, Counted(c, s),
           TryAsyncUpdate(c) \/ LookedAtAll(c) \/ NoAnswer(c) \/ Return(c)
           \/ \E hosts \in SUBSET Names(todo[c]) : \E split \in SUBSET hosts : Answer(c, hosts, split)
    PROVE  Counted(c, s)'
  <1>1. req[c].names \in Seq(Spellings) /\ todo[c] \in Seq(Spellings) /\ results[c] \in Seq(Results)
    BY DEF TypeOK, Queries
  <1>2. /\ Times(s, req[c].names) = UpTo(s, req[c].names, Len(req[c].names))
        /\ Times(s, todo[c]) = UpTo(s, todo[c], Len(todo[c]))
    BY <1>1, TimesUpTo
  <1>3. /\ Times(s, req[c].names) \in Nat /\ Times(s, todo[c]) \in Nat
        /\ Returned(s, results[c]) \in Nat
    BY <1>1, CountsNat
  <1>4. CASE TryAsyncUpdate(c)
    BY <1>4 DEF TryAsyncUpdate, TypeOK, Counted
  <1>5. CASE LookedAtAll(c)
    <2>1. /\ pc[c] = "look" /\ at[c] = Len(req[c].names)
          /\ pc'[c] = IF todo[c] = <<>> THEN "done" ELSE "network"
          /\ UNCHANGED <<req, todo, reply, results>>
      BY <1>5 DEF LookedAtAll, TypeOK
    <2>2. todo[c] = <<>> => Times(s, todo[c]) = 0
      BY <1>2, UpToNone
    <2> QED
      BY <1>2, <1>3, <2>1, <2>2 DEF Counted
  <1>6. CASE NoAnswer(c)
    BY <1>6 DEF NoAnswer, TypeOK, Counted
  <1>7. CASE Return(c)
    <2>1. /\ pc[c] = "store" /\ at[c] = Len(todo[c]) /\ pc'[c] = "done"
          /\ UNCHANGED <<req, todo, reply, results>>
      BY <1>7 DEF Return, TypeOK
    <2> QED
      BY <1>2, <1>3, <2>1 DEF Counted
  <1>8. ASSUME NEW hosts \in SUBSET Names(todo[c]), NEW split \in SUBSET hosts,
               Answer(c, hosts, split)
        PROVE  Counted(c, s)'
    <2>1. /\ pc[c] = "network" /\ at[c] = 0 /\ pc'[c] = "store"
          /\ UNCHANGED <<req, at, todo, results>>
      BY <1>8 DEF Answer, TypeOK
    <2>2. UpTo(s, todo[c], 0) = 0
      BY UpToNone
    <2> QED
      BY <1>3, <2>1, <2>2 DEF Counted
  <1> QED
    BY <1>4, <1>5, <1>6, <1>7, <1>8

\* A step touches the answer of one call only.
LEMMA OthersCount ==
    ASSUME NEW b \in Calls, NEW s \in Spellings, Counted(b, s),
           pc'[b] = pc[b], req'[b] = req[b], at'[b] = at[b], todo'[b] = todo[b],
           reply'[b] = reply[b], results'[b] = results[b]
    PROVE  Counted(b, s)'
  BY DEF Counted

LEMMA NextCounts == TypeOK /\ AllCounted /\ [Next]_vars => AllCounted'
  <1> SUFFICES ASSUME TypeOK, AllCounted, [Next]_vars, NEW b \in Calls, NEW s \in Spellings
               PROVE  Counted(b, s)'
    BY DEF AllCounted
  <1>1. Counted(b, s)
    BY DEF AllCounted
  <1>2. CASE UNCHANGED callVars
    BY <1>1, <1>2, OthersCount DEF callVars
  <1>3. ASSUME NEW c \in Calls, c # b,
               CallStep(c) \/ \E q \in Requests : Call(c, q)
        PROVE  Counted(b, s)'
    <2>1. /\ pc'[b] = pc[b] /\ req'[b] = req[b] /\ at'[b] = at[b] /\ todo'[b] = todo[b]
          /\ reply'[b] = reply[b] /\ results'[b] = results[b]
      BY <1>3 DEF TypeOK, CallStep, Call, Look, TryAsyncUpdate, LookedAtAll, NoAnswer, Answer,
                  Store, Return
    <2> QED
      BY <1>1, <2>1, OthersCount, SMTT(30)
  <1>4. CASE CallStep(b) \/ \E q \in Requests : Call(b, q)
    BY <1>1, <1>4, CallCounts, LookCounts, StoreCounts, RestCounts DEF CallStep
  <1> QED
    BY <1>2, <1>3, <1>4
       DEF Next, RefreshStep, ReadLoopVar, RefreshAnswered, RefreshFails, RefreshStores, Release,
           Expire, ZoneChanges, vars

\* A call that succeeds returns each domain as often as it was asked for, but
\* for what the server left out (ResolveBatch).
THEOREM AllReturned == Spec => []EveryDomainReturned
  <1>1. Init => AllCounted
    BY DEF Init, AllCounted, Counted
  <1>2. AllCounted => EveryDomainReturned
    BY DEF AllCounted, Counted, EveryDomainReturned
  <1> QED
    BY <1>1, <1>2, NextCounts, TypeCorrect, PTL DEF Spec

-----------------------------------------------------------------------------

\* The setting in which no answer of another query gets in the way: all
\* requests, and the file, are about the same families.
AllAskFor(W) ==
    /\ \A q \in Requests : q.want = W /\ Queried(q) = W
    /\ Preloaded # {} => W = Families

\* What a call knows is about W.
CallAbout(c, W) ==
    /\ pc[c] # "idle" => req[c].want = W /\ Queried(req[c]) = W
    /\ \A s \in DOMAIN reply[c] : reply[c][s].fams = W
    /\ \A i \in DOMAIN results[c] : results[c][i].fams = W

CallsAbout(W) == \A c \in Calls : CallAbout(c, W)

CacheAbout(W) == \A d \in Domains : cache[d] # NoEntry => cache[d].fams = W

\* What a refresh asks for, and what it got, is W.
TasksAbout(W) ==
    \A g \in Running :
        /\ task[g].pc \in {"start", "network"} => task[g].want = W
        /\ task[g].pc = "store" => task[g].fams = W

About(W) == CallsAbout(W) /\ CacheAbout(W) /\ TasksAbout(W)

\* Split into records or not, the answer for a host is what was asked for.
LEMMA MergedAll ==
    ASSUME NEW q, NEW hosts, NEW split \in SUBSET hosts, NEW s \in hosts
    PROVE  Merged(Records(q, hosts, split), s) = Queried(q)
  <1> DEFINE records == Records(q, hosts, split)
  <1>1. ASSUME NEW f \in Merged(records, s) PROVE f \in Queried(q)
    <2>1. PICK r \in records : r.host = s /\ f \in r.fams
      BY <1>1 DEF Merged
    <2> QED
      BY <2>1 DEF Records
  <1>2. ASSUME NEW f \in Queried(q) PROVE f \in Merged(records, s)
    <2>1. CASE s \in split
      <3> DEFINE rec(t, e) == [host |-> t, fams |-> {e}]
      <3>1. {rec(t, e) : t \in split, e \in Queried(q)} \subseteq records
        BY DEF Records
      <3> HIDE DEF rec, records
      <3>2. rec(s, f) \in records
        BY <1>2, <2>1, <3>1
      <3>3. [host |-> s, fams |-> {f}] \in records
        BY <3>2 DEF rec
      <3> QED
        BY <3>3 DEF Merged
    <2>2. CASE s \notin split
      <3> DEFINE r == [host |-> s, fams |-> Queried(q)]
      <3>1. r \in records /\ r.host = s /\ f \in r.fams
        BY <1>2, <2>2 DEF Records
      <3> HIDE DEF r, records
      <3>2. r.fams \in {x.fams : x \in {y \in records : y.host = s}}
        BY <3>1
      <3>3. Merged(records, s) = UNION {x.fams : x \in {y \in records : y.host = s}}
        BY Zenon DEF Merged
      <3> QED
        BY <3>1, <3>2, <3>3
    <2> QED
      BY <2>1, <2>2
  <1> QED
    BY <1>1, <1>2

\* An element more that is about W.
LEMMA AppendAbout ==
    ASSUME NEW W, NEW S, NEW given \in Seq(S), \A i \in DOMAIN given : given[i].fams = W,
           NEW r \in S, r.fams = W
    PROVE  \A i \in DOMAIN Append(given, r) : Append(given, r)[i].fams = W
  <1> DEFINE more == Append(given, r)
             n == Len(given)
  <1>1. n \in Nat /\ DOMAIN given = 1 .. n /\ DOMAIN more = 1 .. n + 1
    OBVIOUS
  <1>2. more[n + 1] = r /\ \A i \in 1 .. n : more[i] = given[i]
    OBVIOUS
  <1> HIDE DEF more, n
  <1>3. \A i \in DOMAIN more : more[i].fams = W
    BY <1>1, <1>2
  <1> QED
    BY <1>3 DEF more

LEMMA LookAbout ==
    ASSUME NEW W, AllAskFor(W), TypeOK, About(W), NEW c \in Calls, Look(c)
    PROVE  CallAbout(c, W)'
  <1> DEFINE s == req[c].names[at[c] + 1]
             r == Result(s, cache[Norm[s]].fams)
  <1>1. req[c].names \in Seq(Spellings) /\ at[c] \in Nat /\ at[c] + 1 \in 1 .. Len(req[c].names)
    BY DEF TypeOK, Look, Queries
  <1>2. s \in Spellings /\ Norm[s] \in Domains
    BY <1>1, ResolverAssumption
  <1>3. CallAbout(c, W) /\ results[c] \in Seq(Results)
    BY DEF About, CallsAbout, TypeOK
  <1>4. pc[c] = "look" /\ UNCHANGED <<req, reply>>
    BY DEF Look
  <1>5. CASE Hit(Norm[s])
    <2>1. r \in Results /\ r.fams = W
      BY <1>2, <1>5 DEF TypeOK, Hit, Entries, Result, Results, About, CacheAbout
    <2>2. results'[c] = Append(results[c], r)
      BY <1>5 DEF Look, TypeOK
    <2> HIDE DEF r
    <2>3. \A i \in DOMAIN results'[c] : results'[c][i].fams = W
      BY <1>3, <2>1, <2>2, AppendAbout DEF CallAbout
    <2> QED
      BY <1>3, <1>4, <2>3, SMTT(30) DEF CallAbout, Queried
  <1>6. CASE ~Hit(Norm[s])
    <2>1. results'[c] = results[c]
      BY <1>6 DEF Look
    <2> QED
      BY <1>3, <1>4, <2>1 DEF CallAbout, Queried
  <1> QED
    BY <1>5, <1>6

LEMMA StoreAbout ==
    ASSUME NEW W, AllAskFor(W), TypeOK, About(W), NEW c \in Calls, Store(c)
    PROVE  CallAbout(c, W)' /\ CacheAbout(W)'
  <1> DEFINE s == todo[c][at[c] + 1]
             r == Result(s, reply[c][s].fams)
  <1>1. at[c] \in Nat /\ at[c] + 1 \in 1 .. Len(todo[c]) /\ s \in Spellings
    BY DEF TypeOK, Store
  <1>2. Norm[s] \in Domains
    BY <1>1, ResolverAssumption
  <1>3. CallAbout(c, W) /\ CacheAbout(W) /\ results[c] \in Seq(Results)
    BY DEF About, CallsAbout, TypeOK
  <1>4. pc[c] = "store" /\ pc' = pc /\ UNCHANGED <<req, reply>>
    BY DEF Store
  <1>5. CASE s \in DOMAIN reply[c]
    <2>1. reply[c][s].fams = W
      BY <1>3, <1>5 DEF CallAbout
    <2>2. r \in Results /\ r.fams = W
      <3>1. PICK hosts \in SUBSET Spellings : reply[c] \in [hosts -> Answers]
        BY DEF TypeOK, Replies
      <3> QED
        BY <1>1, <1>5, <2>1, <3>1 DEF Result, Results, Answers
    <2>3. results'[c] = Append(results[c], r)
      BY <1>5 DEF Store, TypeOK
    <2>4. CacheAbout(W)'
      <3>1. /\ cache \in [Domains -> Entries \cup {NoEntry}]
            /\ cache' = [cache EXCEPT ![Norm[s]] = Entry(reply[c][s])]
        BY <1>5 DEF Store, TypeOK
      <3>2. Entry(reply[c][s]).fams = W
        BY <2>1 DEF Entry
      <3> HIDE DEF s
      <3> QED
        BY <1>2, <1>3, <3>1, <3>2 DEF CacheAbout
    <2> HIDE DEF r
    <2>5. \A i \in DOMAIN results'[c] : results'[c][i].fams = W
      BY <1>3, <2>2, <2>3, AppendAbout DEF CallAbout
    <2> QED
      BY <1>3, <1>4, <2>4, <2>5 DEF CallAbout, Queried
  <1>6. CASE s \notin DOMAIN reply[c]
    <2>1. UNCHANGED <<cache, results>>
      BY <1>6 DEF Store
    <2> QED
      BY <1>3, <1>4, <2>1 DEF CallAbout, CacheAbout, Queried
  <1> QED
    BY <1>5, <1>6

LEMMA NetworkAbout ==
    ASSUME NEW W, AllAskFor(W), TypeOK, About(W), NEW c \in Calls,
           LookedAtAll(c) \/ NoAnswer(c) \/ Return(c) \/ TryAsyncUpdate(c)
           \/ \E hosts \in SUBSET Names(todo[c]) : \E split \in SUBSET hosts : Answer(c, hosts, split)
    PROVE  CallAbout(c, W)'
  <1>1. CallAbout(c, W)
    BY DEF About, CallsAbout
  <1>2. pc[c] # "idle" /\ UNCHANGED req
    BY DEF LookedAtAll, NoAnswer, Return, TryAsyncUpdate, Answer
  <1>3. CASE LookedAtAll(c) \/ Return(c) \/ TryAsyncUpdate(c)
    BY <1>1, <1>2, <1>3 DEF LookedAtAll, Return, TryAsyncUpdate, CallAbout, Queried
  <1>4. CASE NoAnswer(c)
    BY <1>1, <1>2, <1>4 DEF NoAnswer, TypeOK, CallAbout, Queried
  <1>5. ASSUME NEW hosts \in SUBSET Names(todo[c]), NEW split \in SUBSET hosts,
               Answer(c, hosts, split)
        PROVE  CallAbout(c, W)'
    <2>1. reply'[c] = [s \in hosts |-> [ver |-> zone[Norm[s]],
                                        fams |-> Merged(Records(req[c], hosts, split), s)]]
      BY <1>5 DEF Answer, TypeOK
    <2>2. \A s \in hosts : Merged(Records(req[c], hosts, split), s) = W
      BY <1>1, <1>2, MergedAll DEF CallAbout
    <2>3. \A s \in DOMAIN reply'[c] : reply'[c][s].fams = W
      BY <2>1, <2>2
    <2> QED
      BY <1>1, <1>2, <1>5, <2>3 DEF Answer, CallAbout, Queried
  <1> QED
    BY <1>3, <1>4, <1>5

LEMMA RefreshAbout ==
    ASSUME NEW W, TypeOK, About(W), NEW g \in Refreshers, RefreshStep(g)
    PROVE  About(W)'
  <1>1. UNCHANGED callVars
    BY DEF RefreshStep, ReadLoopVar, RefreshAnswered, RefreshFails, RefreshStores, Release
  <1>2. CallsAbout(W)'
    BY <1>1 DEF About, CallsAbout, CallAbout, callVars, Queried
  <1>3. g \in Running /\ \A h \in Refreshers \ {g} : task'[h] = task[h]
    BY DEF RefreshStep, ReadLoopVar, RefreshAnswered, RefreshFails, RefreshStores, Release,
           Released, TypeOK
  <1>4. /\ task'[g].pc \in {"start", "network"} => task'[g].want = W
        /\ task'[g].pc = "store" => task'[g].fams = W
    BY <1>3 DEF RefreshStep, ReadLoopVar, RefreshAnswered, RefreshFails, RefreshStores, Release,
                Released, TypeOK, About, TasksAbout, Running, Idle
  <1>5. TasksAbout(W)'
    BY <1>3, <1>4 DEF About, TasksAbout, Running
  <1>6. CacheAbout(W)'
    <2>1. CASE RefreshStores(g)
      <3>1. task[g].fams = W /\ cache' = [cache EXCEPT ![Norm[task[g].name]] = Entry(task[g])]
        BY <1>3, <2>1 DEF RefreshStores, About, TasksAbout
      <3>2. Entry(task[g]).fams = W
        BY <3>1 DEF Entry
      <3> QED
        BY <3>1, <3>2 DEF About, CacheAbout, TypeOK
    <2>2. CASE UNCHANGED cache
      BY <2>2 DEF About, CacheAbout
    <2> QED
      BY <2>1, <2>2 DEF RefreshStep, ReadLoopVar, RefreshAnswered, RefreshFails, Release
  <1> QED
    BY <1>2, <1>5, <1>6 DEF About

LEMMA CallKeepsAbout ==
    ASSUME NEW W, AllAskFor(W), TypeOK, About(W), NEW c \in Calls,
           CallStep(c) \/ \E q \in Requests : Call(c, q)
    PROVE  About(W)'
  <1>1. CallAbout(c, W)'
    <2>1. ASSUME NEW q \in Requests, Call(c, q) PROVE CallAbout(c, W)'
      <3>1. /\ req'[c] = q /\ q.want = W /\ Queried(q) = W
            /\ reply'[c] = NoReply /\ results'[c] = <<>>
        BY <2>1 DEF Call, TypeOK, AllAskFor
      <3> QED
        BY <3>1 DEF CallAbout, NoReply, Queried
    <2> QED
      BY <2>1, LookAbout, StoreAbout, NetworkAbout DEF CallStep
  <1>2. ASSUME NEW b \in Calls \ {c} PROVE CallAbout(b, W)'
    <2>1. /\ pc'[b] = pc[b] /\ req'[b] = req[b]
          /\ reply'[b] = reply[b] /\ results'[b] = results[b]
      BY <1>2 DEF TypeOK, CallStep, Call, Look, TryAsyncUpdate, LookedAtAll, NoAnswer, Answer,
                  Store, Return
    <2> QED
      BY <2>1, SMTT(30) DEF About, CallsAbout, CallAbout, Queried
  <1>3. CallsAbout(W)'
    BY <1>1, <1>2 DEF CallsAbout
  <1>4. CacheAbout(W)'
    <2>1. CASE UNCHANGED cache
      BY <2>1, SMTT(30) DEF About, CacheAbout
    <2> QED
      BY <2>1, StoreAbout
         DEF CallStep, Call, Look, TryAsyncUpdate, LookedAtAll, NoAnswer, Answer, Return
  <1>5. TasksAbout(W)'
    <2>1. CASE UNCHANGED task
      BY <2>1 DEF About, TasksAbout, Running
    <2>2. CASE TryAsyncUpdate(c)
      <3>1. req[c].want = W
        BY <2>2 DEF TryAsyncUpdate, About, CallsAbout, CallAbout
      <3>2. ASSUME NEW g \in Running', task'[g] # task[g]
            PROVE  task'[g].pc = "start" /\ task'[g].want = W
        BY <2>2, <3>1, <3>2 DEF TryAsyncUpdate, TypeOK, Running
      <3> QED
        BY <3>2 DEF About, TasksAbout, Running
    <2> QED
      BY <2>1, <2>2 DEF CallStep, Call, Look, LookedAtAll, NoAnswer, Answer, Store, Return
  <1> QED
    BY <1>3, <1>4, <1>5 DEF About

LEMMA WorldKeepsAbout ==
    ASSUME NEW W, TypeOK, About(W), NEW d \in Domains, Expire(d) \/ ZoneChanges(d)
    PROVE  About(W)'
  <1>1. UNCHANGED <<callVars, task>>
    BY DEF Expire, ZoneChanges
  <1>2. CallsAbout(W)' /\ TasksAbout(W)'
    BY <1>1 DEF About, CallsAbout, CallAbout, TasksAbout, Running, callVars, Queried
  <1>3. CacheAbout(W)'
    BY DEF Expire, ZoneChanges, About, CacheAbout, TypeOK, Entries
  <1> QED
    BY <1>2, <1>3 DEF About

\* Where everybody asks for the same families, everybody gets them.
THEOREM FamiliesAsAsked ==
    ASSUME NEW CONSTANT W, AllAskFor(W)
    PROVE  Spec => []AskedFamilies
  <1>1. Init => About(W)
    BY DEF Init, About, CallsAbout, CallAbout, CacheAbout, TasksAbout, Running, AllAskFor, NoReply,
           Entry
  <1>2. TypeOK /\ About(W) /\ [Next]_vars => About(W)'
    <2> SUFFICES ASSUME TypeOK, About(W), [Next]_vars PROVE About(W)'
      OBVIOUS
    <2>1. CASE UNCHANGED vars
      BY <2>1 DEF About, CallsAbout, CallAbout, CacheAbout, TasksAbout, Running, vars, callVars,
                  Queried
    <2> QED
      BY <2>1, CallKeepsAbout, RefreshAbout, WorldKeepsAbout DEF Next
  <1>3. About(W) => AskedFamilies
    BY DEF About, CallsAbout, CallAbout, AskedFamilies
  <1> QED
    BY <1>1, <1>2, <1>3, TypeCorrect, PTL DEF Spec

-----------------------------------------------------------------------------
\* The refinement of ResolverContract.

\* A call keeps what it has to store while its variables stay.
LEMMA SameToStore ==
    ASSUME NEW c, pc'[c] = pc[c], at'[c] = at[c], todo'[c] = todo[c], reply'[c] = reply[c]
    PROVE  ToStore(c)' = ToStore(c)
  BY DEF ToStore

LEMMA NothingToStore ==
    ASSUME NEW c, pc[c] # "store", pc'[c] # "store"
    PROVE  ToStore(c)' = ToStore(c)
  BY DEF ToStore

\* Goroutines keep theirs while no answer of one comes in or is stored.
LEMMA SameRefreshes ==
    ASSUME \A g \in Refreshers :
               \/ task'[g] = task[g]
               \/ ~(g \in Running /\ task[g].pc = "store")
                  /\ ~(g \in Running /\ task[g].pc = "store")'
    PROVE  RefreshesToStore' = RefreshesToStore
  <1> DEFINE storing == {h \in Running : task[h].pc = "store"}
  <1>1. storing' = storing
    BY DEF Running
  <1>2. \A g \in storing : task'[g] = task[g]
    BY DEF Running
  <1> QED
    BY <1>1, <1>2 DEF RefreshesToStore

\* What a step of one call does to the answers on their way.
LEMMA PendingOfCall ==
    ASSUME NEW c \in Calls, RefreshesToStore' = RefreshesToStore,
           \A b \in Calls \ {c} : ToStore(b)' = ToStore(b)
    PROVE  /\ ToStore(c)' = ToStore(c) => Pending' = Pending
           /\ \A a : ToStore(c) = ToStore(c)' \cup {a} => Pending = Pending' \cup {a}
           /\ \A a : a \in Pending' => a \in Pending \/ a \in ToStore(c)'
           /\ ToStore(c) \subseteq ToStore(c)' => Pending \subseteq Pending'
  <1> DEFINE others == UNION {ToStore(b) : b \in Calls \ {c}}
  <1>1. others' = others
    OBVIOUS
  <1>2. Pending = RefreshesToStore \cup others \cup ToStore(c)
    BY DEF Pending
  <1>3. Pending' = RefreshesToStore' \cup others' \cup ToStore(c)'
    BY DEF Pending
  <1> HIDE DEF others
  <1> QED
    BY <1>1, <1>2, <1>3
ContractStep == [Contract!ContractNext]_(Contract!contractVars)

\* A call looks its names up: it is told what is cached, or nothing.
LEMMA LookKeepsContract ==
    ASSUME TypeOK, NEW c \in Calls, Look(c)
    PROVE  ContractStep
  <1>1. UNCHANGED <<zone, cache, task>> /\ pc[c] # "store" /\ pc'[c] # "store"
    BY DEF Look, TypeOK
  <1>2. Pending' = Pending
    <2>1. \A b \in Calls \ {c} : ToStore(b)' = ToStore(b)
      BY SameToStore DEF Look, TypeOK
    <2>2. RefreshesToStore' = RefreshesToStore /\ ToStore(c)' = ToStore(c)
      BY <1>1, SameRefreshes, NothingToStore
    <2> QED
      BY <2>1, <2>2, PendingOfCall
  <1> DEFINE s == req[c].names[at[c] + 1]
             d == Norm[s]
  <1>3. s \in Spellings
    BY DEF Look, TypeOK, Queries
  <1>4. CASE UNCHANGED results
    BY <1>1, <1>2, <1>4 DEF ContractStep, Contract!contractVars
  <1>5. CASE Hit(d) /\ results' = [results EXCEPT ![c] = Append(@, Result(s, cache[d].fams))]
    <2>1. Contract!TellCached(c, s)
      BY <1>1, <1>2, <1>5 DEF Contract!TellCached, Contract!Tell, Hit, Result
    <2> QED
      BY <1>3, <2>1 DEF ContractStep, Contract!ContractNext
  <1> QED
    BY <1>4, <1>5 DEF Look

\* A call starts or fails: what it was told is forgotten.
LEMMA ClearKeepsContract ==
    ASSUME TypeOK, NEW c \in Calls, NoAnswer(c) \/ \E q \in Requests : Call(c, q)
    PROVE  ContractStep
  <1>1. /\ UNCHANGED <<zone, cache, task>> /\ pc[c] # "store" /\ pc'[c] # "store"
        /\ results' = [results EXCEPT ![c] = <<>>]
    BY DEF NoAnswer, Call, TypeOK
  <1>2. Pending' = Pending
    <2>1. \A b \in Calls \ {c} : ToStore(b)' = ToStore(b)
      BY SameToStore DEF NoAnswer, Call, TypeOK
    <2>2. RefreshesToStore' = RefreshesToStore /\ ToStore(c)' = ToStore(c)
      BY <1>1, SameRefreshes, NothingToStore
    <2> QED
      BY <2>1, <2>2, PendingOfCall
  <1>3. Contract!Clear(c)
    BY <1>1, <1>2 DEF Contract!Clear
  <1> QED
    BY <1>3 DEF ContractStep, Contract!ContractNext

\* Starting a refresh and the ends of the loops tell and cache nothing.
LEMMA MoveKeepsContract ==
    ASSUME TypeOK, NEW c \in Calls, TryAsyncUpdate(c) \/ LookedAtAll(c) \/ Return(c)
    PROVE  ContractStep
  <1>1. /\ UNCHANGED <<zone, cache, results, todo, reply>>
        /\ \A b \in Calls \ {c} : pc'[b] = pc[b] /\ at'[b] = at[b]
    BY DEF TryAsyncUpdate, LookedAtAll, Return, TypeOK
  <1>2. RefreshesToStore' = RefreshesToStore
    <2>1. CASE UNCHANGED task
      BY <2>1, SameRefreshes
    <2>2. ASSUME NEW g \in Refreshers \ Running, NEW t, t.pc = "start",
                 task' = [task EXCEPT ![g] = t]
          PROVE  RefreshesToStore' = RefreshesToStore
      BY <2>2, SameRefreshes DEF TypeOK
    <2> QED
      BY <2>1, <2>2 DEF TryAsyncUpdate, LookedAtAll, Return
  <1>3. ToStore(c)' = ToStore(c)
    <2>1. CASE TryAsyncUpdate(c) \/ LookedAtAll(c)
      BY <2>1, NothingToStore DEF TryAsyncUpdate, LookedAtAll, TypeOK
    <2>2. CASE Return(c)
      <3>1. at[c] = Len(todo[c]) /\ todo[c] \in Seq(Spellings) /\ pc'[c] = "done"
        BY <2>2 DEF Return, TypeOK
      <3>2. at[c] + 1 .. Len(todo[c]) = {}
        BY <3>1
      <3> QED
        BY <3>1, <3>2 DEF ToStore
    <2> QED
      BY <2>1, <2>2
  <1>4. Pending' = Pending
    BY <1>1, <1>2, <1>3, SameToStore, PendingOfCall
  <1> QED
    BY <1>1, <1>4 DEF ContractStep, Contract!contractVars

\* What the servers answer now is of the version they publish now.
LEMMA AnswerKeepsContract ==
    ASSUME TypeOK, TypeOK', NEW c \in Calls, NEW hosts, NEW split, Answer(c, hosts, split)
    PROVE  ContractStep
  <1>1. /\ UNCHANGED <<zone, cache, results, at, todo, task>>
        /\ pc[c] = "network" /\ pc'[c] = "store"
        /\ \A b \in Calls \ {c} : pc'[b] = pc[b] /\ reply'[b] = reply[b]
        /\ DOMAIN reply'[c] = hosts
        /\ \A s \in hosts : reply'[c][s].ver = zone[Norm[s]]
    BY DEF Answer, TypeOK
  <1>2. ToStore(c) = {}
    BY <1>1 DEF ToStore
  <1>3. ASSUME NEW a \in ToStore(c)' PROVE a \in Contract!Answered /\ a.ver = zone[a.dom]
    <2>1. PICK i \in 1 .. Len(todo[c]) :
              /\ todo[c][i] \in hosts
              /\ a = AnswerFor(todo[c][i], reply'[c][todo[c][i]])
      <3>1. PICK i \in at[c] + 1 .. Len(todo[c]) :
                /\ todo[c][i] \in hosts
                /\ a = AnswerFor(todo[c][i], reply'[c][todo[c][i]])
        BY <1>1, <1>3 DEF ToStore, AnswerFor
      <3>2. i \in 1 .. Len(todo[c])
        BY DEF TypeOK
      <3> QED
        BY <3>1, <3>2
    <2> DEFINE s == todo[c][i]
    <2>2. s \in Spellings /\ Norm[s] \in Domains
      BY ResolverAssumption DEF TypeOK
    <2>3. reply'[c][s] \in Answers
      <3>1. PICK S \in SUBSET Spellings : reply'[c] \in [S -> Answers]
        BY DEF TypeOK, Replies
      <3> QED
        BY <1>1, <2>1, <3>1
    <2> QED
      BY <1>1, <2>1, <2>2, <2>3 DEF AnswerFor, Answers, Contract!Answered
  <1>4. RefreshesToStore' = RefreshesToStore
    BY <1>1, SameRefreshes
  <1>5. /\ Pending \subseteq Pending'
        /\ \A a \in Pending' \ Pending : a \in ToStore(c)'
    BY <1>1, <1>2, <1>4, SameToStore, PendingOfCall
  <1>6. Contract!Give
    BY <1>1, <1>3, <1>5 DEF Contract!Give
  <1> QED
    BY <1>6 DEF ContractStep, Contract!ContractNext

\* What is left to store after a round is what was left before, but for the
\* answer of the round.
LEMMA StoreRound ==
    ASSUME TypeOK, NEW c \in Calls, Store(c)
    PROVE  LET s == todo[c][at[c] + 1]
           IN  /\ s \in DOMAIN reply[c] =>
                      ToStore(c) = ToStore(c)' \cup {AnswerFor(s, reply[c][s])}
               /\ s \notin DOMAIN reply[c] => ToStore(c)' = ToStore(c)
  <1> DEFINE s == todo[c][at[c] + 1]
             left == at[c] + 1 .. Len(todo[c])
             rest == at[c] + 1 + 1 .. Len(todo[c])
             given == DOMAIN reply[c]
             A(i) == AnswerFor(todo[c][i], reply[c][todo[c][i]])
  <1>1. /\ pc[c] = "store" /\ pc' = pc /\ at'[c] = at[c] + 1 /\ todo' = todo /\ reply' = reply
        /\ at[c] \in Nat /\ at[c] < Len(todo[c]) /\ Len(todo[c]) \in Nat
    BY DEF Store, TypeOK
  <1>2. left = rest \cup {at[c] + 1}
    BY <1>1
  <1>3. ToStore(c) = {A(i) : i \in {j \in left : todo[c][j] \in given}}
    BY <1>1 DEF ToStore
  <1>4. ToStore(c)' = {A(i) : i \in {j \in rest : todo[c][j] \in given}}
    BY <1>1 DEF ToStore, AnswerFor
  <1> HIDE DEF left, rest, given
  <1>5. CASE s \in given
    <2>1. {j \in left : todo[c][j] \in given}
            = {j \in rest : todo[c][j] \in given} \cup {at[c] + 1}
      BY <1>2, <1>5
    <2>2. A(at[c] + 1) = AnswerFor(s, reply[c][s])
      OBVIOUS
    <2>3. ToStore(c) = ToStore(c)' \cup {A(at[c] + 1)}
      <3> HIDE DEF A
      <3> QED
        BY <1>3, <1>4, <2>1
    <2> QED
      BY <1>5, <2>2, <2>3 DEF given
  <1>6. CASE s \notin given
    <2>1. {j \in left : todo[c][j] \in given} = {j \in rest : todo[c][j] \in given}
      BY <1>2, <1>6
    <2>2. ToStore(c)' = ToStore(c)
      BY <1>3, <1>4, <2>1
    <2> QED
      BY <1>6, <2>2 DEF given
  <1> QED
    BY <1>5, <1>6 DEF given

LEMMA StoreKeepsContract ==
    ASSUME TypeOK, NEW c \in Calls, Store(c)
    PROVE  ContractStep
  <1> DEFINE s == todo[c][at[c] + 1]
             a == AnswerFor(s, reply[c][s])
  <1>1. UNCHANGED <<zone, pc, todo, reply, task>> /\ s \in Spellings
    BY DEF Store, TypeOK
  <1>2. RefreshesToStore' = RefreshesToStore
    BY <1>1, SameRefreshes
  <1>3. \A b \in Calls \ {c} : ToStore(b)' = ToStore(b)
    BY <1>1, SameToStore DEF Store, TypeOK
  <1>4. CASE s \notin DOMAIN reply[c]
    <2>1. Pending' = Pending
      BY <1>2, <1>3, <1>4, StoreRound, PendingOfCall
    <2> QED
      BY <1>1, <1>4, <2>1 DEF Store, ContractStep, Contract!contractVars
  <1>5. CASE s \in DOMAIN reply[c]
    <2>1. /\ cache' = [cache EXCEPT ![Norm[s]] = Entry(reply[c][s])]
          /\ results' = [results EXCEPT ![c] = Append(@, Result(s, reply[c][s].fams))]
      BY <1>5 DEF Store
    <2>2. Pending = Pending' \cup {a}
      BY <1>2, <1>3, <1>5, StoreRound, PendingOfCall
    <2>3. a.dom = Norm[s] /\ a.ver = reply[c][s].ver /\ a.fams = reply[c][s].fams
      BY DEF AnswerFor
    <2> HIDE DEF a
    <2>4. Contract!Tell(c, s, a.fams)
      BY <2>1, <2>3 DEF Contract!Tell, Result
    <2>5. a \in Pending /\ Pending' \in {Pending, Pending \ {a}}
      BY <2>2
    <2>6. Contract!Fill(a)
      <3>1. cache' = [cache EXCEPT ![a.dom] = [ver |-> a.ver, fresh |-> TRUE, fams |-> a.fams]]
        BY <2>1, <2>3 DEF Entry
      <3>2. \E b \in Calls, n \in Spellings : Norm[n] = a.dom /\ Contract!Tell(b, n, a.fams)
        BY <1>1, <2>3, <2>4
      <3> QED
        BY <1>1, <2>5, <3>1, <3>2 DEF Contract!Fill
    <2>7. Contract!ContractNext
      BY <2>5, <2>6 DEF Contract!ContractNext
    <2> QED
      BY <2>7 DEF ContractStep
  <1> QED
    BY <1>4, <1>5

LEMMA RefreshKeepsContract ==
    ASSUME TypeOK, TypeOK', NEW g \in Refreshers, RefreshStep(g)
    PROVE  ContractStep
  <1> DEFINE others == {AnswerFor(task[h].name, task[h]) :
                            h \in {k \in Running \ {g} : task[k].pc = "store"}}
             mine == AnswerFor(task[g].name, task[g])
  <1>1. UNCHANGED <<zone, results, pc, at, todo, reply>>
    BY DEF RefreshStep, ReadLoopVar, RefreshAnswered, RefreshFails, RefreshStores, Release, callVars
  <1>2. \A h \in Refreshers \ {g} : task'[h] = task[h]
    BY DEF RefreshStep, ReadLoopVar, RefreshAnswered, RefreshFails, RefreshStores, Release,
           Released, TypeOK
  <1>3. \A c \in Calls : ToStore(c)' = ToStore(c)
    BY <1>1, SameToStore
  <1>4. UNION {ToStore(c) : c \in Calls}' = UNION {ToStore(c) : c \in Calls}
    BY <1>3
  <1>5. CASE \/ \E s \in Spellings \cup {Torn} : ReadLoopVar(g, s)
             \/ RefreshFails(g) \/ Release(g)
    <2>1. UNCHANGED cache /\ task[g].pc # "store" /\ task'[g].pc # "store"
      BY <1>5 DEF ReadLoopVar, RefreshFails, Release, Released, TypeOK, Idle
    <2>2. RefreshesToStore' = RefreshesToStore
      BY <1>2, <2>1, SameRefreshes
    <2> QED
      BY <1>1, <1>4, <2>1, <2>2 DEF Pending, ContractStep, Contract!contractVars
  <1>6. others' = others
    <2>1. {k \in Running \ {g} : task[k].pc = "store"}' = {k \in Running \ {g} : task[k].pc = "store"}
      BY <1>2 DEF Running
    <2> QED
      BY <1>2, <2>1 DEF Running, AnswerFor
  <1>7. CASE RefreshAnswered(g)
    <2>1. /\ UNCHANGED cache /\ task[g].pc = "network" /\ g \in Running'
          /\ task'[g].pc = "store" /\ task'[g].name = task[g].name
          /\ task'[g].ver = zone[Norm[task[g].name]]
      BY <1>7 DEF RefreshAnswered, TypeOK, Running, Idle
    <2>2. RefreshesToStore = others
      BY <2>1 DEF RefreshesToStore
    <2>3. RefreshesToStore' = others' \cup {mine'}
      BY <2>1 DEF RefreshesToStore
    <2>4. mine' \in Contract!Answered /\ mine'.ver = zone[mine'.dom]
      <3>1. task[g].name \in Spellings /\ task[g].want \in SUBSET Families
        BY <1>7, <2>1 DEF RefreshAnswered, TypeOK, Tasks, Idle
      <3>2. zone[Norm[task[g].name]] \in Nat
        BY <3>1, ResolverAssumption DEF TypeOK
      <3>3. task'[g].fams = task[g].want
        BY <1>7 DEF RefreshAnswered, TypeOK
      <3> QED
        BY <2>1, <3>1, <3>2, <3>3, ResolverAssumption DEF AnswerFor, Contract!Answered
    <2> HIDE DEF mine, others
    <2>5. Pending' = Pending \cup {mine'}
      BY <1>4, <1>6, <2>2, <2>3 DEF Pending
    <2>6. Contract!Give
      BY <1>1, <2>1, <2>4, <2>5 DEF Contract!Give
    <2> QED
      BY <2>6 DEF ContractStep, Contract!ContractNext
  <1>8. CASE RefreshStores(g)
    <2>1. /\ g \in Running /\ task[g].pc = "store" /\ task'[g].pc # "store"
          /\ cache' = [cache EXCEPT ![Norm[task[g].name]] = Entry(task[g])]
      BY <1>8 DEF RefreshStores, TypeOK
    <2>2. RefreshesToStore = others \cup {mine}
      BY <2>1 DEF RefreshesToStore
    <2>3. RefreshesToStore' = others'
      BY <2>1 DEF RefreshesToStore
    <2>4. /\ mine.dom = Norm[task[g].name] /\ mine.ver = task[g].ver
          /\ mine.fams = task[g].fams
      BY DEF AnswerFor
    <2> HIDE DEF mine, others
    <2>5. Pending = Pending' \cup {mine}
      BY <1>4, <1>6, <2>2, <2>3 DEF Pending
    <2>6. mine \in Pending /\ Pending' \in {Pending, Pending \ {mine}}
      BY <2>5
    <2>7. Contract!Fill(mine)
      BY <1>1, <2>1, <2>4, <2>6 DEF Contract!Fill, Entry
    <2> QED
      BY <2>6, <2>7 DEF ContractStep, Contract!ContractNext
  <1> QED
    BY <1>5, <1>7, <1>8 DEF RefreshStep

LEMMA WorldKeepsContract ==
    ASSUME TypeOK, NEW d \in Domains, Expire(d) \/ ZoneChanges(d)
    PROVE  ContractStep
  <1>1. UNCHANGED <<callVars, task>>
    BY DEF Expire, ZoneChanges
  <1>2. Pending' = Pending
    <2>1. \A c \in Calls : ToStore(c)' = ToStore(c)
      BY <1>1, SameToStore DEF callVars
    <2> QED
      BY <1>1, <2>1, SameRefreshes DEF Pending
  <1>3. CASE Expire(d)
    BY <1>1, <1>2, <1>3
    DEF Expire, callVars, ContractStep, Contract!ContractNext, Contract!Age
  <1>4. CASE ZoneChanges(d)
    BY <1>1, <1>2, <1>4
    DEF ZoneChanges, callVars, ContractStep, Contract!ContractNext, Contract!Publish
  <1> QED
    BY <1>3, <1>4

\* Calls and refreshes implement the contract of a caching resolver: what is
\* cached of a domain was answered for it, whatever name the goroutine of a
\* batch has found in the loop variable, and callers are told what is cached
\* or has just been answered (resolver.go, updateCache and the merge of
\* cachedResults and networkResults).
THEOREM Refinement == Spec => ImplementsContract
  <1>1. Init => Contract!ContractInit
    <2> SUFFICES ASSUME Init PROVE Contract!ContractInit
      OBVIOUS
    <2>1. Pending = {}
      BY DEF Init, Pending, RefreshesToStore, Running, ToStore
    <2>2. ASSUME NEW d \in Domains PROVE cache[d] = NoEntry \/ cache[d].ver <= zone[d]
      BY DEF Init, Entry
    <2>3. zone \in [Domains -> Nat] /\ cache \in [Domains -> Contract!Cached \cup {NoEntry}]
      BY InitTypeOK, ResolverAssumption DEF TypeOK, Entries, Contract!Cached
    <2> QED
      BY <2>1, <2>2, <2>3 DEF Init, Contract!ContractInit
  <1>2. TypeOK /\ TypeOK' /\ [Next]_vars => ContractStep
    <2> SUFFICES ASSUME TypeOK, TypeOK', [Next]_vars PROVE ContractStep
      OBVIOUS
    <2>1. CASE UNCHANGED vars
      <3>1. UNCHANGED <<zone, cache, results, callVars, task>>
        BY <2>1 DEF vars, callVars
      <3>2. \A c \in Calls : ToStore(c)' = ToStore(c)
        BY <3>1, SameToStore DEF callVars
      <3>3. Pending' = Pending
        BY <3>1, <3>2, SameRefreshes DEF Pending
      <3> QED
        BY <3>1, <3>3 DEF ContractStep, Contract!contractVars
    <2>2. ASSUME NEW c \in Calls, CallStep(c) PROVE ContractStep
      BY <2>2, LookKeepsContract, MoveKeepsContract, ClearKeepsContract, AnswerKeepsContract,
         StoreKeepsContract DEF CallStep
    <2>3. ASSUME NEW c \in Calls, NEW q \in Requests, Call(c, q) PROVE ContractStep
      BY <2>3, ClearKeepsContract
    <2> QED
      BY <2>1, <2>2, <2>3, RefreshKeepsContract, WorldKeepsContract DEF Next
  <1> QED
    BY <1>1, <1>2, TypeCorrect, PTL DEF Spec, ImplementsContract, Contract!ContractSpec, ContractStep

\* The types of the contract's variables and what it promises: inductive.
CInv ==
    /\ zone \in [Domains -> Nat]
    /\ cache \in [Domains -> Contract!Cached \cup {NoEntry}]
    /\ Pending \subseteq Contract!Answered
    /\ Contract!NothingInvented

\* What the contract is worth: whatever keeps it never caches anything, and is
\* never about to, that the servers have not published of that very domain.
THEOREM ContractInventsNothing == ImplementsContract => []Contract!NothingInvented
  <1>1. Contract!ContractInit => CInv
    BY DEF Contract!ContractInit, CInv, Contract!NothingInvented
  <1>2. CInv /\ [Contract!ContractNext]_(Contract!contractVars) => CInv'
    <2> SUFFICES ASSUME CInv, [Contract!ContractNext]_(Contract!contractVars) PROVE CInv'
      OBVIOUS
    <2> HIDE DEF Pending
    <2>1. \A a \in Pending : a.dom \in Domains /\ a.ver \in Nat /\ a.ver <= zone[a.dom]
      BY DEF CInv, Contract!NothingInvented, Contract!Answered
    <2>2. ASSUME NEW d \in Domains, Contract!Publish(d) PROVE CInv'
      <3>1. \A e \in Domains : zone[e] \in Nat /\ zone'[e] \in Nat /\ zone[e] <= zone'[e]
        BY <2>2 DEF Contract!Publish, CInv
      <3>2. zone' \in [Domains -> Nat] /\ cache' = cache /\ Pending' = Pending
        BY <2>2 DEF Contract!Publish, CInv
      <3>3. \A e \in Domains : cache[e] = NoEntry \/ (cache[e].ver \in Nat /\ cache[e].ver <= zone[e])
        BY DEF CInv, Contract!NothingInvented, Contract!Cached
      <3> QED
        BY <2>1, <3>1, <3>2, <3>3 DEF CInv, Contract!NothingInvented
    <2>3. ASSUME NEW d \in Domains, Contract!Age(d) PROVE CInv'
      <3>1. /\ zone' = zone /\ Pending' = Pending
            /\ cache' = [cache EXCEPT ![d].fresh = FALSE] /\ cache[d] \in Contract!Cached
        BY <2>3 DEF Contract!Age, CInv
      <3>2. cache' \in [Domains -> Contract!Cached \cup {NoEntry}]
        BY <3>1 DEF CInv, Contract!Cached
      <3>3. \A e \in Domains \ {d} : cache'[e] = cache[e]
        BY <3>1 DEF CInv
      <3>4. cache'[d] = [cache[d] EXCEPT !.fresh = FALSE] /\ cache[d] # NoEntry
        BY <2>3, <3>1 DEF CInv, Contract!Age
      <3>5. cache'[d].ver = cache[d].ver
        BY <3>1, <3>4 DEF Contract!Cached
      <3> QED
        BY <3>1, <3>2, <3>3, <3>4, <3>5 DEF CInv, Contract!NothingInvented
    <2>4. CASE Contract!Give
      <3>1. zone' = zone /\ cache' = cache
        BY <2>4 DEF Contract!Give
      <3>2. \A a \in Pending' : a \in Contract!Answered /\ (a \in Pending \/ a.ver = zone[a.dom])
        BY <2>4 DEF Contract!Give, CInv
      <3>3. \A a \in Pending' : a.ver <= zone[a.dom]
        BY <2>1, <3>2 DEF Contract!Answered
      <3> QED
        BY <3>1, <3>2, <3>3 DEF CInv, Contract!NothingInvented
    <2>5. ASSUME NEW a \in Pending, Contract!Fill(a) PROVE CInv'
      <3>1. /\ zone' = zone /\ Pending' \subseteq Pending
            /\ cache' = [cache EXCEPT ![a.dom] = [ver |-> a.ver, fresh |-> TRUE, fams |-> a.fams]]
        BY <2>5 DEF Contract!Fill
      <3>2. [ver |-> a.ver, fresh |-> TRUE, fams |-> a.fams] \in Contract!Cached
        BY DEF CInv, Contract!Answered, Contract!Cached
      <3>3. cache' \in [Domains -> Contract!Cached \cup {NoEntry}]
        BY <3>1, <3>2 DEF CInv
      <3>4. \A e \in Domains : cache'[e] = cache[e] \/ (e = a.dom /\ cache'[e].ver = a.ver)
        BY <3>1 DEF CInv
      <3> QED
        BY <2>1, <3>1, <3>3, <3>4 DEF CInv, Contract!NothingInvented
    <2>6. CASE UNCHANGED <<zone, cache, Pending>>
      BY <2>6 DEF CInv, Contract!NothingInvented
    <2> QED
      BY <2>2, <2>3, <2>4, <2>5, <2>6
      DEF Contract!ContractNext, Contract!contractVars, Contract!Clear, Contract!TellCached
  <1>3. CInv => Contract!NothingInvented
    BY DEF CInv
  <1> QED
    BY <1>1, <1>2, <1>3, PTL DEF ImplementsContract, Contract!ContractSpec
=============================================================================
