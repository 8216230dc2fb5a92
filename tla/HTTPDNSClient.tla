----------------------------- MODULE HTTPDNSClient -----------------------------
(***************************************************************************)
(* How a resolution reaches the network (pkg/httpdns/network.go and its    *)
(* callers): make sure there is a list of service IPs, fetch one from the  *)
(* bootstrap endpoints when there is none or it is stale, send the query   *)
(* to a service IP, and on failure mark that IP, back off and try another. *)
(*                                                                         *)
(* Calls are executions of the network part of ResolveSingle, ResolveBatch *)
(* and asyncUpdate; Refreshers are executions of FetchServiceIPs by        *)
(* client.UpdateServiceIPs and by the periodic goroutine.  They interleave *)
(* freely and share the pool of ServiceIPManager.                          *)
(*                                                                         *)
(* Time is discrete and code takes none of it: a tick passes only when     *)
(* every running process waits for an answer or for its back-off timer.    *)
(* A process starts at most once per tick, so no behaviour can stop time.  *)
(***************************************************************************)
EXTENDS ServiceIPManager

CONSTANTS
    Calls, Refreshers,
    Bootstraps,     \* the bootstrap endpoints in the order of the loop, the
                    \* bootstrap domain last
    ServiceLists,   \* the lists a bootstrap endpoint may answer with
    PersistedIPs,   \* the list NewClient loads from disk, or <<>>
    Timeout,        \* config.Timeout: the limit of one HTTP request
    Deadlines,      \* the deadlines a context may start with
    NoDeadline,     \* a context without a deadline
    MaxRetries,     \* config.MaxRetries
    Cancellable,    \* processes whose caller may cancel the context
    Behaviour       \* what each endpoint may do with a request

Procs == Calls \cup Refreshers

Endpoints == IPs \cup Range(Bootstraps)

\* "ok" is a 200 with an answer in it, "garbled" a 200 that does not decode,
\* "error" a refused connection or another status; "silent" leaves the
\* request without an answer for as long as it likes.
Reactions == {"ok", "garbled", "error", "silent"}

ASSUME ClientAssumption ==
    /\ Calls \cap Refreshers = {}
    /\ Bootstraps \in Seq(Endpoints) /\ Bootstraps # <<>>
    /\ ServiceLists \subseteq Seq(IPs) \ {<<>>}
    /\ PersistedIPs \in Seq(IPs)
    /\ Timeout \in Nat \ {0}
    /\ NoDeadline \notin Nat
    /\ Deadlines \subseteq (1 .. CoolDown) \cup {NoDeadline}
    /\ MaxRetries \in Nat
    /\ Cancellable \subseteq Procs
    /\ Behaviour \in [Endpoints -> (SUBSET Reactions) \ {{}}]

VARIABLES
    pc,         \* control point of each process
    ctxLeft,    \* ticks left of its context, 0 when done or cancelled
    timer,      \* ticks left of its request or of its back-off
    attempt,    \* retries it has made
    ep,         \* the bootstrap endpoint it is asking
    ip,         \* the service IP it is asking
    tried       \* history: the service IPs on which its attempts failed

procVars == <<pc, ctxLeft, timer, attempt, ep, ip, tried>>
vars == <<poolVars, procVars>>

Finished == {"ok", "failed"}
Resting == {"idle"} \cup Finished
Labels == Resting \cup {"check", "fetch", "build", "send", "backoff"}

Peer(p) == IF pc[p] = "fetch" THEN Bootstraps[ep[p]] ELSE ip[p]

Expired(p) == ctxLeft[p] = 0

\* The request in flight may come back with r.
Answers(p, r) == ~Expired(p) /\ timer[p] > 0 /\ r \in Behaviour[Peer(p)]

\* client.Do returns an error: the context is done, the request took longer
\* than Timeout, or the endpoint refused.
RequestFails(p) == Expired(p) \/ timer[p] = 0 \/ "error" \in Behaviour[Peer(p)]

Set(f, p, v) == [f EXCEPT ![p] = v]

End(p, outcome) ==
    /\ pc' = Set(pc, p, outcome)
    /\ ctxLeft' = Set(ctxLeft, p, 0)
    /\ timer' = Set(timer, p, 0)
    /\ attempt' = Set(attempt, p, 0)
    /\ ep' = Set(ep, p, 1)
    /\ ip' = Set(ip, p, NoIP)
    /\ tried' = Set(tried, p, {})

-----------------------------------------------------------------------------

\* NewHTTPDNSClient, and NewClient when it finds a list on disk.
Init ==
    /\ IF PersistedIPs = <<>>
       THEN NewServiceIPManager
       ELSE /\ serviceIPs = PersistedIPs
            /\ currentIP = NoIP
            /\ sinceFailure = [i \in IPs |-> CoolDown + 1]
            /\ sinceUpdate = 0
    /\ pc = [p \in Procs |-> "idle"]
    /\ ctxLeft = [p \in Procs |-> 0]
    /\ timer = [p \in Procs |-> 0]
    /\ attempt = [p \in Procs |-> 0]
    /\ ep = [p \in Procs |-> 1]
    /\ ip = [p \in Procs |-> NoIP]
    /\ tried = [p \in Procs |-> {}]

\* ResolveSingle after a cache miss, ResolveBatch, asyncUpdate: the context
\* gets its deadline.
Begin(c, deadline) ==
    /\ pc[c] = "idle"
    /\ pc' = Set(pc, c, "check")
    /\ ctxLeft' = Set(ctxLeft, c, deadline)
    /\ UNCHANGED <<poolVars, timer, attempt, ep, ip, tried>>

AskBootstrap(p, n) ==
    /\ pc' = Set(pc, p, "fetch")
    /\ ep' = Set(ep, p, n)
    /\ timer' = Set(timer, p, Timeout)

\* client.UpdateServiceIPs or a tick of the eight-hour ticker.
BeginRefresh(r, deadline) ==
    /\ pc[r] = "idle"
    /\ ctxLeft' = Set(ctxLeft, r, deadline)
    /\ AskBootstrap(r, 1)
    /\ UNCHANGED <<poolVars, attempt, ip, tried>>

ShouldUpdateServiceIPs == IsEmpty \/ ListIsStale

UpdateServiceIPsIfNeeded(c) ==
    /\ pc[c] = "check"
    /\ \/ /\ ShouldUpdateServiceIPs
          /\ AskBootstrap(c, 1)
       \/ /\ ~ShouldUpdateServiceIPs
          /\ pc' = Set(pc, c, "build")
          /\ UNCHANGED <<timer, ep>>
    /\ UNCHANGED <<poolVars, ctxLeft, attempt, ip, tried>>

\* The endpoint answered with a list: a refresh is over, a call goes on.
FetchAnswered(p, ips) ==
    /\ pc[p] = "fetch"
    /\ Answers(p, "ok")
    /\ UpdateServiceIPs(ips)
    /\ \/ /\ p \in Refreshers
          /\ End(p, "ok")
       \/ /\ p \in Calls
          /\ pc' = Set(pc, p, "build")
          /\ UNCHANGED <<ctxLeft, timer, attempt, ep, ip, tried>>

\* Mutant of FetchNext: a failed fetch is not an error for the call.
FetchErrorIgnored(p) ==
    /\ pc[p] = "fetch"
    /\ RequestFails(p) \/ Answers(p, "garbled")
    /\ pc' = Set(pc, p, IF p \in Calls THEN "build" ELSE "failed")
    /\ UNCHANGED <<poolVars, ctxLeft, timer, attempt, ep, ip, tried>>

\* Mutant of FetchNext: the first failure ends the loop.
FetchGivesUp(p) ==
    /\ pc[p] = "fetch"
    /\ RequestFails(p) \/ Answers(p, "garbled")
    /\ End(p, "failed")
    /\ UNCHANGED poolVars

\* Mutant of FetchNext: the loop starts over after the last endpoint.
FetchForever(p) ==
    /\ pc[p] = "fetch"
    /\ RequestFails(p) \/ Answers(p, "garbled")
    /\ AskBootstrap(p, IF ep[p] < Len(Bootstraps) THEN ep[p] + 1 ELSE 1)
    /\ UNCHANGED <<poolVars, ctxLeft, attempt, ip, tried>>

\* The endpoint was of no use: on to the next one; after the last the error
\* goes back to the caller.
FetchNext(p) ==
    /\ pc[p] = "fetch"
    /\ RequestFails(p) \/ Answers(p, "garbled")
    /\ \/ /\ ep[p] < Len(Bootstraps)
          /\ AskBootstrap(p, ep[p] + 1)
          /\ UNCHANGED <<ctxLeft, attempt, ip, tried>>
       \/ /\ ep[p] = Len(Bootstraps)
          /\ End(p, "failed")
    /\ UNCHANGED poolVars

\* buildURL and DoRequest.  GetAvailableServiceIP would fetch a list first if
\* the pool were empty; NeverPickFromEmpty says that it never is.
SendRequest(c, i) ==
    /\ pc[c] = "build"
    /\ GetAvailableIP(i)
    /\ pc' = Set(pc, c, "send")
    /\ ip' = Set(ip, c, i)
    /\ timer' = Set(timer, c, Timeout)
    /\ UNCHANGED <<ctxLeft, attempt, ep, tried>>

Succeed(c) ==
    /\ pc[c] = "send"
    /\ Answers(c, "ok")
    /\ End(c, "ok")
    /\ UNCHANGED poolVars

\* A 200 whose body does not decode ends the call: it is past the retries.
DecodeFails(c) ==
    /\ pc[c] = "send"
    /\ Answers(c, "garbled")
    /\ End(c, "failed")
    /\ UNCHANGED poolVars

\* Mutant of AttemptFails: one attempt too many.
OneAttemptTooMany(c) ==
    /\ pc[c] = "send"
    /\ RequestFails(c)
    /\ MarkIPFailed(ip[c])
    /\ pc' = Set(pc, c, "backoff")
    /\ timer' = Set(timer, c, attempt[c] + 1)
    /\ UNCHANGED <<ctxLeft, attempt, ep, ip, tried>>

\* Mutant of AttemptFails: the failed service IP is not marked.
FailsUnmarked(c) ==
    /\ pc[c] = "send"
    /\ RequestFails(c)
    /\ \/ /\ attempt[c] < MaxRetries
          /\ pc' = Set(pc, c, "backoff")
          /\ timer' = Set(timer, c, attempt[c] + 1)
          /\ UNCHANGED <<ctxLeft, attempt, ep, ip, tried>>
       \/ /\ attempt[c] = MaxRetries
          /\ End(c, "failed")
    /\ UNCHANGED poolVars

\* The service IP is marked only when another attempt is left.
AttemptFails(c) ==
    /\ pc[c] = "send"
    /\ RequestFails(c)
    /\ \/ /\ attempt[c] < MaxRetries
          /\ MarkIPFailed(ip[c])
          /\ pc' = Set(pc, c, "backoff")
          /\ timer' = Set(timer, c, attempt[c] + 1)
          /\ tried' = Set(tried, c, tried[c] \cup {ip[c]})
          /\ UNCHANGED <<ctxLeft, attempt, ep, ip>>
       \/ /\ attempt[c] = MaxRetries
          /\ End(c, "failed")
          /\ UNCHANGED poolVars

BackoffOver(c) ==
    /\ pc[c] = "backoff"
    /\ timer[c] = 0
    /\ pc' = Set(pc, c, "build")
    /\ attempt' = Set(attempt, c, attempt[c] + 1)
    /\ UNCHANGED <<poolVars, ctxLeft, timer, ep, ip, tried>>

BackoffAborted(c) ==
    /\ pc[c] = "backoff"
    /\ Expired(c)
    /\ End(c, "failed")
    /\ UNCHANGED poolVars

\* The caller cancels the context it passed in.
Cancel(p) ==
    /\ pc[p] \notin Resting
    /\ ~Expired(p)
    /\ ctxLeft' = Set(ctxLeft, p, 0)
    /\ UNCHANGED <<poolVars, pc, timer, attempt, ep, ip, tried>>

\* p can do nothing but wait for the clock.
MayWait(p) ==
    /\ ~Expired(p)
    /\ timer[p] > 0
    /\ \/ pc[p] = "backoff"
       \/ pc[p] \in {"fetch", "send"} /\ "silent" \in Behaviour[Peer(p)]

Elapse(t) == IF t \in Nat \ {0} THEN t - 1 ELSE t

Tick ==
    /\ \A p \in Procs : pc[p] \in Resting \/ MayWait(p)
    /\ PoolTick
    /\ pc' = [p \in Procs |-> IF pc[p] \in Finished THEN "idle" ELSE pc[p]]
    /\ ctxLeft' = [p \in Procs |-> Elapse(ctxLeft[p])]
    /\ timer' = [p \in Procs |-> Elapse(timer[p])]
    /\ UNCHANGED <<attempt, ep, ip, tried>>

-----------------------------------------------------------------------------

\* What a running process does by itself.
Step(p) ==
    \/ \E ips \in ServiceLists : FetchAnswered(p, ips)
    \/ FetchNext(p)

CallStep(c) ==
    \/ UpdateServiceIPsIfNeeded(c)
    \/ Step(c)
    \/ \E i \in IPs : SendRequest(c, i)
    \/ Succeed(c)
    \/ DecodeFails(c)
    \/ AttemptFails(c)
    \/ BackoffOver(c)
    \/ BackoffAborted(c)

Next ==
    \/ \E c \in Calls, d \in Deadlines : Begin(c, d)
    \/ \E r \in Refreshers, d \in Deadlines : BeginRefresh(r, d)
    \/ \E c \in Calls : CallStep(c)
    \/ \E r \in Refreshers : Step(r)
    \/ \E p \in Cancellable : Cancel(p)
    \/ Tick

Spec == Init /\ [][Next]_vars

\* Go schedules every runnable goroutine, timers fire and the clock runs.
Fairness ==
    /\ \A c \in Calls : WF_vars(CallStep(c))
    /\ \A r \in Refreshers : WF_vars(Step(r))
    /\ WF_vars(Tick)

FairSpec == Spec /\ Fairness

\* The application keeps resolving, too.
BusySpec == FairSpec /\ \A c \in Calls : WF_vars(\E d \in Deadlines : Begin(c, d))

-----------------------------------------------------------------------------

\* Every variable stays in its range.
TypeOK ==
    /\ PoolTypeOK
    /\ pc \in [Procs -> Labels]
    /\ ctxLeft \in [Procs -> Nat \cup {NoDeadline}]
    /\ timer \in [Procs -> Nat]
    /\ attempt \in [Procs -> 0 .. MaxRetries]
    /\ ep \in [Procs -> DOMAIN Bootstraps]
    /\ ip \in [Procs -> IPs \cup {NoIP}]
    /\ tried \in [Procs -> SUBSET IPs]

\* The IP in use is one of the current list, whatever updates, failures and
\* selections interleave: UpdateServiceIPs drops it when the new list does
\* (service_ip.go, the loop after updatedAt).
CurrentIPListed == currentIP \in Listed \cup {NoIP}

\* Once a call is past UpdateServiceIPsIfNeeded the pool has a list, so the
\* fetch inside GetAvailableServiceIP, which ignores the caller's deadline and
\* would come on top of it at every attempt, is never reached.
NeverPickFromEmpty ==
    \A c \in Calls : pc[c] \in {"build", "send", "backoff"} => ~IsEmpty

\* Failover: within one call, as long as its deadline has not passed, a retry
\* goes back to a service IP that failed the call before only when every IP of
\* the list is cooling down.
RetrySwitches ==
    [][\A c \in Calls :
          /\ pc[c] = "build" /\ pc'[c] = "send"
          /\ ctxLeft[c] \in Nat \ {0}
          /\ ip'[c] \in tried[c]
          => AllCoolingDown]_vars

\* The pool leaves the IP in use only when it has failed lately or a new list
\* drops it: an IP listed before it does not win the traffic back just because
\* its five minutes are over.
StickyCurrent ==
    [][ currentIP # NoIP /\ currentIP' # currentIP
        => \/ currentIP \notin Range(serviceIPs')
           \/ sinceFailure'[currentIP] <= CoolDown ]_vars

\* No call returns an error.
NoCallFails == \A c \in Calls : pc[c] # "failed"

\* Every call and every refresh returns, cancelled or not, with or without a
\* deadline, however the endpoints behave.
CallsTerminate == \A p \in Procs : pc[p] \notin Resting ~> pc[p] \in Finished

\* Again and again a call returns an answer, however often the endpoints and
\* the IPs it is given are the wrong ones for a while.
Recovers == []<>(\E c \in Calls : pc[c] = "ok")
=============================================================================
