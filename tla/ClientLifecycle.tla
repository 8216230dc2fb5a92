---------------------------- MODULE ClientLifecycle ----------------------------
(***************************************************************************)
(* The life of a client (pkg/httpdns/client.go): the calls of the          *)
(* application under the read lock, Close under the write lock, the        *)
(* periodic goroutine that Close stops and waits for, the goroutines of    *)
(* ResolveAsync, which nobody waits for, and the callbacks, which are the  *)
(* application's code and may call the client themselves.                  *)
(*                                                                         *)
(* What a call does once it is let in is HTTPDNSClient and Resolver; here  *)
(* it takes a while and ends.  The lock is Go's sync.RWMutex: a writer     *)
(* that waits for the readers to leave keeps new readers out, the readers  *)
(* it kept out all come in when it unlocks, and no goroutine is known to   *)
(* the lock, so one that reads twice holds two reads.                      *)
(***************************************************************************)
EXTENDS Naturals, FiniteSets

CONSTANTS
    Users,      \* goroutines of the application
    Tasks,      \* goroutines of ResolveAsync, used again when they are done:
                \* a bound on those alive at a time
    NoProc,
    OnResult,   \* what callbacks may call from the goroutine of ResolveAsync
    OnStopped,  \* what callbacks may call when ResolveAsync finds the client
                \* closed
    MaxDepth    \* bound on calls from callbacks of calls from callbacks

Procs == Users \cup Tasks

\* "resolve" is Resolve, ResolveBatch and UpdateServiceIPs; "read" is
\* GetMetrics, ResetMetrics, GetServiceIPs and IsHealthy; "async" is
\* ResolveAsync.
Ops == {"resolve", "read", "async", "close"}

ASSUME LifecycleAssumption ==
    /\ Users \cap Tasks = {}
    /\ IsFiniteSet(Tasks)
    /\ NoProc \notin Procs
    /\ OnResult \subseteq Ops /\ OnStopped \subseteq Ops
    /\ MaxDepth \in Nat

VARIABLES
    started,    \* client.started
    stopCloses, \* how often stopCh was closed; the second time panics
    updater,    \* the periodic goroutine: "select", "fetch" or "gone"
    tick,       \* a tick waits in the ticker's channel
    writer,     \* who holds or announces the write lock
    holds,      \* read locks each process holds
    at,         \* control point of each process
    op          \* the call it is in, "task" in ResolveAsync's goroutine

vars == <<started, stopCloses, updater, tick, writer, holds, at, op>>
updaterVars == <<updater, tick>>
stopVars == <<started, stopCloses>>

Labels == {"idle", "rwait", "held", "running", "callback", "runlock",
           "wwait", "drain", "locked", "closing", "unlock"}

Move(p, label) == at' = [at EXCEPT ![p] = label]

-----------------------------------------------------------------------------

\* NewClient with the start() at its end.
Init ==
    /\ started = TRUE
    /\ stopCloses = 0
    /\ updater = "select"
    /\ tick = FALSE
    /\ writer = NoProc
    /\ holds = [p \in Procs |-> 0]
    /\ at = [p \in Procs |-> "idle"]
    /\ op = [p \in Procs |-> "none"]

RLock(p) ==
    \/ /\ writer = NoProc
       /\ holds' = [holds EXCEPT ![p] = @ + 1]
       /\ Move(p, "held")
    \/ /\ writer # NoProc
       /\ Move(p, "rwait")
       /\ UNCHANGED holds

\* Goroutines that run, or may still be asked for.
PendingTasks ==
    {t \in Tasks : at[t] # "idle"} \cup {p \in Procs : op[p] = "async"}

\* The application's own code calls anything, a callback the given calls.
MayCall(p, o) ==
    \/ p \in Users /\ at[p] = "idle"
    \/ at[p] = "callback" /\ holds[p] = 0 /\ o \in OnResult
    \/ at[p] = "callback" /\ holds[p] \in 1 .. MaxDepth /\ o \in OnStopped

Call(p, o) ==
    /\ MayCall(p, o)
    /\ o = "async" => Cardinality(PendingTasks) < Cardinality(Tasks)
    /\ op' = [op EXCEPT ![p] = o]
    /\ \/ o # "close" /\ RLock(p)
       \/ o = "close" /\ Move(p, "wwait") /\ UNCHANGED holds
    /\ UNCHANGED <<stopVars, updaterVars, writer>>

\* Mutant of Resolve: unlocked by hand and by the defer.
ResolveUnlocksTwice(p) ==
    /\ at[p] = "held" /\ op[p] = "resolve"
    /\ \/ started /\ Move(p, "running") /\ UNCHANGED holds
       \/ ~started /\ Move(p, "runlock") /\ holds' = [holds EXCEPT ![p] = @ - 1]
    /\ UNCHANGED <<stopVars, updaterVars, writer, op>>

\* A client that is closed answers with client_stopped.
Resolve(p) ==
    /\ at[p] = "held" /\ op[p] = "resolve"
    /\ \/ started /\ Move(p, "running")
       \/ ~started /\ Move(p, "runlock")
    /\ UNCHANGED <<stopVars, updaterVars, writer, holds, op>>

Read(p) ==
    /\ at[p] = "held" /\ op[p] = "read"
    /\ Move(p, "runlock")
    /\ UNCHANGED <<stopVars, updaterVars, writer, holds, op>>

\* Mutant of ResolveAsync: a closed client still starts goroutines.
ResolveAsyncUnchecked(p) ==
    /\ at[p] = "held" /\ op[p] = "async"
    /\ \E t \in Tasks :
          /\ at[t] = "idle"
          /\ at' = [at EXCEPT ![t] = "running", ![p] = "runlock"]
          /\ op' = [op EXCEPT ![t] = "task", ![p] = "none"]
    /\ UNCHANGED <<stopVars, updaterVars, writer, holds>>

\* The goroutine is started under the lock and runs without it; on a closed
\* client the callback runs here and now, with the read lock held.
ResolveAsync(p) ==
    /\ at[p] = "held" /\ op[p] = "async"
    /\ \/ /\ started
          /\ \E t \in Tasks :
                /\ at[t] = "idle"
                /\ at' = [at EXCEPT ![t] = "running", ![p] = "runlock"]
                /\ op' = [op EXCEPT ![t] = "task", ![p] = "none"]
       \/ /\ ~started
          /\ Move(p, "callback")
          /\ UNCHANGED op
    /\ UNCHANGED <<stopVars, updaterVars, writer, holds>>

\* The resolution is over, with a result or an error.
Finish(p) ==
    /\ at[p] = "running"
    /\ Move(p, IF op[p] = "task" THEN "callback" ELSE "runlock")
    /\ UNCHANGED <<stopVars, updaterVars, writer, holds, op>>

Leave(p, left) ==
    /\ Move(p, IF left = 0 THEN "idle" ELSE "runlock")
    /\ op' = [op EXCEPT ![p] = "none"]

CallbackReturns(p) ==
    /\ at[p] = "callback"
    /\ Leave(p, holds[p])
    /\ UNCHANGED <<stopVars, updaterVars, writer, holds>>

\* The deferred RUnlock; a call made by a callback returns into the callback,
\* which returns, and the RUnlock of the call around it is next.
RUnlock(p) ==
    /\ at[p] = "runlock"
    /\ holds' = [holds EXCEPT ![p] = @ - 1]
    /\ Leave(p, holds[p] - 1)
    /\ UNCHANGED <<stopVars, updaterVars, writer>>

-----------------------------------------------------------------------------

\* Close is the only writer after start.
AnnounceWriter(p) ==
    /\ at[p] = "wwait"
    /\ writer = NoProc
    /\ writer' = p
    /\ Move(p, "drain")
    /\ UNCHANGED <<stopVars, updaterVars, holds, op>>

Lock(p) ==
    /\ at[p] = "drain"
    /\ \A q \in Procs : holds[q] = 0
    /\ Move(p, "locked")
    /\ UNCHANGED <<stopVars, updaterVars, writer, holds, op>>

\* Mutant of Close: the second caller does not look at started.
CloseUnchecked(p) ==
    /\ at[p] = "locked"
    /\ started' = FALSE
    /\ stopCloses' = stopCloses + 1
    /\ Move(p, "closing")
    /\ UNCHANGED <<updaterVars, writer, holds, op>>

Close(p) ==
    /\ at[p] = "locked"
    /\ \/ /\ ~started
          /\ Move(p, "unlock")
          /\ UNCHANGED stopVars
       \/ /\ started
          /\ started' = FALSE
          /\ stopCloses' = stopCloses + 1
          /\ Move(p, "closing")
    /\ UNCHANGED <<updaterVars, writer, holds, op>>

\* Mutant of Waited: Close does not wait for the periodic goroutine.
NotWaited(p) ==
    /\ at[p] = "closing"
    /\ Move(p, "unlock")
    /\ UNCHANGED <<stopVars, updaterVars, writer, holds, op>>

\* wg.Wait, with the write lock held.
Waited(p) ==
    /\ at[p] = "closing"
    /\ updater = "gone"
    /\ Move(p, "unlock")
    /\ UNCHANGED <<stopVars, updaterVars, writer, holds, op>>

\* The deferred Unlock lets in every reader the writer kept out.
Unlock(p) ==
    /\ at[p] = "unlock"
    /\ writer' = NoProc
    /\ holds' = [q \in Procs |-> IF at[q] = "rwait" THEN holds[q] + 1 ELSE holds[q]]
    /\ at' = [q \in Procs |-> IF q = p THEN "idle"
                              ELSE IF at[q] = "rwait" THEN "held" ELSE at[q]]
    /\ op' = [op EXCEPT ![p] = "none"]
    /\ UNCHANGED <<stopVars, updaterVars>>

-----------------------------------------------------------------------------

TickerFires ==
    /\ updater # "gone" /\ ~tick
    /\ tick' = TRUE
    /\ UNCHANGED <<stopVars, updater, writer, holds, at, op>>

PeriodicFetch ==
    /\ updater = "select" /\ tick
    /\ updater' = "fetch"
    /\ tick' = FALSE
    /\ UNCHANGED <<stopVars, writer, holds, at, op>>

\* The fetch has a time limit of its own and takes no lock of the client.
PeriodicFetched ==
    /\ updater = "fetch"
    /\ updater' = "select"
    /\ UNCHANGED <<stopVars, tick, writer, holds, at, op>>

\* Mutant of PeriodicStops: break instead of return leaves the select and
\* not the loop.
PeriodicBreaks ==
    /\ updater = "select"
    /\ stopCloses > 0
    /\ UNCHANGED vars

\* The goroutine ends; when a tick is waiting as well, the select may take it
\* first.
PeriodicStops ==
    /\ updater = "select"
    /\ stopCloses > 0
    /\ updater' = "gone"
    /\ UNCHANGED <<stopVars, tick, writer, holds, at, op>>

-----------------------------------------------------------------------------

\* What a process does by itself once it is in a call.
Run(p) ==
    \/ Resolve(p) \/ Read(p) \/ ResolveAsync(p)
    \/ Finish(p) \/ CallbackReturns(p) \/ RUnlock(p)
    \/ Lock(p) \/ Close(p) \/ Waited(p) \/ Unlock(p)

Next ==
    \/ \E p \in Procs : \E o \in Ops : Call(p, o)
    \/ \E p \in Procs : Run(p) \/ AnnounceWriter(p)
    \/ TickerFires \/ PeriodicFetch \/ PeriodicFetched \/ PeriodicStops

Spec == Init /\ [][Next]_vars

\* Go schedules every runnable goroutine; resolutions and callbacks end; the
\* mutex inside the lock hands itself to the writer that waits longest; a
\* select with two ready cases picks either at random, so it does not ignore
\* stopCh for ever.
Fairness ==
    /\ \A p \in Procs : WF_vars(Run(p)) /\ SF_vars(AnnounceWriter(p))
    /\ WF_vars(PeriodicFetched)
    /\ SF_vars(PeriodicStops)

FairSpec == Spec /\ Fairness

-----------------------------------------------------------------------------

\* Every variable stays in its range: in particular no read lock is released
\* twice (fatal in Go).
TypeOK ==
    /\ started \in BOOLEAN
    /\ stopCloses \in Nat
    /\ updater \in {"select", "fetch", "gone"}
    /\ tick \in BOOLEAN
    /\ writer \in Procs \cup {NoProc}
    /\ holds \in [Procs -> Nat]
    /\ at \in [Procs -> Labels]
    /\ op \in [Procs -> Ops \cup {"none", "task"}]

\* stopCh is closed once, however many callers close the client.
ClosedOnce ==
    /\ started => stopCloses = 0
    /\ ~started => stopCloses = 1

\* No call resolves, and the periodic goroutine is gone, whenever a client is
\* closed and no Close is waiting for it.  Goroutines that calls have left
\* behind (ResolveAsync, tryAsyncUpdate) may still be at it: Close does not
\* wait for them.
ClosedIsQuiet ==
    ~started /\ (\A p \in Procs : at[p] # "closing") =>
        /\ updater = "gone"
        /\ \A p \in Procs : at[p] = "running" => op[p] = "task"

\* The client keeps the contract: shut when Close has seen the periodic
\* goroutine off, and not before.
Contract == INSTANCE ClientContract WITH
    Callers <- Procs,
    Jobs <- Tasks,
    open <- started \/ \E p \in Procs : at[p] = "closing",
    inside <- {p \in Procs : at[p] = "running" /\ op[p] = "resolve"},
    background <- {t \in Tasks : at[t] # "idle"},
    fetching <- updater = "fetch"

ImplementsContract == Contract!ContractSpec

\* A callback that runs on a closed client waits for the lock that the
\* ResolveAsync around it holds for reading: nobody gets the lock any more.
WaitsForItself ==
    \E p \in Procs : holds[p] > 0 /\ at[p] \in {"rwait", "wwait", "drain"}

\* Every call and every goroutine of ResolveAsync ends: no call, Close least
\* of all, waits for ever for the lock or for the periodic goroutine.  The
\* one thing that can hang a client is such a callback, which calls Close, or
\* calls anything while another goroutine is about to close the client.
CallsReturn == \A p \in Procs : at[p] # "idle" ~> at[p] = "idle" \/ WaitsForItself
=============================================================================
