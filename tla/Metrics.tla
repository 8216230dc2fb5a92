-------------------------------- MODULE Metrics --------------------------------
(***************************************************************************)
(* The counters of pkg/httpdns/metrics.go and the calls that move them     *)
(* (resolver.go).  RecordResolve, RecordError, Reset and GetStats each run *)
(* under the mutex from first line to last; a call that fails takes the    *)
(* mutex twice, and anything may happen in between.                        *)
(*                                                                         *)
(* RecordAPIRequest is called by nobody and no error has an operation that *)
(* counts as one of authentication or validation, so those counters, like  *)
(* CacheHits, stay at zero and are left out.                               *)
(***************************************************************************)
EXTENDS Naturals, FiniteSets

CONSTANTS
    Callers,    \* of ResolveSingle and ResolveBatch
    Latencies,  \* how long a call may take
    Never,      \* the largest duration, MinLatency before any call
    MaxCalls    \* bound: calls between two Resets

ASSUME MetricsAssumption ==
    /\ IsFiniteSet(Callers)
    /\ Latencies \subseteq Nat
    /\ Never \in Nat /\ \A l \in Latencies : l <= Never
    /\ MaxCalls \in Nat

VARIABLES
    TotalResolves, SuccessResolves, FailedResolves,
    TotalLatency, MinLatency, MaxLatency,
    NetworkErrors,
    pc,         \* "idle", "running", or "failing" between the two records
    succeeded, failed   \* history: calls that returned since the last Reset

counts == <<TotalResolves, SuccessResolves, FailedResolves>>
latencies == <<TotalLatency, MinLatency, MaxLatency>>
history == <<succeeded, failed>>
vars == <<counts, latencies, NetworkErrors, pc, history>>

Failing == {c \in Callers : pc[c] = "failing"}

-----------------------------------------------------------------------------

\* Mutant of NewMetrics: the zero value of the struct.
ZeroMetrics ==
    /\ TotalResolves = 0 /\ SuccessResolves = 0 /\ FailedResolves = 0
    /\ TotalLatency = 0 /\ MinLatency = 0 /\ MaxLatency = 0
    /\ NetworkErrors = 0

NewMetrics ==
    /\ TotalResolves = 0 /\ SuccessResolves = 0 /\ FailedResolves = 0
    /\ TotalLatency = 0 /\ MinLatency = Never /\ MaxLatency = 0
    /\ NetworkErrors = 0

Init ==
    /\ NewMetrics
    /\ pc = [c \in Callers |-> "idle"]
    /\ succeeded = 0 /\ failed = 0

Begin(c) ==
    /\ pc[c] = "idle"
    /\ pc' = [pc EXCEPT ![c] = "running"]
    /\ UNCHANGED <<counts, latencies, NetworkErrors, history>>

\* Its latency counts whether a call succeeds or fails.
RecordLatency(latency) ==
    /\ TotalLatency' = TotalLatency + latency
    /\ MinLatency' = IF latency < MinLatency THEN latency ELSE MinLatency
    /\ MaxLatency' = IF latency > MaxLatency THEN latency ELSE MaxLatency

RecordResolve(success, latency) ==
    /\ TotalResolves' = TotalResolves + 1
    /\ SuccessResolves' = SuccessResolves + (IF success THEN 1 ELSE 0)
    /\ FailedResolves' = FailedResolves + (IF success THEN 0 ELSE 1)
    /\ RecordLatency(latency)

\* A hit in the cache or an answer.
Succeed(c, latency) ==
    /\ pc[c] = "running"
    /\ succeeded + failed < MaxCalls
    /\ pc' = [pc EXCEPT ![c] = "idle"]
    /\ RecordResolve(TRUE, latency)
    /\ succeeded' = succeeded + 1
    /\ UNCHANGED <<NetworkErrors, failed>>

\* A single query that gets no list of service IPs, or an answer that does
\* not decode, and a batch of no names or of too many, return their error and
\* record nothing.
FailUnrecorded(c) ==
    /\ pc[c] = "running"
    /\ succeeded + failed < MaxCalls
    /\ pc' = [pc EXCEPT ![c] = "idle"]
    /\ failed' = failed + 1
    /\ UNCHANGED <<counts, latencies, NetworkErrors, succeeded>>

\* Mutant of RecordError: an error for every attempt of the call.
RecordErrors(c) ==
    /\ pc[c] = "running"
    /\ NetworkErrors < MaxCalls
    /\ NetworkErrors' = NetworkErrors + 1
    /\ pc' \in {pc, [pc EXCEPT ![c] = "failing"]}
    /\ UNCHANGED <<counts, latencies, history>>

\* Requests that failed to the last attempt are network errors.  A context
\* that ended during a back-off is no error of any kind, nor is a batch
\* without a list of service IPs or with an answer that does not decode.
RecordError(c) ==
    /\ pc[c] = "running"
    /\ NetworkErrors' \in {NetworkErrors, NetworkErrors + 1}
    /\ pc' = [pc EXCEPT ![c] = "failing"]
    /\ UNCHANGED <<counts, latencies, history>>

Fail(c, latency) ==
    /\ pc[c] = "failing"
    /\ succeeded + failed < MaxCalls
    /\ pc' = [pc EXCEPT ![c] = "idle"]
    /\ RecordResolve(FALSE, latency)
    /\ failed' = failed + 1
    /\ UNCHANGED <<NetworkErrors, succeeded>>

\* Mutant of Reset: the sum of the latencies is forgotten.
ResetCounts ==
    /\ TotalResolves' = 0 /\ SuccessResolves' = 0 /\ FailedResolves' = 0
    /\ MinLatency' = Never /\ MaxLatency' = 0
    /\ NetworkErrors' = 0
    /\ succeeded' = 0 /\ failed' = 0
    /\ UNCHANGED <<TotalLatency, pc>>

\* client.ResetMetrics, while calls are under way.
Reset ==
    /\ TotalResolves' = 0 /\ SuccessResolves' = 0 /\ FailedResolves' = 0
    /\ TotalLatency' = 0 /\ MinLatency' = Never /\ MaxLatency' = 0
    /\ NetworkErrors' = 0
    /\ succeeded' = 0 /\ failed' = 0
    /\ UNCHANGED pc

Next ==
    \/ \E c \in Callers : Begin(c) \/ FailUnrecorded(c) \/ RecordError(c)
    \/ \E c \in Callers, latency \in Latencies : Succeed(c, latency) \/ Fail(c, latency)
    \/ Reset

Spec == Init /\ [][Next]_vars

-----------------------------------------------------------------------------

\* GetStats' average; its success rate is SuccessResolves over TotalResolves.
AvgLatency == TotalLatency \div TotalResolves

\* Every variable stays in its range: MinLatency is a call's latency, or the
\* largest duration as long as there was none.
TypeOK ==
    /\ TotalResolves \in Nat /\ SuccessResolves \in Nat /\ FailedResolves \in Nat
    /\ TotalLatency \in Nat
    /\ MinLatency \in Latencies \cup {Never}
    /\ TotalResolves = 0 => MinLatency = Never
    /\ MaxLatency \in Latencies \cup {0}
    /\ NetworkErrors \in Nat
    /\ pc \in [Callers -> {"idle", "running", "failing"}]
    /\ succeeded \in Nat /\ failed \in Nat

\* Whatever calls and Resets interleave, a snapshot adds up: its average lies
\* between its extremes.
AverageInRange ==
    TotalResolves > 0 => MinLatency <= AvgLatency /\ AvgLatency <= MaxLatency

\* Every call that succeeds since the last Reset is counted once, no call
\* counts as both, and there are not more errors than failed calls, those
\* included that have recorded the error only: a Reset in between does not
\* leave an error without its call.
CountsAddUp ==
    /\ SuccessResolves = succeeded
    /\ FailedResolves <= failed
    /\ TotalResolves = SuccessResolves + FailedResolves
    /\ NetworkErrors <= FailedResolves + Cardinality(Failing)
=============================================================================
