--------------------------- MODULE ServiceIPManager ---------------------------
(***************************************************************************)
(* The pool of service IPs (internal/pool/service_ip.go): the list handed  *)
(* out by the bootstrap endpoints, the IP in use, and the IPs that failed  *)
(* lately.  Every operation runs under the manager's mutex from its first  *)
(* line to its last, so each is one atomic action.  The module defines     *)
(* the operations only; HTTPDNSClient says who calls them and when.        *)
(*                                                                         *)
(* The clock is abstracted to ages.  The code only ever asks whether more  *)
(* than five minutes (CoolDown) have passed since a failure and more than  *)
(* eight hours (MaxAge) since an update, so an age stops growing one tick  *)
(* past the bound it is compared with.                                     *)
(***************************************************************************)
EXTENDS Naturals, Sequences, Functions

CONSTANTS
    IPs,        \* the service IPs a list may name
    NoIP,       \* the empty string in currentIP
    CoolDown,   \* ticks in the five minutes a failed IP is avoided
    MaxAge      \* ticks in the eight hours after which a list is stale

ASSUME PoolAssumption ==
    /\ NoIP \notin IPs
    /\ CoolDown \in Nat
    /\ MaxAge \in Nat

VARIABLES
    serviceIPs,     \* the current list, in the order of the response
    currentIP,      \* the IP in use, or NoIP
    sinceFailure,   \* age of the entry of failedIPs, CoolDown + 1 when there
                    \* is none or when it no longer counts
    sinceUpdate     \* age of updatedAt, MaxAge + 1 for the zero time

poolVars == <<serviceIPs, currentIP, sinceFailure, sinceUpdate>>

Older(age, bound) == IF age > bound THEN age ELSE age + 1

Listed == Range(serviceIPs)

\* "failed, and no more than five minutes ago"
CoolingDown(ip) == sinceFailure[ip] <= CoolDown

IsEmpty == serviceIPs = <<>>

ListIsStale == sinceUpdate > MaxAge

-----------------------------------------------------------------------------

NewServiceIPManager ==
    /\ serviceIPs = <<>>
    /\ currentIP = NoIP
    /\ sinceFailure = [ip \in IPs |-> CoolDown + 1]
    /\ sinceUpdate = MaxAge + 1

\* Mutant of UpdateServiceIPs: the IP in use survives any list.
UpdateKeepsCurrent(ips) ==
    /\ serviceIPs' = ips
    /\ sinceUpdate' = 0
    /\ UNCHANGED <<currentIP, sinceFailure>>

\* A new list keeps the IP in use when it is still listed; failures recorded
\* earlier are kept whatever the list says.
UpdateServiceIPs(ips) ==
    /\ serviceIPs' = ips
    /\ sinceUpdate' = 0
    /\ currentIP' = IF currentIP \in Range(ips) THEN currentIP ELSE NoIP
    /\ UNCHANGED sinceFailure

\* Mutant of CurrentUsable: every selection scans the list from its head.
NeverUsable == FALSE

\* The IP in use is good enough to be handed out again.
CurrentUsable == currentIP # NoIP /\ ~CoolingDown(currentIP)

\* ip is the first of the list that is not cooling down.
FirstUsable(ip) ==
    \E i \in DOMAIN serviceIPs :
        /\ serviceIPs[i] = ip
        /\ ~CoolingDown(ip)
        /\ \A j \in 1 .. i - 1 : CoolingDown(serviceIPs[j])

AllCoolingDown == \A ip \in Listed : CoolingDown(ip)

\* ip is the IP the manager hands out.
GetAvailableIP(ip) ==
    /\ ~IsEmpty
    /\ \/ CurrentUsable /\ ip = currentIP
       \/ ~CurrentUsable /\ FirstUsable(ip)
       \/ ~CurrentUsable /\ AllCoolingDown /\ ip = Head(serviceIPs)
    /\ currentIP' = ip
    /\ UNCHANGED <<serviceIPs, sinceFailure, sinceUpdate>>

\* Mutant of MarkIPFailed: the IP is dropped but its failure not recorded.
DropCurrentOnly(ip) ==
    /\ currentIP' = IF currentIP = ip THEN NoIP ELSE currentIP
    /\ UNCHANGED <<serviceIPs, sinceFailure, sinceUpdate>>

MarkIPFailed(ip) ==
    /\ sinceFailure' = [sinceFailure EXCEPT ![ip] = 0]
    /\ currentIP' = IF currentIP = ip THEN NoIP ELSE currentIP
    /\ UNCHANGED <<serviceIPs, sinceUpdate>>

\* One tick of time.Now as the manager sees it.
PoolTick ==
    /\ sinceFailure' = [ip \in IPs |-> Older(sinceFailure[ip], CoolDown)]
    /\ sinceUpdate' = Older(sinceUpdate, MaxAge)
    /\ UNCHANGED <<serviceIPs, currentIP>>

-----------------------------------------------------------------------------

PoolTypeOK ==
    /\ serviceIPs \in Seq(IPs)
    /\ currentIP \in IPs \cup {NoIP}
    /\ sinceFailure \in [IPs -> 0 .. CoolDown + 1]
    /\ sinceUpdate \in 0 .. MaxAge + 1
=============================================================================
