-------------------------- MODULE HTTPDNSClientProofs --------------------------
(***************************************************************************)
(* Proofs about HTTPDNSClient, for any number of calls, service IPs and    *)
(* bootstrap endpoints, any lists, limits and endpoint behaviour.          *)
(***************************************************************************)
EXTENDS HTTPDNSClient, FiniteSetTheorems, SequenceTheorems, TLAPS

-----------------------------------------------------------------------------
\* The operations of the pool, one lemma each.

\* A fetched list is a list of service IPs, and not an empty one.
LEMMA UpdateKeepsPool ==
    ASSUME PoolTypeOK, NEW ips \in ServiceLists, UpdateServiceIPs(ips)
    PROVE  PoolTypeOK' /\ CurrentIPListed' /\ ~IsEmpty'
  <1>1. ips \in Seq(IPs) /\ ips # <<>>
    BY ClientAssumption
  <1>2. currentIP' \in Range(ips) \cup {NoIP}
    BY DEF UpdateServiceIPs
  <1> QED
    BY <1>1, <1>2, PoolAssumption
    DEF PoolTypeOK, UpdateServiceIPs, CurrentIPListed, Listed, IsEmpty

\* Whatever IP the pool hands out is on its list, and becomes the IP in use.
LEMMA GetKeepsPool ==
    ASSUME PoolTypeOK, CurrentIPListed, NEW i \in IPs, GetAvailableIP(i)
    PROVE  PoolTypeOK' /\ CurrentIPListed' /\ (IsEmpty' <=> IsEmpty)
  <1>1. i \in Listed
    <2>1. CASE CurrentUsable /\ i = currentIP
      BY <2>1 DEF CurrentUsable, CurrentIPListed
    <2>2. CASE FirstUsable(i)
      BY <2>2 DEF FirstUsable, Listed, Range
    <2>3. CASE i = Head(serviceIPs)
      <3>1. serviceIPs \in Seq(IPs) /\ serviceIPs # <<>>
        BY DEF GetAvailableIP, IsEmpty, PoolTypeOK
      <3>2. 1 \in DOMAIN serviceIPs /\ Head(serviceIPs) = serviceIPs[1]
        BY <3>1
      <3> QED
        BY <2>3, <3>2 DEF Listed, Range
    <2> QED
      BY <2>1, <2>2, <2>3 DEF GetAvailableIP
  <1> QED
    BY <1>1 DEF GetAvailableIP, PoolTypeOK, CurrentIPListed, Listed, IsEmpty

LEMMA MarkKeepsPool ==
    ASSUME PoolTypeOK, CurrentIPListed, NEW i \in IPs, MarkIPFailed(i)
    PROVE  PoolTypeOK' /\ CurrentIPListed' /\ (IsEmpty' <=> IsEmpty)
  BY PoolAssumption DEF MarkIPFailed, PoolTypeOK, CurrentIPListed, Listed, IsEmpty

LEMMA TickKeepsPool ==
    ASSUME PoolTypeOK, CurrentIPListed, PoolTick
    PROVE  PoolTypeOK' /\ CurrentIPListed' /\ (IsEmpty' <=> IsEmpty)
  BY PoolAssumption DEF PoolTick, Older, PoolTypeOK, CurrentIPListed, Listed, IsEmpty

-----------------------------------------------------------------------------
\* The inductive invariant.

\* What the control point of a process says of its other variables.
ControlOK ==
    \A p \in Procs :
        /\ pc[p] \in Resting => tried[p] = {}
        /\ pc[p] = "send" => ip[p] \in IPs
        /\ pc[p] = "backoff" => attempt[p] < MaxRetries
        /\ ctxLeft[p] = NoDeadline \/ ctxLeft[p] <= CoolDown

\* An IP that failed a call keeps cooling down for as long as the call may
\* run: its five minutes end after the call's deadline does.
TriedCoolDown ==
    \A p \in Procs : \A i \in tried[p] :
        ctxLeft[p] \in Nat \ {0} => sinceFailure[i] + ctxLeft[p] <= CoolDown

Inv ==
    /\ TypeOK
    /\ CurrentIPListed
    /\ NeverPickFromEmpty
    /\ ControlOK
    /\ TriedCoolDown

\* Ending a call or a refresh leaves nothing of it behind.
LEMMA EndOK ==
    ASSUME Inv, NEW p \in Procs, NEW outcome \in Finished, End(p, outcome),
           PoolTypeOK', CurrentIPListed', IsEmpty' => IsEmpty,
           UNCHANGED sinceFailure
    PROVE  Inv'
  <1>1. TypeOK'
    BY ClientAssumption, PoolAssumption
    DEF Inv, TypeOK, End, Set, Finished, Resting, Labels
  <1>2. NeverPickFromEmpty'
    BY DEF Inv, TypeOK, NeverPickFromEmpty, End, Set, Finished, Resting, Labels, Procs
  <1>3. ControlOK'
    BY PoolAssumption
    DEF Inv, TypeOK, ControlOK, End, Set, Finished, Resting, Labels
  <1>4. TriedCoolDown'
    BY DEF Inv, TypeOK, TriedCoolDown, End, Set
  <1> QED
    BY <1>1, <1>2, <1>3, <1>4 DEF Inv

LEMMA InitOK == Init => Inv
  <1> SUFFICES ASSUME Init PROVE Inv
    OBVIOUS
  <1>1. PoolTypeOK /\ CurrentIPListed
    BY ClientAssumption, PoolAssumption
    DEF Init, NewServiceIPManager, PoolTypeOK, CurrentIPListed
  <1>2. TypeOK
    BY <1>1, ClientAssumption DEF Init, TypeOK, Labels, Resting
  <1>3. NeverPickFromEmpty /\ ControlOK /\ TriedCoolDown
    BY PoolAssumption DEF Init, NeverPickFromEmpty, ControlOK, TriedCoolDown, Procs
  <1> QED
    BY <1>1, <1>2, <1>3 DEF Inv

LEMMA NextOK == Inv /\ [Next]_vars => Inv'
  <1> SUFFICES ASSUME Inv, [Next]_vars PROVE Inv'
    OBVIOUS
  <1> USE DEF Set
  <1>1. ASSUME NEW c \in Calls, NEW dl \in Deadlines, Begin(c, dl)
        PROVE  Inv'
    <2>1. TypeOK' /\ CurrentIPListed'
      BY <1>1, ClientAssumption
      DEF Begin, Inv, TypeOK, PoolTypeOK, CurrentIPListed, Listed, poolVars, Labels, Procs
    <2>2. NeverPickFromEmpty'
      BY <1>1 DEF Begin, Inv, TypeOK, NeverPickFromEmpty, IsEmpty, poolVars, Procs
    <2>3. ControlOK'
      BY <1>1, ClientAssumption
      DEF Begin, Inv, TypeOK, ControlOK, Resting, Finished, Labels, Procs
    <2>4. TriedCoolDown'
      BY <1>1 DEF Begin, Inv, TypeOK, ControlOK, TriedCoolDown, Resting, poolVars, Procs
    <2> QED
      BY <2>1, <2>2, <2>3, <2>4 DEF Inv
  <1>2. ASSUME NEW r \in Refreshers, NEW dl \in Deadlines, BeginRefresh(r, dl)
        PROVE  Inv'
    <2>1. TypeOK' /\ CurrentIPListed'
      BY <1>2, ClientAssumption
      DEF BeginRefresh, AskBootstrap, Inv, TypeOK, PoolTypeOK, CurrentIPListed, Listed,
          poolVars, Labels, Procs
    <2>2. NeverPickFromEmpty'
      BY <1>2 DEF BeginRefresh, AskBootstrap, Inv, TypeOK, NeverPickFromEmpty, IsEmpty,
                  poolVars, Procs
    <2>3. ControlOK'
      BY <1>2, ClientAssumption
      DEF BeginRefresh, AskBootstrap, Inv, TypeOK, ControlOK, Resting, Finished, Labels, Procs
    <2>4. TriedCoolDown'
      BY <1>2 DEF BeginRefresh, Inv, TypeOK, ControlOK, TriedCoolDown, Resting, poolVars, Procs
    <2> QED
      BY <2>1, <2>2, <2>3, <2>4 DEF Inv
  <1>3. ASSUME NEW c \in Calls, UpdateServiceIPsIfNeeded(c)
        PROVE  Inv'
    <2>1. TypeOK'
      <3>1. PoolTypeOK'
        BY <1>3 DEF UpdateServiceIPsIfNeeded, Inv, TypeOK, PoolTypeOK, poolVars
      <3>2. CASE AskBootstrap(c, 1)
        BY <1>3, <3>1, <3>2, ClientAssumption
        DEF UpdateServiceIPsIfNeeded, AskBootstrap, Inv, TypeOK, Labels, Procs
      <3>3. CASE pc' = Set(pc, c, "build") /\ UNCHANGED <<timer, ep>>
        BY <1>3, <3>1, <3>3 DEF UpdateServiceIPsIfNeeded, Inv, TypeOK, Labels
      <3> QED
        BY <1>3, <3>2, <3>3 DEF UpdateServiceIPsIfNeeded
    <2>5. CurrentIPListed'
      BY <1>3 DEF UpdateServiceIPsIfNeeded, Inv, CurrentIPListed, Listed, poolVars
    <2>2. NeverPickFromEmpty'
      BY <1>3 DEF UpdateServiceIPsIfNeeded, ShouldUpdateServiceIPs, AskBootstrap, Inv, TypeOK,
                  NeverPickFromEmpty, IsEmpty, poolVars, Procs
    <2>3. ControlOK'
      BY <1>3 DEF UpdateServiceIPsIfNeeded, AskBootstrap, Inv, TypeOK, ControlOK, Resting,
                  Finished, Procs
    <2>4. TriedCoolDown'
      BY <1>3 DEF UpdateServiceIPsIfNeeded, Inv, TriedCoolDown, poolVars
    <2> QED
      BY <2>1, <2>2, <2>3, <2>4, <2>5 DEF Inv
  <1>4. ASSUME NEW p \in Procs, NEW ips \in ServiceLists, FetchAnswered(p, ips)
        PROVE  Inv'
    <2>1. PoolTypeOK' /\ CurrentIPListed' /\ ~IsEmpty'
      BY <1>4, UpdateKeepsPool DEF FetchAnswered, Inv, TypeOK
    <2>2. UNCHANGED sinceFailure
      BY <1>4 DEF FetchAnswered, UpdateServiceIPs
    <2>3. CASE p \in Refreshers /\ End(p, "ok")
      BY <2>1, <2>2, <2>3, EndOK DEF Finished
    <2>4. CASE /\ p \in Calls
               /\ pc' = Set(pc, p, "build")
               /\ UNCHANGED <<ctxLeft, timer, attempt, ep, ip, tried>>
      <3>1. TypeOK'
        BY <2>1, <2>4 DEF Inv, TypeOK, Labels
      <3>2. NeverPickFromEmpty'
        BY <2>1 DEF NeverPickFromEmpty
      <3>3. ControlOK'
        BY <2>4 DEF Inv, TypeOK, ControlOK, Resting, Finished
      <3>4. TriedCoolDown'
        BY <2>2, <2>4 DEF Inv, TriedCoolDown
      <3> QED
        BY <2>1, <3>1, <3>2, <3>3, <3>4 DEF Inv
    <2> QED
      BY <1>4, <2>3, <2>4 DEF FetchAnswered
  <1>5. ASSUME NEW p \in Procs, FetchNext(p)
        PROVE  Inv'
    <2>1. PoolTypeOK' /\ CurrentIPListed' /\ (IsEmpty' <=> IsEmpty) /\ UNCHANGED sinceFailure
      BY <1>5 DEF FetchNext, Inv, TypeOK, PoolTypeOK, CurrentIPListed, Listed, IsEmpty, poolVars
    <2>2. CASE /\ ep[p] < Len(Bootstraps)
               /\ AskBootstrap(p, ep[p] + 1)
               /\ UNCHANGED <<ctxLeft, attempt, ip, tried>>
      <3>1. ep[p] + 1 \in DOMAIN Bootstraps
        BY <2>2, ClientAssumption DEF Inv, TypeOK
      <3>2. TypeOK'
        BY <2>1, <2>2, <3>1, ClientAssumption DEF AskBootstrap, Inv, TypeOK, Labels
      <3>3. NeverPickFromEmpty'
        BY <2>1, <2>2 DEF AskBootstrap, Inv, TypeOK, NeverPickFromEmpty, Procs
      <3>4. ControlOK'
        BY <2>2 DEF AskBootstrap, Inv, TypeOK, ControlOK, Resting, Finished
      <3>5. TriedCoolDown'
        BY <2>1, <2>2 DEF Inv, TriedCoolDown
      <3> QED
        BY <2>1, <3>2, <3>3, <3>4, <3>5 DEF Inv
    <2>3. CASE End(p, "failed")
      BY <2>1, <2>3, EndOK DEF Finished
    <2> QED
      BY <1>5, <2>2, <2>3 DEF FetchNext
  <1>6. ASSUME NEW c \in Calls, NEW i \in IPs, SendRequest(c, i)
        PROVE  Inv'
    <2>1. PoolTypeOK' /\ CurrentIPListed' /\ (IsEmpty' <=> IsEmpty)
      BY <1>6, GetKeepsPool DEF SendRequest, Inv, TypeOK
    <2>2. TypeOK'
      BY <1>6, <2>1, ClientAssumption DEF SendRequest, Inv, TypeOK, Labels, Procs
    <2>3. NeverPickFromEmpty'
      BY <1>6, <2>1 DEF SendRequest, Inv, TypeOK, NeverPickFromEmpty, Procs
    <2>4. ControlOK'
      BY <1>6 DEF SendRequest, Inv, TypeOK, ControlOK, Resting, Finished, Procs
    <2>5. TriedCoolDown'
      BY <1>6 DEF SendRequest, GetAvailableIP, Inv, TriedCoolDown
    <2> QED
      BY <2>1, <2>2, <2>3, <2>4, <2>5 DEF Inv
  <1>7. ASSUME NEW c \in Calls, Succeed(c) \/ DecodeFails(c) \/ BackoffAborted(c)
        PROVE  Inv'
    <2>1. PoolTypeOK' /\ CurrentIPListed' /\ (IsEmpty' <=> IsEmpty) /\ UNCHANGED sinceFailure
      BY <1>7 DEF Succeed, DecodeFails, BackoffAborted, Inv, TypeOK, PoolTypeOK,
                  CurrentIPListed, Listed, IsEmpty, poolVars
    <2>2. c \in Procs /\ (End(c, "ok") \/ End(c, "failed"))
      BY <1>7 DEF Succeed, DecodeFails, BackoffAborted, Procs
    <2> QED
      BY <2>1, <2>2, EndOK DEF Finished
  <1>8. ASSUME NEW c \in Calls, AttemptFails(c)
        PROVE  Inv'
    <2>1. c \in Procs /\ ip[c] \in IPs
      BY <1>8 DEF AttemptFails, Inv, ControlOK, Procs
    <2>2. CASE /\ attempt[c] < MaxRetries
               /\ MarkIPFailed(ip[c])
               /\ pc' = Set(pc, c, "backoff")
               /\ timer' = Set(timer, c, attempt[c] + 1)
               /\ tried' = Set(tried, c, tried[c] \cup {ip[c]})
               /\ UNCHANGED <<ctxLeft, attempt, ep, ip>>
      <3>1. PoolTypeOK' /\ CurrentIPListed' /\ (IsEmpty' <=> IsEmpty)
        BY <2>1, <2>2, MarkKeepsPool DEF Inv, TypeOK
      <3>2. TypeOK'
        BY <2>1, <2>2, <3>1 DEF Inv, TypeOK, Labels
      <3>3. NeverPickFromEmpty'
        BY <1>8, <2>2, <3>1 DEF AttemptFails, Inv, TypeOK, NeverPickFromEmpty, Procs
      <3>4. ControlOK'
        BY <2>1, <2>2 DEF Inv, TypeOK, ControlOK, Resting, Finished
      <3>5. TriedCoolDown'
        <4> SUFFICES ASSUME NEW p \in Procs, NEW i \in tried'[p], ctxLeft[p] \in Nat \ {0}
                     PROVE  sinceFailure'[i] + ctxLeft[p] <= CoolDown
          BY <2>2 DEF TriedCoolDown
        <4>1. ctxLeft[p] \in Nat /\ ctxLeft[p] <= CoolDown /\ i \in IPs
          BY <2>1, <2>2, ClientAssumption DEF Inv, TypeOK, ControlOK
        <4>2. CASE i = ip[c]
          <5>1. sinceFailure'[i] = 0
            BY <2>2, <4>1, <4>2 DEF MarkIPFailed, Inv, TypeOK, PoolTypeOK
          <5> QED
            BY <4>1, <5>1, PoolAssumption
        <4>3. CASE i # ip[c]
          BY <2>1, <2>2, <4>1, <4>3
          DEF MarkIPFailed, Inv, TypeOK, PoolTypeOK, TriedCoolDown
        <4> QED
          BY <4>2, <4>3
      <3> QED
        BY <3>1, <3>2, <3>3, <3>4, <3>5 DEF Inv
    <2>3. CASE End(c, "failed") /\ UNCHANGED poolVars
      <3>1. PoolTypeOK' /\ CurrentIPListed' /\ (IsEmpty' <=> IsEmpty) /\ UNCHANGED sinceFailure
        BY <2>3 DEF Inv, TypeOK, PoolTypeOK, CurrentIPListed, Listed, IsEmpty, poolVars
      <3> QED
        BY <2>1, <2>3, <3>1, EndOK DEF Finished
    <2> QED
      BY <1>8, <2>2, <2>3 DEF AttemptFails
  <1>9. ASSUME NEW c \in Calls, BackoffOver(c)
        PROVE  Inv'
    <2>1. c \in Procs /\ attempt[c] < MaxRetries
      BY <1>9 DEF BackoffOver, Inv, ControlOK, Procs
    <2>2. TypeOK' /\ CurrentIPListed'
      BY <1>9, <2>1, ClientAssumption
      DEF BackoffOver, Inv, TypeOK, PoolTypeOK, CurrentIPListed, Listed, poolVars, Labels
    <2>3. NeverPickFromEmpty'
      BY <1>9 DEF BackoffOver, Inv, TypeOK, NeverPickFromEmpty, IsEmpty, poolVars, Procs
    <2>4. ControlOK'
      BY <1>9, <2>1 DEF BackoffOver, Inv, TypeOK, ControlOK, Resting, Finished
    <2>5. TriedCoolDown'
      BY <1>9 DEF BackoffOver, Inv, TriedCoolDown, poolVars
    <2> QED
      BY <2>2, <2>3, <2>4, <2>5 DEF Inv
  <1>10. ASSUME NEW p \in Cancellable, Cancel(p)
         PROVE  Inv'
    <2>1. p \in Procs
      BY <1>10, ClientAssumption
    <2>2. TypeOK' /\ CurrentIPListed'
      BY <1>10, <2>1
      DEF Cancel, Inv, TypeOK, PoolTypeOK, CurrentIPListed, Listed, poolVars
    <2>3. NeverPickFromEmpty' /\ ControlOK'
      BY <1>10, <2>1, PoolAssumption
      DEF Cancel, Inv, TypeOK, NeverPickFromEmpty, ControlOK, IsEmpty, poolVars
    <2>4. TriedCoolDown'
      <3>1. \A q \in Procs : ctxLeft'[q] \in Nat \ {0} => ctxLeft'[q] = ctxLeft[q]
        BY <1>10 DEF Cancel, Inv, TypeOK
      <3> QED
        BY <1>10, <3>1 DEF Cancel, Inv, TriedCoolDown, poolVars
    <2> QED
      BY <2>2, <2>3, <2>4 DEF Inv
  <1>11. ASSUME Tick
         PROVE  Inv'
    <2>1. PoolTypeOK' /\ CurrentIPListed' /\ (IsEmpty' <=> IsEmpty)
      BY <1>11, TickKeepsPool DEF Tick, Inv, TypeOK
    <2>2. ASSUME NEW p \in Procs
          PROVE  /\ ctxLeft'[p] \in Nat \cup {NoDeadline}
                 /\ timer'[p] \in Nat
                 /\ \/ ctxLeft'[p] = NoDeadline
                    \/ ctxLeft[p] \in Nat /\ ctxLeft'[p] <= ctxLeft[p]
                 /\ ctxLeft'[p] \in Nat \ {0} =>
                        ctxLeft[p] \in Nat \ {0} /\ ctxLeft[p] = ctxLeft'[p] + 1
      <3>1. /\ ctxLeft'[p] = IF ctxLeft[p] \in Nat \ {0} THEN ctxLeft[p] - 1 ELSE ctxLeft[p]
            /\ timer'[p] = IF timer[p] \in Nat \ {0} THEN timer[p] - 1 ELSE timer[p]
        BY <1>11 DEF Tick, Elapse
      <3>2. ctxLeft[p] \in Nat \cup {NoDeadline} /\ timer[p] \in Nat
        BY DEF Inv, TypeOK
      <3> QED
        BY <3>1, <3>2, ClientAssumption
    <2>3. TypeOK'
      BY <1>11, <2>1, <2>2 DEF Tick, Inv, TypeOK, Labels, Resting, Finished
    <2>4. NeverPickFromEmpty'
      BY <1>11, <2>1 DEF Tick, Inv, TypeOK, NeverPickFromEmpty, Procs
    <2>5. ControlOK'
      <3> SUFFICES ASSUME NEW p \in Procs
                   PROVE  /\ pc'[p] \in Resting => tried[p] = {}
                          /\ pc'[p] = "send" => ip[p] \in IPs
                          /\ pc'[p] = "backoff" => attempt[p] < MaxRetries
                          /\ ctxLeft'[p] = NoDeadline \/ ctxLeft'[p] <= CoolDown
        BY <1>11 DEF Tick, ControlOK
      <3>1. pc'[p] = IF pc[p] \in Finished THEN "idle" ELSE pc[p]
        BY <1>11 DEF Tick
      <3>2. ctxLeft[p] \in Nat => ctxLeft[p] <= CoolDown
        BY ClientAssumption DEF Inv, ControlOK
      <3>3. ctxLeft'[p] = NoDeadline \/ ctxLeft'[p] <= CoolDown
        BY <2>2, <3>2, PoolAssumption, ClientAssumption
      <3> QED
        BY <3>1, <3>3 DEF Inv, ControlOK, Resting, Finished
    <2>6. TriedCoolDown'
      <3> SUFFICES ASSUME NEW p \in Procs, NEW i \in tried[p], ctxLeft'[p] \in Nat \ {0}
                   PROVE  sinceFailure'[i] + ctxLeft'[p] <= CoolDown
        BY <1>11 DEF Tick, TriedCoolDown
      <3>1. ctxLeft[p] \in Nat \ {0} /\ ctxLeft[p] = ctxLeft'[p] + 1
        BY <1>11, <2>2 DEF Tick, Inv, TypeOK
      <3>2. sinceFailure[i] + ctxLeft[p] <= CoolDown
        BY <3>1 DEF Inv, TriedCoolDown
      <3>3. sinceFailure'[i] \in Nat /\ sinceFailure'[i] <= sinceFailure[i] + 1
        BY <1>11, PoolAssumption DEF Tick, PoolTick, Older, Inv, TypeOK, PoolTypeOK
      <3>4. i \in IPs /\ sinceFailure[i] \in Nat
        BY PoolAssumption DEF Inv, TypeOK, PoolTypeOK
      <3> QED
        BY <3>1, <3>2, <3>3, <3>4, PoolAssumption
    <2> QED
      BY <2>1, <2>3, <2>4, <2>5, <2>6 DEF Inv
  <1>12. ASSUME UNCHANGED vars
         PROVE  Inv'
    BY <1>12
    DEF vars, poolVars, procVars, Inv, TypeOK, PoolTypeOK, CurrentIPListed, Listed, IsEmpty,
        NeverPickFromEmpty, ControlOK, TriedCoolDown
  <1> QED
    BY <1>1, <1>2, <1>3, <1>4, <1>5, <1>6, <1>7, <1>8, <1>9, <1>10, <1>11, <1>12
    DEF Next, CallStep, Step, Procs

\* The inductive invariant holds in every reachable state.
THEOREM Invariance == Spec => []Inv
  BY InitOK, NextOK, PTL DEF Spec

\* Every variable of every call, refresh and of the pool keeps its type.
THEOREM TypeCorrect == Spec => []TypeOK
  BY Invariance, PTL DEF Inv

\* The service IP in use is always one of the current list.
THEOREM CurrentIPIsListed == Spec => []CurrentIPListed
  BY Invariance, PTL DEF Inv

\* No call ever asks an empty pool for a service IP: the fetch in
\* GetAvailableServiceIP is dead code on every path of the SDK.
THEOREM PoolNeverEmpty == Spec => []NeverPickFromEmpty
  BY Invariance, PTL DEF Inv

-----------------------------------------------------------------------------
\* Action properties.

\* A retry moves to another service IP whenever one is not cooling down, for
\* calls whose deadline is at most the cool-down time.
THEOREM RetriesSwitch == Spec => RetrySwitches
  <1> DEFINE Switch ==
        \A c \in Calls :
            /\ pc[c] = "build" /\ pc'[c] = "send"
            /\ ctxLeft[c] \in Nat \ {0}
            /\ ip'[c] \in tried[c]
            => AllCoolingDown
  <1>1. Inv /\ [Next]_vars => [Switch]_vars
    <2> SUFFICES ASSUME Inv, [Next]_vars, NEW c \in Calls,
                        pc[c] = "build", pc'[c] = "send",
                        ctxLeft[c] \in Nat \ {0}, ip'[c] \in tried[c]
                 PROVE  AllCoolingDown
      OBVIOUS
    <2>1. c \in Procs
      BY DEF Procs
    <2>2. PICK i \in IPs : SendRequest(c, i)
      <3>1. CASE \E k \in IPs : SendRequest(c, k)
        BY <3>1
      <3>2. CASE ~\E k \in IPs : SendRequest(c, k)
        <4> SUFFICES ASSUME Next PROVE FALSE
          BY DEF vars, procVars
        <4> USE <2>1 DEF Set, Inv, TypeOK
        <4>2. ASSUME NEW k \in Calls, k # c, NEW j \in IPs, SendRequest(k, j)
              PROVE  FALSE
          BY <4>2 DEF SendRequest
        <4>3. ASSUME NEW k \in Calls, NEW dl \in Deadlines, Begin(k, dl)
              PROVE  FALSE
          BY <4>3 DEF Begin
        <4>4. ASSUME NEW k \in Refreshers, NEW dl \in Deadlines, BeginRefresh(k, dl)
              PROVE  FALSE
          BY <4>4 DEF BeginRefresh, AskBootstrap
        <4>5. ASSUME NEW k \in Calls, UpdateServiceIPsIfNeeded(k)
              PROVE  FALSE
          BY <4>5 DEF UpdateServiceIPsIfNeeded, AskBootstrap
        <4>6. ASSUME NEW p \in Procs, Step(p)
              PROVE  FALSE
          BY <4>6 DEF Step, FetchAnswered, FetchNext, AskBootstrap, End
        <4>7. ASSUME NEW k \in Calls,
                     \/ Succeed(k) \/ DecodeFails(k) \/ AttemptFails(k)
                     \/ BackoffOver(k) \/ BackoffAborted(k)
              PROVE  FALSE
          BY <4>7 DEF Succeed, DecodeFails, AttemptFails, BackoffOver, BackoffAborted, End
        <4>8. ASSUME (\E p \in Cancellable : Cancel(p)) \/ Tick
              PROVE  FALSE
          BY <4>8 DEF Cancel, Tick
        <4> QED
          BY <3>2, <4>2, <4>3, <4>4, <4>5, <4>6, <4>7, <4>8 DEF Next, CallStep, Procs
      <3> QED
        BY <3>1, <3>2
    <2>3. ip'[c] = i /\ GetAvailableIP(i)
      BY <2>1, <2>2 DEF SendRequest, Set, Inv, TypeOK
    <2>4. CoolingDown(i)
      BY <2>1, <2>3, PoolAssumption
      DEF CoolingDown, Inv, TypeOK, PoolTypeOK, TriedCoolDown
    <2> QED
      BY <2>3, <2>4 DEF GetAvailableIP, CurrentUsable, FirstUsable
  <1> QED
    BY <1>1, Invariance, PTL DEF Spec, RetrySwitches

\* The IP in use is left only after a failure of its own or for a list it is
\* not on.
THEOREM CurrentIsSticky == Spec => StickyCurrent
  <1> DEFINE Sticks ==
        currentIP # NoIP /\ currentIP' # currentIP
        => \/ currentIP \notin Range(serviceIPs')
           \/ sinceFailure'[currentIP] <= CoolDown
  <1>1. Inv /\ [Next]_vars => [Sticks]_vars
    <2> SUFFICES ASSUME Inv, Next, currentIP # NoIP, currentIP' # currentIP,
                        currentIP \in Range(serviceIPs')
                 PROVE  sinceFailure'[currentIP] <= CoolDown
      BY DEF vars, poolVars
    <2>1. \/ \E ips \in ServiceLists : UpdateServiceIPs(ips)
          \/ \E i \in IPs : GetAvailableIP(i)
          \/ \E c \in Calls : pc[c] = "send" /\ MarkIPFailed(ip[c])
          \/ UNCHANGED currentIP
      <3>1. CASE \E c \in Calls : CallStep(c)
        BY <3>1 DEF CallStep, Step, UpdateServiceIPsIfNeeded, FetchAnswered, FetchNext,
                    SendRequest, Succeed, DecodeFails, AttemptFails, BackoffOver,
                    BackoffAborted, poolVars
      <3>2. CASE \E r \in Refreshers : Step(r)
        BY <3>2 DEF Step, FetchAnswered, FetchNext, poolVars
      <3>3. CASE \/ \E c \in Calls, dl \in Deadlines : Begin(c, dl)
                 \/ \E r \in Refreshers, dl \in Deadlines : BeginRefresh(r, dl)
                 \/ \E p \in Cancellable : Cancel(p)
                 \/ Tick
        BY <3>3 DEF Begin, BeginRefresh, Cancel, Tick, PoolTick, poolVars
      <3> QED
        BY <3>1, <3>2, <3>3 DEF Next
    <2>2. ASSUME NEW ips \in ServiceLists, UpdateServiceIPs(ips)
          PROVE  currentIP = currentIP'
      BY <2>2 DEF UpdateServiceIPs
    <2>3. ASSUME NEW i \in IPs, GetAvailableIP(i)
          PROVE  sinceFailure'[currentIP] <= CoolDown
      BY <2>3 DEF GetAvailableIP, CurrentUsable, CoolingDown
    <2>4. ASSUME NEW c \in Calls, pc[c] = "send", MarkIPFailed(ip[c])
          PROVE  sinceFailure'[currentIP] <= CoolDown
      <3>1. currentIP = ip[c] /\ currentIP \in IPs
        BY <2>4 DEF MarkIPFailed, Inv, TypeOK, PoolTypeOK
      <3>2. sinceFailure'[currentIP] = 0
        BY <2>4, <3>1 DEF MarkIPFailed, Inv, TypeOK, PoolTypeOK
      <3> QED
        BY <3>2, PoolAssumption
    <2> QED
      BY <2>1, <2>2, <2>3, <2>4
  <1> QED
    BY <1>1, Invariance, PTL DEF Spec, StickyCurrent

-----------------------------------------------------------------------------
\* A network in which no call fails.

\* What is left of a fetch after n endpoints, of a call after n retries: at
\* most a timeout for each endpoint, and for each retry a timeout and the
\* longest back-off.
FetchTakes(n) == (Len(Bootstraps) - n) * Timeout
AttemptsTake(n) == (MaxRetries - n) * (Timeout + MaxRetries)
LongestCall == FetchTakes(0) + AttemptsTake(0)

\* Bad service IPs are no more than the retries, and refuse or are slow; all
\* others answer, every list names one of them, and the bootstrap endpoint g
\* answers.  The caller is patient, and a call shorter than the cool-down.
Steady(Bad, g) ==
    /\ Bad \subseteq IPs /\ IsFiniteSet(Bad) /\ Cardinality(Bad) <= MaxRetries
    /\ \A i \in IPs \ Bad : Behaviour[i] = {"ok"}
    /\ \A i \in Bad : "garbled" \notin Behaviour[i]
    /\ \A list \in ServiceLists \cup {PersistedIPs} : list # <<>> => ~(Range(list) \subseteq Bad)
    /\ g \in DOMAIN Bootstraps /\ Behaviour[Bootstraps[g]] = {"ok"}
    /\ Cancellable \cap Calls = {}
    /\ LongestCall <= CoolDown
    /\ \A d \in Deadlines : d = NoDeadline \/ LongestCall < d

\* The longest a call may still take at control point l, with time t on its
\* timer, after a retries, at endpoint e; an IP that answers does so at once.
Work(l, t, a, e) ==
    CASE l = "check" -> LongestCall
      [] l = "fetch" -> t + FetchTakes(e) + AttemptsTake(0)
      [] l = "build" -> AttemptsTake(a)
      [] l = "send" -> t + MaxRetries + AttemptsTake(a + 1)
      [] l = "backoff" -> t + AttemptsTake(a + 1)
      [] OTHER -> 0

WorkLeft(c, Bad) ==
    IF pc[c] = "send" /\ ip[c] \notin Bad THEN 0
    ELSE Work(pc[c], timer[c], attempt[c], ep[c])

\* A call has failed on as many bad IPs as it has made attempts, all cool down
\* for as long as it may run, and it ends before its deadline.
CallHealthy(c, Bad, g) ==
    /\ pc[c] # "failed"
    /\ tried[c] \subseteq Bad
    /\ Cardinality(tried[c]) = IF pc[c] = "backoff" THEN attempt[c] + 1 ELSE attempt[c]
    /\ pc[c] \in {"check", "fetch"} => attempt[c] = 0
    /\ pc[c] = "fetch" => /\ ep[c] <= g /\ timer[c] <= Timeout
                          /\ ep[c] = g => timer[c] > 0
    /\ pc[c] = "send" => /\ ip[c] \notin tried[c] /\ timer[c] <= Timeout
                         /\ ip[c] \notin Bad => timer[c] > 0
    /\ pc[c] = "backoff" => timer[c] <= attempt[c] + 1
    /\ pc[c] \notin Resting => ctxLeft[c] = NoDeadline \/ WorkLeft(c, Bad) < ctxLeft[c]
    /\ \A i \in tried[c] : sinceFailure[i] + WorkLeft(c, Bad) <= CoolDown

\* IPs that answer are never marked, and one of them is on the list.
PoolHealthy(Bad) ==
    /\ \A i \in IPs \ Bad : ~CoolingDown(i)
    /\ ~IsEmpty => ~(Listed \subseteq Bad)

Healthy(Bad, g) ==
    /\ PoolHealthy(Bad)
    /\ \A c \in Calls : CallHealthy(c, Bad, g)

LEMMA FetchTime ==
    ASSUME NEW n \in 0 .. Len(Bootstraps)
    PROVE  /\ FetchTakes(n) \in Nat
           /\ n < Len(Bootstraps) => FetchTakes(n) = Timeout + FetchTakes(n + 1)
           /\ FetchTakes(n) <= FetchTakes(0)
  <1> DEFINE left == Len(Bootstraps) - n
  <1>1. left \in Nat /\ Len(Bootstraps) \in Nat /\ Timeout \in Nat
    BY ClientAssumption
  <1>2. left * Timeout \in Nat
    BY <1>1
  <1>3. left > 0 => left * Timeout = Timeout + (left - 1) * Timeout
    BY <1>1
  <1>4. Len(Bootstraps) * Timeout = left * Timeout + n * Timeout /\ n * Timeout \in Nat
    BY <1>1
  <1> QED
    BY <1>1, <1>2, <1>3, <1>4 DEF FetchTakes

LEMMA AttemptsTime ==
    ASSUME NEW n \in 0 .. MaxRetries
    PROVE  /\ AttemptsTake(n) \in Nat
           /\ n < MaxRetries => AttemptsTake(n) = Timeout + MaxRetries + AttemptsTake(n + 1)
           /\ AttemptsTake(n) <= AttemptsTake(0)
  <1> DEFINE left == MaxRetries - n
             one == Timeout + MaxRetries
  <1>1. left \in Nat /\ MaxRetries \in Nat /\ one \in Nat
    BY ClientAssumption
  <1> HIDE DEF one
  <1>2. left * one \in Nat
    BY <1>1
  <1>3. left > 0 => left * one = one + (left - 1) * one
    BY <1>1
  <1>4. MaxRetries * one = left * one + n * one /\ n * one \in Nat
    BY <1>1
  <1>5. AttemptsTake(n) \in Nat /\ AttemptsTake(n) <= AttemptsTake(0)
    BY <1>1, <1>2, <1>4 DEF AttemptsTake, one
  <1>6. ASSUME n < MaxRetries PROVE AttemptsTake(n) = one + AttemptsTake(n + 1)
    <2>1. (MaxRetries - (n + 1)) = left - 1
      BY <1>1
    <2> QED
      BY <1>1, <1>3, <1>6, <2>1 DEF AttemptsTake, one
  <1> QED
    BY <1>5, <1>6 DEF one

\* While there is a bad IP that has not failed the call, a retry is left.
LEMMA RetryLeft ==
    ASSUME NEW Bad, NEW g, Steady(Bad, g), Inv, NEW c \in Calls, CallHealthy(c, Bad, g),
           pc[c] # "backoff", NEW i \in Bad, i \notin tried[c]
    PROVE  attempt[c] < MaxRetries
  <1>1. IsFiniteSet(tried[c]) /\ Cardinality(tried[c]) = attempt[c]
    BY FS_Subset DEF Steady, CallHealthy
  <1>2. Cardinality(tried[c] \cup {i}) = attempt[c] + 1
    BY <1>1, FS_AddElement
  <1>3. tried[c] \cup {i} \subseteq Bad
    BY DEF CallHealthy
  <1>4. Cardinality(tried[c] \cup {i}) <= Cardinality(Bad) /\ Cardinality(Bad) \in Nat
    BY <1>3, FS_Subset, FS_CardinalityType DEF Steady
  <1>5. attempt[c] \in Nat /\ MaxRetries \in Nat
    BY ClientAssumption DEF Inv, TypeOK, Procs
  <1> QED
    BY <1>2, <1>4, <1>5 DEF Steady

LEMMA WorkAt ==
    ASSUME NEW l, NEW t, NEW a, NEW e
    PROVE  /\ l = "check" => Work(l, t, a, e) = LongestCall
           /\ l = "fetch" => Work(l, t, a, e) = t + FetchTakes(e) + AttemptsTake(0)
           /\ l = "build" => Work(l, t, a, e) = AttemptsTake(a)
           /\ l = "send" => Work(l, t, a, e) = t + MaxRetries + AttemptsTake(a + 1)
           /\ l = "backoff" => Work(l, t, a, e) = t + AttemptsTake(a + 1)
           /\ l \in Resting => Work(l, t, a, e) = 0
  <1>1. l = "check" => Work(l, t, a, e) = LongestCall
    BY DEF Work
  <1>2. l = "fetch" => Work(l, t, a, e) = t + FetchTakes(e) + AttemptsTake(0)
    BY DEF Work
  <1>3. l = "build" => Work(l, t, a, e) = AttemptsTake(a)
    BY DEF Work
  <1>4. l = "send" => Work(l, t, a, e) = t + MaxRetries + AttemptsTake(a + 1)
    BY DEF Work
  <1>5. l = "backoff" => Work(l, t, a, e) = t + AttemptsTake(a + 1)
    BY DEF Work
  <1>6. l \in Resting => Work(l, t, a, e) = 0
    BY DEF Work, Resting, Finished
  <1> QED
    BY <1>1, <1>2, <1>3, <1>4, <1>5, <1>6

LEMMA WorkNat ==
    ASSUME NEW Bad, NEW g, Steady(Bad, g), Inv, NEW c \in Calls, CallHealthy(c, Bad, g)
    PROVE  WorkLeft(c, Bad) \in Nat
  <1>1. /\ timer[c] \in Nat /\ attempt[c] \in 0 .. MaxRetries /\ MaxRetries \in Nat
        /\ ep[c] \in 0 .. Len(Bootstraps) /\ pc[c] \in Labels
    BY ClientAssumption DEF Inv, TypeOK, Procs
  <1>2. pc[c] = "backoff" \/ (pc[c] = "send" /\ ip[c] \in Bad) =>
            attempt[c] + 1 \in 0 .. MaxRetries
    BY <1>1, RetryLeft DEF Inv, ControlOK, CallHealthy, Procs
  <1>3. /\ FetchTakes(ep[c]) \in Nat /\ FetchTakes(0) \in Nat
        /\ AttemptsTake(attempt[c]) \in Nat /\ AttemptsTake(0) \in Nat
    <2>1. 0 \in 0 .. MaxRetries /\ 0 \in 0 .. Len(Bootstraps)
      BY ClientAssumption
    <2> QED
      BY <1>1, <2>1, FetchTime, AttemptsTime
  <1>4. pc[c] = "backoff" \/ (pc[c] = "send" /\ ip[c] \in Bad) =>
            AttemptsTake(attempt[c] + 1) \in Nat
    BY <1>2, AttemptsTime
  <1>5. LongestCall \in Nat
    BY <1>3 DEF LongestCall
  <1> DEFINE work == Work(pc[c], timer[c], attempt[c], ep[c])
  <1>6. CASE pc[c] = "send" /\ ip[c] \notin Bad
    BY <1>6 DEF WorkLeft
  <1>7. CASE ~(pc[c] = "send" /\ ip[c] \notin Bad)
    <2>1. WorkLeft(c, Bad) = work
      BY <1>7 DEF WorkLeft
    <2>2. /\ pc[c] = "check" => work = LongestCall
          /\ pc[c] = "fetch" => work = timer[c] + FetchTakes(ep[c]) + AttemptsTake(0)
          /\ pc[c] = "build" => work = AttemptsTake(attempt[c])
          /\ pc[c] = "send" => work = timer[c] + MaxRetries + AttemptsTake(attempt[c] + 1)
          /\ pc[c] = "backoff" => work = timer[c] + AttemptsTake(attempt[c] + 1)
          /\ pc[c] \in Resting => work = 0
      BY WorkAt
    <2> HIDE DEF work
    <2> QED
      BY <1>1, <1>3, <1>4, <1>5, <1>7, <2>1, <2>2, SMTT(30) DEF Labels
  <1> QED
    BY <1>6, <1>7

\* A running call is not expired.
LEMMA NotExpired ==
    ASSUME NEW Bad, NEW g, Steady(Bad, g), Inv, NEW c \in Calls, CallHealthy(c, Bad, g),
           pc[c] \notin Resting
    PROVE  ~Expired(c)
  BY WorkNat, ClientAssumption DEF CallHealthy, Expired

\* A call that a step leaves alone stays healthy: IPs fail again, at most.
LEMMA LeftAlone ==
    ASSUME NEW Bad, NEW g, Steady(Bad, g), Inv, NEW c \in Calls, CallHealthy(c, Bad, g),
           pc'[c] = pc[c], ctxLeft'[c] = ctxLeft[c], timer'[c] = timer[c],
           attempt'[c] = attempt[c], ep'[c] = ep[c], ip'[c] = ip[c], tried'[c] = tried[c],
           \A i \in IPs : sinceFailure'[i] \in Nat /\ sinceFailure'[i] <= sinceFailure[i]
    PROVE  CallHealthy(c, Bad, g)'
  <1>1. WorkLeft(c, Bad)' = WorkLeft(c, Bad) /\ WorkLeft(c, Bad) \in Nat
    BY WorkNat DEF WorkLeft
  <1>2. ASSUME NEW i \in tried[c] PROVE sinceFailure'[i] + WorkLeft(c, Bad) <= CoolDown
    <2>1. i \in IPs
      BY DEF Steady, CallHealthy
    <2>2. sinceFailure[i] \in Nat /\ sinceFailure[i] + WorkLeft(c, Bad) <= CoolDown
      BY <2>1, PoolAssumption DEF CallHealthy, Inv, TypeOK, PoolTypeOK
    <2> QED
      BY <1>1, <2>1, <2>2, PoolAssumption
  <1> HIDE DEF WorkLeft
  <1> QED
    BY <1>1, <1>2 DEF CallHealthy

\* A call that ended well, or rests, is healthy.
LEMMA EndHealthy ==
    ASSUME NEW Bad, NEW g, Inv, NEW c \in Calls, End(c, "ok")
    PROVE  CallHealthy(c, Bad, g)'
  <1>1. pc'[c] = "ok" /\ tried'[c] = {} /\ attempt'[c] = 0
    BY DEF End, Set, Inv, TypeOK, Procs
  <1> QED
    BY <1>1, FS_EmptySet DEF CallHealthy, Resting, Finished

\* The IP handed out answers, or is one that has not failed the call.
LEMMA PicksAnother ==
    ASSUME NEW Bad, NEW g, Steady(Bad, g), Inv, Healthy(Bad, g),
           NEW c \in Calls, NEW i \in IPs, pc[c] = "build", GetAvailableIP(i)
    PROVE  i \notin tried[c]
  <1>1. ~AllCoolingDown
    BY DEF Healthy, PoolHealthy, AllCoolingDown, GetAvailableIP, Inv, TypeOK, PoolTypeOK, Listed, Range
  <1>2. ~CoolingDown(i)
    BY <1>1 DEF GetAvailableIP, CurrentUsable, FirstUsable
  <1>3. WorkLeft(c, Bad) \in Nat /\ CallHealthy(c, Bad, g)
    BY WorkNat DEF Healthy
  <1>4. ASSUME i \in tried[c] PROVE FALSE
    <2>1. sinceFailure[i] \in Nat /\ sinceFailure[i] + WorkLeft(c, Bad) <= CoolDown
      BY <1>3, <1>4, PoolAssumption DEF CallHealthy, Inv, TypeOK, PoolTypeOK
    <2> QED
      BY <1>2, <1>3, <2>1, PoolAssumption DEF CoolingDown
  <1> QED
    BY <1>4

\* What the start of a call, or a step on, leaves to do is no more than before.
LEMMA Onward ==
    ASSUME NEW Bad, NEW g, Steady(Bad, g), Inv, NEW c \in Calls, CallHealthy(c, Bad, g),
           pc[c] \notin Resting, UNCHANGED <<ctxLeft, sinceFailure>>,
           WorkLeft(c, Bad)' \in Nat, WorkLeft(c, Bad)' <= WorkLeft(c, Bad),
           tried'[c] = tried[c]
    PROVE  /\ ctxLeft'[c] = NoDeadline \/ WorkLeft(c, Bad)' < ctxLeft'[c]
           /\ \A i \in tried'[c] : sinceFailure'[i] + WorkLeft(c, Bad)' <= CoolDown
  <1>1. WorkLeft(c, Bad) \in Nat
    BY WorkNat
  <1> DEFINE before == WorkLeft(c, Bad)
             after == WorkLeft(c, Bad)'
  <1>2. before \in Nat /\ after \in Nat /\ after <= before
    BY <1>1
  <1>3. ctxLeft[c] = NoDeadline \/ (ctxLeft[c] \in Nat /\ before < ctxLeft[c])
    BY DEF CallHealthy, Inv, TypeOK, Procs
  <1>4. \A i \in tried[c] : sinceFailure[i] \in Nat /\ sinceFailure[i] + before <= CoolDown
    BY PoolAssumption DEF CallHealthy, Inv, TypeOK, PoolTypeOK, Steady
  <1> HIDE DEF before, after
  <1>5. ctxLeft[c] = NoDeadline \/ after < ctxLeft[c]
    BY <1>2, <1>3
  <1>6. \A i \in tried[c] : sinceFailure[i] + after <= CoolDown
    BY <1>2, <1>4, PoolAssumption
  <1> QED
    BY <1>5, <1>6 DEF after

LEMMA BeginHealthy ==
    ASSUME NEW Bad, NEW g, Steady(Bad, g), Inv, NEW c \in Calls, NEW d \in Deadlines,
           Begin(c, d), CallHealthy(c, Bad, g)
    PROVE  CallHealthy(c, Bad, g)'
  <1>1. /\ pc[c] = "idle" /\ pc'[c] = "check" /\ ctxLeft'[c] = d
        /\ tried'[c] = {} /\ attempt'[c] = attempt[c]
    BY DEF Begin, Set, Inv, TypeOK, ControlOK, Resting, Procs
  <1>2. attempt[c] = 0
    BY <1>1, FS_EmptySet DEF Begin, CallHealthy
  <1>3. WorkLeft(c, Bad)' = LongestCall
    BY <1>1, WorkAt DEF WorkLeft
  <1>4. d = NoDeadline \/ LongestCall < d
    BY DEF Steady
  <1> HIDE DEF WorkLeft
  <1> QED
    BY <1>1, <1>2, <1>3, <1>4, FS_EmptySet DEF CallHealthy, Resting, Finished

LEMMA CheckHealthy ==
    ASSUME NEW Bad, NEW g, Steady(Bad, g), Inv, NEW c \in Calls,
           UpdateServiceIPsIfNeeded(c), CallHealthy(c, Bad, g)
    PROVE  CallHealthy(c, Bad, g)'
  <1>1. /\ pc[c] = "check" /\ attempt[c] = 0
        /\ tried'[c] = tried[c] /\ attempt'[c] = attempt[c]
        /\ UNCHANGED <<ctxLeft, sinceFailure>>
    BY DEF UpdateServiceIPsIfNeeded, CallHealthy, poolVars
  <1>2. 0 \in 0 .. MaxRetries /\ 0 \in 0 .. Len(Bootstraps) /\ 0 < Len(Bootstraps)
    BY ClientAssumption
  <1>3. /\ AttemptsTake(0) \in Nat /\ FetchTakes(0) \in Nat /\ FetchTakes(1) \in Nat
        /\ FetchTakes(0) = Timeout + FetchTakes(1)
    <2>1. 1 \in 0 .. Len(Bootstraps)
      BY <1>2
    <2> QED
      BY <1>2, <2>1, AttemptsTime, FetchTime
  <1>4. CASE AskBootstrap(c, 1)
    <2>1. pc'[c] = "fetch" /\ ep'[c] = 1 /\ timer'[c] = Timeout
      BY <1>4 DEF AskBootstrap, Set, Inv, TypeOK, Procs
    <2>2. /\ WorkLeft(c, Bad)' = Timeout + FetchTakes(1) + AttemptsTake(0)
          /\ WorkLeft(c, Bad) = LongestCall
      BY <1>1, <2>1, WorkAt DEF WorkLeft
    <2>3. /\ ctxLeft'[c] = NoDeadline \/ WorkLeft(c, Bad)' < ctxLeft'[c]
          /\ \A i \in tried'[c] : sinceFailure'[i] + WorkLeft(c, Bad)' <= CoolDown
      BY <1>1, <1>3, <2>2, Onward, ClientAssumption DEF LongestCall, Resting, Finished
    <2>4. 1 <= g /\ Timeout > 0 /\ Timeout \in Nat
      BY ClientAssumption DEF Steady
    <2> HIDE DEF WorkLeft
    <2> QED
      BY <1>1, <2>1, <2>3, <2>4 DEF CallHealthy
  <1>5. CASE pc' = Set(pc, c, "build")
    <2>1. pc'[c] = "build" /\ attempt'[c] = 0
      BY <1>1, <1>5 DEF Set, Inv, TypeOK, Procs
    <2>2. WorkLeft(c, Bad)' = AttemptsTake(0) /\ WorkLeft(c, Bad) = LongestCall
      BY <1>1, <2>1, WorkAt DEF WorkLeft
    <2>3. /\ ctxLeft'[c] = NoDeadline \/ WorkLeft(c, Bad)' < ctxLeft'[c]
          /\ \A i \in tried'[c] : sinceFailure'[i] + WorkLeft(c, Bad)' <= CoolDown
      BY <1>1, <1>3, <2>2, Onward, ClientAssumption DEF LongestCall, Resting, Finished
    <2> HIDE DEF WorkLeft
    <2> QED
      BY <1>1, <2>1, <2>3 DEF CallHealthy
  <1> QED
    BY <1>4, <1>5 DEF UpdateServiceIPsIfNeeded

LEMMA AnswerHealthy ==
    ASSUME NEW Bad, NEW g, Steady(Bad, g), Inv, NEW c \in Calls, NEW ips \in ServiceLists,
           FetchAnswered(c, ips), CallHealthy(c, Bad, g)
    PROVE  CallHealthy(c, Bad, g)'
  <1>1. /\ pc[c] = "fetch" /\ attempt[c] = 0 /\ pc'[c] = "build"
        /\ tried'[c] = tried[c] /\ attempt'[c] = attempt[c]
        /\ UNCHANGED <<ctxLeft, sinceFailure>>
    BY ClientAssumption
    DEF FetchAnswered, UpdateServiceIPs, CallHealthy, Set, Inv, TypeOK, Procs
  <1>2. /\ timer[c] \in Nat /\ ep[c] \in 0 .. Len(Bootstraps)
        /\ 0 \in 0 .. MaxRetries
    BY ClientAssumption DEF Inv, TypeOK, Procs
  <1>3. AttemptsTake(0) \in Nat /\ FetchTakes(ep[c]) \in Nat
    BY <1>2, AttemptsTime, FetchTime
  <1>4. /\ WorkLeft(c, Bad)' = AttemptsTake(0)
        /\ WorkLeft(c, Bad) = timer[c] + FetchTakes(ep[c]) + AttemptsTake(0)
    BY <1>1, WorkAt DEF WorkLeft
  <1>5. /\ ctxLeft'[c] = NoDeadline \/ WorkLeft(c, Bad)' < ctxLeft'[c]
        /\ \A i \in tried'[c] : sinceFailure'[i] + WorkLeft(c, Bad)' <= CoolDown
    BY <1>1, <1>2, <1>3, <1>4, Onward DEF Resting, Finished
  <1> HIDE DEF WorkLeft
  <1> QED
    BY <1>1, <1>5 DEF CallHealthy

\* The endpoints before g may fail the call one after the other; g does not.
LEMMA NextEndpointHealthy ==
    ASSUME NEW Bad, NEW g, Steady(Bad, g), Inv, NEW c \in Calls, FetchNext(c),
           CallHealthy(c, Bad, g)
    PROVE  CallHealthy(c, Bad, g)'
  <1>1. /\ pc[c] = "fetch" /\ attempt[c] = 0 /\ ep[c] <= g
        /\ ep[c] = g => timer[c] > 0
        /\ UNCHANGED sinceFailure
    BY DEF FetchNext, CallHealthy, poolVars
  <1>2. /\ timer[c] \in Nat /\ ep[c] \in 1 .. Len(Bootstraps) /\ g \in 1 .. Len(Bootstraps)
        /\ Timeout \in Nat \ {0} /\ 0 \in 0 .. MaxRetries
    BY ClientAssumption DEF Inv, TypeOK, Procs, Steady
  <1>3. ep[c] # g
    <2>1. ~Expired(c)
      BY <1>1, NotExpired DEF Resting, Finished
    <2>2. timer[c] = 0 \/ "error" \in Behaviour[Bootstraps[ep[c]]]
            \/ "garbled" \in Behaviour[Bootstraps[ep[c]]]
      BY <1>1, <2>1 DEF FetchNext, RequestFails, Answers, Peer
    <2>3. Behaviour[Bootstraps[g]] = {"ok"}
      BY DEF Steady
    <2> QED
      BY <1>1, <1>2, <2>2, <2>3
  <1>4. ep[c] < g
    BY <1>1, <1>2, <1>3
  <1>5. /\ pc'[c] = "fetch" /\ ep'[c] = ep[c] + 1 /\ timer'[c] = Timeout
        /\ tried' = tried /\ attempt' = attempt /\ UNCHANGED ctxLeft
    BY <1>2, <1>4 DEF FetchNext, AskBootstrap, Set, Inv, TypeOK, Procs
  <1>6. /\ AttemptsTake(0) \in Nat /\ FetchTakes(ep[c]) \in Nat
        /\ FetchTakes(ep[c] + 1) \in Nat
        /\ FetchTakes(ep[c]) = Timeout + FetchTakes(ep[c] + 1)
    BY <1>2, <1>4, AttemptsTime, FetchTime
  <1>7. /\ WorkLeft(c, Bad)' = Timeout + FetchTakes(ep[c] + 1) + AttemptsTake(0)
        /\ WorkLeft(c, Bad) = timer[c] + FetchTakes(ep[c]) + AttemptsTake(0)
    BY <1>1, <1>5, WorkAt DEF WorkLeft
  <1>8. /\ ctxLeft'[c] = NoDeadline \/ WorkLeft(c, Bad)' < ctxLeft'[c]
        /\ \A i \in tried'[c] : sinceFailure'[i] + WorkLeft(c, Bad)' <= CoolDown
    <2>1. WorkLeft(c, Bad)' \in Nat /\ WorkLeft(c, Bad)' <= WorkLeft(c, Bad)
      BY <1>2, <1>6, <1>7, SMTT(30)
    <2> QED
      BY <1>1, <1>5, <2>1, Onward DEF Resting, Finished
  <1> HIDE DEF WorkLeft
  <1> QED
    BY <1>1, <1>2, <1>4, <1>5, <1>8 DEF CallHealthy

LEMMA SendHealthy ==
    ASSUME NEW Bad, NEW g, Steady(Bad, g), Inv, Healthy(Bad, g), NEW c \in Calls,
           NEW i \in IPs, SendRequest(c, i)
    PROVE  CallHealthy(c, Bad, g)'
  <1>1. /\ pc[c] = "build" /\ i \notin tried[c] /\ CallHealthy(c, Bad, g)
        /\ pc'[c] = "send" /\ ip'[c] = i /\ timer'[c] = Timeout
        /\ UNCHANGED <<ctxLeft, sinceFailure, attempt, tried>>
    BY PicksAnother DEF SendRequest, GetAvailableIP, Healthy, Set, Inv, TypeOK, Procs
  <1>2. Timeout \in Nat \ {0} /\ attempt[c] \in 0 .. MaxRetries /\ MaxRetries \in Nat
    BY ClientAssumption DEF Inv, TypeOK, Procs
  <1>3. WorkLeft(c, Bad) = AttemptsTake(attempt[c]) /\ WorkLeft(c, Bad) \in Nat
    BY <1>1, WorkAt, WorkNat DEF WorkLeft
  <1>4. WorkLeft(c, Bad)' \in Nat /\ WorkLeft(c, Bad)' <= WorkLeft(c, Bad)
    <2>1. CASE i \notin Bad
      <3>1. WorkLeft(c, Bad)' = 0
        BY <1>1, <2>1 DEF WorkLeft
      <3> QED
        BY <1>3, <3>1
    <2>2. CASE i \in Bad
      <3>1. attempt[c] < MaxRetries
        BY <1>1, <2>2, RetryLeft
      <3>2. WorkLeft(c, Bad)' = Timeout + MaxRetries + AttemptsTake(attempt[c] + 1)
        BY <1>1, <2>2, WorkAt DEF WorkLeft
      <3>3. AttemptsTake(attempt[c]) = Timeout + MaxRetries + AttemptsTake(attempt[c] + 1)
        BY <1>2, <3>1, AttemptsTime
      <3> QED
        BY <1>3, <3>2, <3>3
    <2> QED
      BY <2>1, <2>2
  <1>5. /\ ctxLeft'[c] = NoDeadline \/ WorkLeft(c, Bad)' < ctxLeft'[c]
        /\ \A j \in tried'[c] : sinceFailure'[j] + WorkLeft(c, Bad)' <= CoolDown
    BY <1>1, <1>4, Onward DEF Resting, Finished
  <1> HIDE DEF WorkLeft
  <1> QED
    BY <1>1, <1>2, <1>5 DEF CallHealthy

\* Only a bad IP fails an attempt, and not the last one.
LEMMA FailHealthy ==
    ASSUME NEW Bad, NEW g, Steady(Bad, g), Inv, NEW c \in Calls, AttemptFails(c),
           CallHealthy(c, Bad, g)
    PROVE  CallHealthy(c, Bad, g)' /\ ip[c] \in Bad /\ MarkIPFailed(ip[c])
  <1>1. pc[c] = "send" /\ ip[c] \in IPs /\ ip[c] \notin tried[c]
    BY DEF AttemptFails, CallHealthy, Inv, ControlOK, Procs
  <1>2. ip[c] \in Bad
    <2>1. ~Expired(c) /\ timer[c] \in Nat
      BY <1>1, NotExpired DEF Resting, Finished, Inv, TypeOK, Procs
    <2>2. timer[c] = 0 \/ "error" \in Behaviour[ip[c]]
      BY <1>1, <2>1 DEF AttemptFails, RequestFails, Peer
    <2> QED
      BY <1>1, <2>1, <2>2 DEF Steady, CallHealthy
  <1>3. /\ timer[c] \in Nat /\ attempt[c] \in 0 .. MaxRetries /\ MaxRetries \in Nat
        /\ Timeout \in Nat /\ CoolDown \in Nat
    BY ClientAssumption, PoolAssumption DEF Inv, TypeOK, Procs
  <1>4. attempt[c] < MaxRetries
    BY <1>1, <1>2, RetryLeft
  <1>5. /\ pc'[c] = "backoff" /\ timer'[c] = attempt[c] + 1 /\ attempt' = attempt
        /\ tried'[c] = tried[c] \cup {ip[c]} /\ UNCHANGED ctxLeft
        /\ MarkIPFailed(ip[c])
    BY <1>3, <1>4 DEF AttemptFails, Set, Inv, TypeOK, Procs
  <1>6. /\ sinceFailure'[ip[c]] = 0
        /\ \A i \in IPs : sinceFailure'[i] \in Nat /\ sinceFailure[i] \in Nat
                           /\ sinceFailure'[i] <= sinceFailure[i]
    BY <1>1, <1>5, PoolAssumption DEF MarkIPFailed, Inv, TypeOK, PoolTypeOK
  <1> DEFINE before == WorkLeft(c, Bad)
             after == WorkLeft(c, Bad)'
             rest == AttemptsTake(attempt[c] + 1)
  <1>7. /\ rest \in Nat
        /\ Timeout + MaxRetries + rest <= LongestCall /\ LongestCall \in Nat
    <2>1. /\ AttemptsTake(attempt[c]) = Timeout + MaxRetries + rest
          /\ AttemptsTake(attempt[c]) <= AttemptsTake(0)
      BY <1>3, <1>4, AttemptsTime
    <2>2. rest \in Nat /\ AttemptsTake(0) \in Nat
      BY <1>3, <1>4, AttemptsTime
    <2>3. FetchTakes(0) \in Nat
      <3>1. 0 \in 0 .. Len(Bootstraps)
        BY ClientAssumption
      <3> QED
        BY <3>1, FetchTime
    <2> HIDE DEF rest
    <2> QED
      BY <1>3, <2>1, <2>2, <2>3 DEF LongestCall
  <1>8. before = timer[c] + MaxRetries + rest /\ after = attempt[c] + 1 + rest
    BY <1>1, <1>2, <1>5, WorkAt DEF WorkLeft
  <1>9. /\ ctxLeft[c] = NoDeadline \/ (ctxLeft[c] \in Nat /\ before < ctxLeft[c])
        /\ \A i \in tried[c] : sinceFailure[i] + before <= CoolDown
        /\ tried[c] \subseteq Bad /\ Bad \subseteq IPs /\ LongestCall <= CoolDown
        /\ Cardinality(tried[c]) = attempt[c] /\ IsFiniteSet(tried[c])
    BY <1>1, FS_Subset DEF CallHealthy, Inv, TypeOK, Procs, Steady, Resting, Finished
  <1> HIDE DEF before, after, rest
  <1>10. ctxLeft[c] = NoDeadline \/ after < ctxLeft[c]
    BY <1>3, <1>4, <1>7, <1>8, <1>9
  <1>11. ASSUME NEW i \in tried'[c] PROVE sinceFailure'[i] + after <= CoolDown
    <2>1. CASE i = ip[c]
      BY <1>3, <1>4, <1>6, <1>7, <1>8, <1>9, <2>1
    <2>2. CASE i \in tried[c]
      BY <1>3, <1>4, <1>6, <1>7, <1>8, <1>9, <2>2
    <2> QED
      BY <1>5, <1>11, <2>1, <2>2
  <1>12. Cardinality(tried'[c]) = attempt[c] + 1
    BY <1>1, <1>5, <1>9, FS_AddElement, ZenonT(40)
  <1>13. CallHealthy(c, Bad, g)'
    BY <1>2, <1>3, <1>5, <1>9, <1>10, <1>11, <1>12 DEF CallHealthy, after
  <1> QED
    BY <1>2, <1>5, <1>13

LEMMA RetryHealthy ==
    ASSUME NEW Bad, NEW g, Steady(Bad, g), Inv, NEW c \in Calls, BackoffOver(c),
           CallHealthy(c, Bad, g)
    PROVE  CallHealthy(c, Bad, g)'
  <1>1. /\ pc[c] = "backoff" /\ timer[c] = 0 /\ pc'[c] = "build"
        /\ attempt'[c] = attempt[c] + 1 /\ UNCHANGED <<ctxLeft, sinceFailure, tried>>
    BY DEF BackoffOver, Set, poolVars, Inv, TypeOK, Procs
  <1>2. attempt[c] \in 0 .. MaxRetries /\ attempt[c] + 1 \in 0 .. MaxRetries /\ MaxRetries \in Nat
    BY <1>1, ClientAssumption DEF Inv, TypeOK, ControlOK, Procs
  <1>3. AttemptsTake(attempt[c] + 1) \in Nat
    BY <1>2, AttemptsTime
  <1>4. /\ WorkLeft(c, Bad)' = AttemptsTake(attempt[c] + 1)
        /\ WorkLeft(c, Bad) = 0 + AttemptsTake(attempt[c] + 1)
    BY <1>1, WorkAt DEF WorkLeft
  <1>5. /\ ctxLeft'[c] = NoDeadline \/ WorkLeft(c, Bad)' < ctxLeft'[c]
        /\ \A i \in tried'[c] : sinceFailure'[i] + WorkLeft(c, Bad)' <= CoolDown
    BY <1>1, <1>3, <1>4, Onward DEF Resting, Finished
  <1> HIDE DEF WorkLeft
  <1> QED
    BY <1>1, <1>2, <1>5 DEF CallHealthy

\* While every process waits, so does the call, and what it waits for comes
\* nearer by a tick.
LEMMA TickHealthy ==
    ASSUME NEW Bad, NEW g, Steady(Bad, g), Inv, NEW c \in Calls, Tick, CallHealthy(c, Bad, g)
    PROVE  CallHealthy(c, Bad, g)'
  <1>1. /\ attempt' = attempt /\ ep' = ep /\ ip' = ip /\ tried' = tried
        /\ timer'[c] = Elapse(timer[c]) /\ ctxLeft'[c] = Elapse(ctxLeft[c])
        /\ pc'[c] = IF pc[c] \in Finished THEN "idle" ELSE pc[c]
    BY DEF Tick, Procs
  <1>2. CASE pc[c] \in Resting
    <2>1. pc'[c] = "idle" /\ tried[c] = {}
      BY <1>1, <1>2 DEF Inv, ControlOK, Resting, Procs
    <2>2. attempt[c] = 0
      BY <1>2, <2>1, FS_EmptySet DEF CallHealthy, Resting, Finished
    <2> QED
      BY <1>1, <2>1, <2>2, FS_EmptySet DEF CallHealthy, Resting
  <1>3. CASE pc[c] \notin Resting
    <2>1. /\ MayWait(c) /\ pc'[c] = pc[c]
      BY <1>1, <1>3 DEF Tick, Resting, Procs
    <2>2. /\ timer[c] \in Nat \ {0} /\ timer'[c] = timer[c] - 1
          /\ attempt[c] \in 0 .. MaxRetries /\ MaxRetries \in Nat
          /\ ep[c] \in 1 .. Len(Bootstraps) /\ Timeout \in Nat
      BY <1>1, <2>1, ClientAssumption DEF MayWait, Elapse, Inv, TypeOK, Procs
    <2>3. \/ pc[c] = "fetch" /\ ep[c] # g
          \/ pc[c] = "send" /\ ip[c] \in Bad
          \/ pc[c] = "backoff"
      <3>1. pc[c] = "fetch" => "silent" \in Behaviour[Bootstraps[ep[c]]]
        BY <2>1 DEF MayWait, Peer
      <3>2. pc[c] = "send" => "silent" \in Behaviour[ip[c]] /\ ip[c] \in IPs
        BY <2>1 DEF MayWait, Peer, Inv, ControlOK, Procs
      <3> QED
        BY <2>1, <3>1, <3>2 DEF MayWait, Steady
    <2> DEFINE before == WorkLeft(c, Bad)
               after == WorkLeft(c, Bad)'
    <2>4. before \in Nat /\ after = before - 1
      <3>1. CASE pc[c] = "fetch"
        <4>1. /\ AttemptsTake(0) \in Nat /\ FetchTakes(ep[c]) \in Nat
          <5>1. 0 \in 0 .. MaxRetries /\ ep[c] \in 0 .. Len(Bootstraps)
            BY <2>2
          <5> QED
            BY <5>1, AttemptsTime, FetchTime
        <4>2. /\ before = timer[c] + FetchTakes(ep[c]) + AttemptsTake(0)
              /\ after = timer[c] - 1 + FetchTakes(ep[c]) + AttemptsTake(0)
          BY <1>1, <2>1, <2>2, <3>1, WorkAt DEF WorkLeft
        <4> QED
          BY <2>2, <4>1, <4>2
      <3>2. CASE pc[c] \in {"send", "backoff"}
        <4>1. AttemptsTake(attempt[c] + 1) \in Nat
          <5>1. attempt[c] < MaxRetries
            BY <2>3, <3>2, RetryLeft DEF CallHealthy, Inv, ControlOK, Procs
          <5> QED
            BY <2>2, <5>1, AttemptsTime, SMTT(30)
        <4>2. CASE pc[c] = "send"
          <5>1. /\ before = timer[c] + MaxRetries + AttemptsTake(attempt[c] + 1)
                /\ after = timer[c] - 1 + MaxRetries + AttemptsTake(attempt[c] + 1)
            BY <1>1, <2>1, <2>2, <2>3, <4>2, WorkAt DEF WorkLeft
          <5> QED
            BY <2>2, <4>1, <5>1
        <4>3. CASE pc[c] = "backoff"
          <5>1. /\ before = timer[c] + AttemptsTake(attempt[c] + 1)
                /\ after = timer[c] - 1 + AttemptsTake(attempt[c] + 1)
            BY <1>1, <2>1, <2>2, <4>3, WorkAt DEF WorkLeft
          <5> QED
            BY <2>2, <4>1, <5>1
        <4> QED
          BY <3>2, <4>2, <4>3
      <3> QED
        BY <2>3, <3>1, <3>2
    <2>5. /\ ctxLeft[c] = NoDeadline \/ (ctxLeft[c] \in Nat /\ before < ctxLeft[c])
          /\ \A i \in tried[c] : /\ sinceFailure[i] \in Nat /\ sinceFailure[i] + before <= CoolDown
                                /\ sinceFailure'[i] = Older(sinceFailure[i], CoolDown)
      BY <1>3, PoolAssumption
      DEF CallHealthy, Inv, TypeOK, PoolTypeOK, Procs, Steady, Tick, PoolTick
    <2> HIDE DEF before, after
    <2>6. ctxLeft'[c] = NoDeadline \/ after < ctxLeft'[c]
      BY <1>1, <2>4, <2>5, ClientAssumption DEF Elapse
    <2>7. \A i \in tried[c] : sinceFailure'[i] + after <= CoolDown
      BY <2>4, <2>5, PoolAssumption DEF Older
    <2>8. pc[c] = "send" => ip[c] \in Bad
      BY <2>3
    <2>9. pc[c] = "fetch" => ep[c] # g
      BY <2>3
    <2> QED
      BY <1>1, <1>3, <2>1, <2>2, <2>6, <2>7, <2>8, <2>9 DEF CallHealthy, after, Resting
  <1> QED
    BY <1>2, <1>3

\* A step of one process leaves every call but itself alone.
Only(p) ==
    \A c \in Calls \ {p} :
        /\ pc'[c] = pc[c] /\ ctxLeft'[c] = ctxLeft[c] /\ timer'[c] = timer[c]
        /\ attempt'[c] = attempt[c] /\ ep'[c] = ep[c] /\ ip'[c] = ip[c]
        /\ tried'[c] = tried[c]

LEMMA OneSteps ==
    ASSUME Inv, NEW p \in Procs,
           \/ \E d \in Deadlines : Begin(p, d) \/ BeginRefresh(p, d)
           \/ CallStep(p) \/ Step(p) \/ Cancel(p)
    PROVE  Only(p)
  <1> USE DEF Only, Set, Inv, TypeOK, Procs
  <1>1. ASSUME NEW d, Begin(p, d) PROVE Only(p)
    BY <1>1 DEF Begin
  <1>2. ASSUME NEW d, BeginRefresh(p, d) PROVE Only(p)
    BY <1>2 DEF BeginRefresh, AskBootstrap
  <1>3. ASSUME UpdateServiceIPsIfNeeded(p) PROVE Only(p)
    BY <1>3 DEF UpdateServiceIPsIfNeeded, AskBootstrap
  <1>4. ASSUME NEW ips, FetchAnswered(p, ips) PROVE Only(p)
    BY <1>4 DEF FetchAnswered, End
  <1>5. ASSUME FetchNext(p) PROVE Only(p)
    BY <1>5 DEF FetchNext, AskBootstrap, End
  <1>6. ASSUME NEW i, SendRequest(p, i) PROVE Only(p)
    BY <1>6 DEF SendRequest
  <1>7. ASSUME Succeed(p) \/ DecodeFails(p) \/ BackoffAborted(p) PROVE Only(p)
    BY <1>7 DEF Succeed, DecodeFails, BackoffAborted, End
  <1>8. ASSUME AttemptFails(p) PROVE Only(p)
    BY <1>8 DEF AttemptFails, End
  <1>9. ASSUME BackoffOver(p) PROVE Only(p)
    BY <1>9 DEF BackoffOver
  <1>10. ASSUME Cancel(p) PROVE Only(p)
    BY <1>10 DEF Cancel
  <1> QED
    BY <1>1, <1>2, <1>3, <1>4, <1>5, <1>6, <1>7, <1>8, <1>9, <1>10 DEF CallStep, Step

\* What a step other than a tick may do to the pool.
PoolSteps(Bad) ==
    \/ UNCHANGED <<serviceIPs, sinceFailure>>
    \/ \E ips \in ServiceLists : UpdateServiceIPs(ips)
    \/ \E i \in Bad : MarkIPFailed(i)

LEMMA PoolStaysHealthy ==
    ASSUME NEW Bad, NEW g, Steady(Bad, g), Inv, PoolHealthy(Bad), PoolSteps(Bad)
    PROVE  /\ PoolHealthy(Bad)'
           /\ \A i \in IPs : sinceFailure'[i] \in Nat /\ sinceFailure'[i] <= sinceFailure[i]
  <1>1. \A i \in IPs : sinceFailure[i] \in Nat
    BY PoolAssumption DEF Inv, TypeOK, PoolTypeOK
  <1>2. CASE UNCHANGED <<serviceIPs, sinceFailure>>
    BY <1>1, <1>2 DEF PoolHealthy, CoolingDown, IsEmpty, Listed
  <1>3. ASSUME NEW ips \in ServiceLists, UpdateServiceIPs(ips)
        PROVE  /\ PoolHealthy(Bad)' /\ UNCHANGED sinceFailure
    <2>1. ips # <<>> /\ ~(Range(ips) \subseteq Bad)
      BY ClientAssumption DEF Steady
    <2> QED
      BY <1>3, <2>1 DEF UpdateServiceIPs, PoolHealthy, CoolingDown, IsEmpty, Listed
  <1>4. ASSUME NEW i \in Bad, MarkIPFailed(i)
        PROVE  /\ PoolHealthy(Bad)'
               /\ \A j \in IPs : sinceFailure'[j] \in Nat /\ sinceFailure'[j] <= sinceFailure[j]
    <2>1. /\ i \in IPs /\ UNCHANGED serviceIPs
          /\ sinceFailure' = [sinceFailure EXCEPT ![i] = 0]
      BY <1>4 DEF MarkIPFailed, Steady
    <2>2. sinceFailure \in [IPs -> 0 .. CoolDown + 1]
      BY DEF Inv, TypeOK, PoolTypeOK
    <2>3. \A j \in IPs : sinceFailure'[j] = IF j = i THEN 0 ELSE sinceFailure[j]
      BY <2>1, <2>2
    <2> QED
      BY <1>1, <2>1, <2>3 DEF PoolHealthy, CoolingDown, IsEmpty, Listed
  <1> QED
    BY <1>1, <1>2, <1>3, <1>4 DEF PoolSteps

LEMMA CallStepHealthy ==
    ASSUME NEW Bad, NEW g, Steady(Bad, g), Inv, Healthy(Bad, g), NEW c \in Calls, CallStep(c)
    PROVE  CallHealthy(c, Bad, g)' /\ PoolSteps(Bad)
  <1>1. CallHealthy(c, Bad, g)
    BY DEF Healthy
  <1>2. CASE UpdateServiceIPsIfNeeded(c)
    BY <1>1, <1>2, CheckHealthy DEF UpdateServiceIPsIfNeeded, PoolSteps, poolVars
  <1>3. ASSUME NEW ips \in ServiceLists, FetchAnswered(c, ips)
        PROVE  CallHealthy(c, Bad, g)' /\ PoolSteps(Bad)
    BY <1>1, <1>3, AnswerHealthy DEF FetchAnswered, PoolSteps
  <1>4. CASE FetchNext(c)
    BY <1>1, <1>4, NextEndpointHealthy DEF FetchNext, PoolSteps, poolVars
  <1>5. ASSUME NEW i \in IPs, SendRequest(c, i)
        PROVE  CallHealthy(c, Bad, g)' /\ PoolSteps(Bad)
    BY <1>5, SendHealthy DEF SendRequest, GetAvailableIP, PoolSteps
  <1>6. CASE Succeed(c)
    BY <1>6, EndHealthy DEF Succeed, PoolSteps, poolVars
  <1>7. ASSUME DecodeFails(c) PROVE FALSE
    <2>1. pc[c] = "send" /\ ip[c] \in IPs /\ "garbled" \in Behaviour[ip[c]]
      BY <1>7 DEF DecodeFails, Answers, Peer, Inv, ControlOK, Procs
    <2> QED
      BY <2>1 DEF Steady
  <1>8. CASE AttemptFails(c)
    BY <1>1, <1>8, FailHealthy DEF PoolSteps
  <1>9. CASE BackoffOver(c)
    BY <1>1, <1>9, RetryHealthy DEF BackoffOver, PoolSteps, poolVars
  <1>10. ASSUME BackoffAborted(c) PROVE FALSE
    BY <1>1, <1>10, NotExpired DEF BackoffAborted, Resting, Finished
  <1> QED
    BY <1>2, <1>3, <1>4, <1>5, <1>6, <1>7, <1>8, <1>9, <1>10 DEF CallStep, Step

\* A step of p, if p is a call a healthy one, leaves all calls healthy.
LEMMA OthersHealthy ==
    ASSUME NEW Bad, NEW g, Steady(Bad, g), Inv, Healthy(Bad, g), NEW p \in Procs,
           Only(p), PoolSteps(Bad), p \in Calls => CallHealthy(p, Bad, g)'
    PROVE  Healthy(Bad, g)'
  <1>1. /\ PoolHealthy(Bad)'
        /\ \A i \in IPs : sinceFailure'[i] \in Nat /\ sinceFailure'[i] <= sinceFailure[i]
    BY PoolStaysHealthy DEF Healthy
  <1>2. ASSUME NEW c \in Calls PROVE CallHealthy(c, Bad, g)'
    <2>1. CASE c = p
      BY <2>1
    <2>2. CASE c # p
      BY <1>1, <2>2, LeftAlone DEF Only, Healthy
    <2> QED
      BY <2>1, <2>2
  <1> QED
    BY <1>1, <1>2 DEF Healthy

LEMMA NextHealthy ==
    ASSUME NEW Bad, NEW g, Steady(Bad, g), Inv, Healthy(Bad, g), [Next]_vars
    PROVE  Healthy(Bad, g)'
  <1>1. ASSUME NEW c \in Calls, NEW d \in Deadlines, Begin(c, d) PROVE Healthy(Bad, g)'
    <2>1. CallHealthy(c, Bad, g)'
      BY <1>1, BeginHealthy DEF Healthy
    <2>2. PoolSteps(Bad) /\ Only(c) /\ c \in Procs
      BY <1>1, OneSteps DEF Begin, PoolSteps, poolVars, Procs
    <2> QED
      BY <2>1, <2>2, OthersHealthy
  <1>2. ASSUME NEW r \in Refreshers, NEW d \in Deadlines, BeginRefresh(r, d)
        PROVE  Healthy(Bad, g)'
    <2>1. PoolSteps(Bad) /\ Only(r) /\ r \in Procs /\ r \notin Calls
      BY <1>2, OneSteps, ClientAssumption DEF BeginRefresh, PoolSteps, poolVars, Procs
    <2> QED
      BY <2>1, OthersHealthy
  <1>3. ASSUME NEW c \in Calls, CallStep(c) PROVE Healthy(Bad, g)'
    <2>1. Only(c) /\ c \in Procs
      BY <1>3, OneSteps DEF Procs
    <2> QED
      BY <1>3, <2>1, CallStepHealthy, OthersHealthy
  <1>4. ASSUME NEW r \in Refreshers, Step(r) PROVE Healthy(Bad, g)'
    <2>1. Only(r) /\ r \in Procs /\ r \notin Calls
      BY <1>4, OneSteps, ClientAssumption DEF Procs
    <2>2. PoolSteps(Bad)
      BY <1>4 DEF Step, FetchAnswered, FetchNext, PoolSteps, poolVars
    <2> QED
      BY <2>1, <2>2, OthersHealthy
  <1>5. ASSUME NEW p \in Cancellable, Cancel(p) PROVE Healthy(Bad, g)'
    <2>1. p \in Procs /\ p \notin Calls
      BY ClientAssumption DEF Steady
    <2>2. Only(p) /\ PoolSteps(Bad)
      BY <1>5, <2>1, OneSteps DEF Cancel, PoolSteps, poolVars
    <2> QED
      BY <2>1, <2>2, OthersHealthy
  <1>6. CASE Tick
    <2>1. \A c \in Calls : CallHealthy(c, Bad, g)'
      BY <1>6, TickHealthy DEF Healthy
    <2>2. PoolHealthy(Bad)'
      <3>1. \A i \in IPs : /\ sinceFailure[i] \in 0 .. CoolDown + 1
                          /\ sinceFailure'[i] = Older(sinceFailure[i], CoolDown)
        BY <1>6 DEF Tick, PoolTick, Inv, TypeOK, PoolTypeOK
      <3> QED
        BY <1>6, <3>1, PoolAssumption
        DEF Tick, PoolTick, Older, Healthy, PoolHealthy, CoolingDown, IsEmpty, Listed
    <2> QED
      BY <2>1, <2>2 DEF Healthy
  <1>7. CASE UNCHANGED vars
    <2>1. PoolHealthy(Bad)'
      BY <1>7, PoolStaysHealthy DEF vars, poolVars, PoolSteps, Healthy
    <2>2. ASSUME NEW c \in Calls PROVE CallHealthy(c, Bad, g)'
      <3>1. \A i \in IPs : sinceFailure'[i] \in Nat /\ sinceFailure'[i] <= sinceFailure[i]
        BY <1>7, PoolStaysHealthy DEF vars, poolVars, PoolSteps, Healthy
      <3>2. CallHealthy(c, Bad, g) /\ UNCHANGED procVars
        BY <1>7 DEF Healthy, vars
      <3> QED
        BY <3>1, <3>2, LeftAlone DEF procVars
    <2> QED
      BY <2>1, <2>2 DEF Healthy
  <1> QED
    BY <1>1, <1>2, <1>3, <1>4, <1>5, <1>6, <1>7 DEF Next

\* No call fails in a steady network: with any number of calls and refreshes
\* interleaved, as long as no more service IPs are bad than a call may retry
\* (DoRequest), no more endpoints are asked than its deadline has time for, and
\* IPs cool down for longer than it runs.
THEOREM NoneFails ==
    ASSUME NEW CONSTANT Bad, NEW CONSTANT g, Steady(Bad, g)
    PROVE  Spec => []NoCallFails
  <1>1. Init => Healthy(Bad, g)
    <2> SUFFICES ASSUME Init PROVE Healthy(Bad, g)
      OBVIOUS
    <2>1. PoolHealthy(Bad)
      BY PoolAssumption
      DEF Init, NewServiceIPManager, PoolHealthy, CoolingDown, IsEmpty, Listed, Steady
    <2>2. ASSUME NEW c \in Calls PROVE CallHealthy(c, Bad, g)
      BY FS_EmptySet DEF Init, CallHealthy, Resting, Procs
    <2> QED
      BY <2>1, <2>2 DEF Healthy
  <1>2. Inv /\ Healthy(Bad, g) /\ [Next]_vars => Healthy(Bad, g)'
    BY NextHealthy
  <1>3. Healthy(Bad, g) => NoCallFails
    BY DEF Healthy, CallHealthy, NoCallFails
  <1> QED
    BY <1>1, <1>2, <1>3, Invariance, PTL DEF Spec
=============================================================================
