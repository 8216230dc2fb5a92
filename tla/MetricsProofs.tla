----------------------------- MODULE MetricsProofs -----------------------------
(***************************************************************************)
(* Proofs about Metrics, for any number of callers and calls, and any      *)
(* latencies.                                                              *)
(***************************************************************************)
EXTENDS Metrics, FiniteSetTheorems, TLAPS

-----------------------------------------------------------------------------
\* Arithmetic: a sum of n numbers lies between n times the least and n times
\* the greatest of them, and their average between the two.

LEMMA TimesMonotone ==
    ASSUME NEW n \in Nat, NEW x \in Nat, NEW y \in Nat, x <= y
    PROVE  n * x <= n * y
  BY Z3

LEMMA Distribute ==
    ASSUME NEW n \in Nat, NEW x \in Nat
    PROVE  (n + 1) * x = n * x + x
  BY Z3

LEMMA TimesNat ==
    ASSUME NEW n \in Nat, NEW x \in Nat
    PROVE  n * x \in Nat
  BY Z3

\* One more number: the sum, at least p (n times the least), grows by l, and
\* p grows by at most l when the least m' (q = n m') is no more than l.
LEMMA OneMore ==
    ASSUME NEW p \in Nat, NEW q \in Nat, NEW t \in Nat, NEW l \in Nat, NEW x \in Nat
    PROVE  /\ q <= p /\ p <= t /\ x <= l => q + x <= t + l
           /\ p <= q /\ t <= p /\ l <= x => t + l <= q + x
  BY Z3

LEMMA Average ==
    ASSUME NEW n \in Nat \ {0}, NEW sum \in Nat, NEW lo \in Nat, NEW hi \in Nat,
           n * lo <= sum, sum <= n * hi
    PROVE  lo <= sum \div n /\ sum \div n <= hi
  BY Z3

-----------------------------------------------------------------------------
\* The inductive invariant.

\* The sum lies between as many times the least and the greatest latency.
SumInRange ==
    TotalResolves > 0 =>
        /\ TotalResolves * MinLatency <= TotalLatency
        /\ TotalLatency <= TotalResolves * MaxLatency

Inv ==
    /\ TypeOK
    /\ SumInRange
    /\ TotalResolves = 0 => TotalLatency = 0
    /\ CountsAddUp

\* One more call is recorded: its latency moves sum and extremes together.
LEMMA LatencyRecorded ==
    ASSUME Inv, NEW l \in Latencies, RecordLatency(l), TotalResolves' = TotalResolves + 1
    PROVE  /\ TotalLatency' \in Nat
           /\ MinLatency' \in Latencies \cup {Never}
           /\ MaxLatency' \in Latencies \cup {0}
           /\ SumInRange'
  <1> DEFINE n == TotalResolves
  <1>1. n \in Nat /\ l \in Nat /\ l <= Never /\ TotalLatency \in Nat
        /\ MinLatency \in Nat /\ MaxLatency \in Nat
    BY MetricsAssumption DEF Inv, TypeOK
  <1>2. /\ MinLatency' \in Nat /\ MinLatency' <= MinLatency /\ MinLatency' <= l
        /\ MaxLatency' \in Nat /\ MaxLatency <= MaxLatency' /\ l <= MaxLatency'
        /\ TotalLatency' = TotalLatency + l
    BY <1>1 DEF RecordLatency
  <1>3. n * MinLatency <= TotalLatency /\ TotalLatency <= n * MaxLatency
    <2>1. CASE n = 0
      BY <1>1, <2>1 DEF Inv
    <2>2. CASE n > 0
      BY <1>1, <2>2 DEF Inv, SumInRange
    <2> QED
      BY <1>1, <2>1, <2>2
  <1>4. n * MinLatency' <= n * MinLatency /\ n * MaxLatency <= n * MaxLatency'
    BY <1>1, <1>2, TimesMonotone
  <1>5. (n + 1) * MinLatency' = n * MinLatency' + MinLatency'
        /\ (n + 1) * MaxLatency' = n * MaxLatency' + MaxLatency'
    BY <1>1, <1>2, Distribute
  <1>6. /\ n * MinLatency \in Nat /\ n * MaxLatency \in Nat
        /\ n * MinLatency' \in Nat /\ n * MaxLatency' \in Nat
    BY <1>1, <1>2, TimesNat
  <1>7. (n + 1) * MinLatency' <= TotalLatency' /\ TotalLatency' <= (n + 1) * MaxLatency'
    <2>1. n * MinLatency' + MinLatency' <= TotalLatency + l
      BY <1>1, <1>2, <1>3, <1>4, <1>6, OneMore
    <2>2. TotalLatency + l <= n * MaxLatency' + MaxLatency'
      BY <1>1, <1>2, <1>3, <1>4, <1>6, OneMore
    <2> QED
      BY <1>2, <1>5, <2>1, <2>2
  <1>8. SumInRange'
    BY <1>7 DEF SumInRange
  <1> QED
    BY <1>1, <1>2, <1>8 DEF RecordLatency, Inv, TypeOK

\* The callers between their two records are finitely many, and one enters
\* or leaves at a time.
LEMMA FailingMoves ==
    ASSUME TypeOK, NEW c \in Callers, NEW label \in {"idle", "running", "failing"},
           pc' = [pc EXCEPT ![c] = label]
    PROVE  /\ Cardinality(Failing) \in Nat
           /\ label = "failing" /\ pc[c] # "failing"
                => Cardinality(Failing') = Cardinality(Failing) + 1
           /\ label # "failing" /\ pc[c] # "failing" => Failing' = Failing
           /\ label # "failing" /\ pc[c] = "failing"
                => Cardinality(Failing') = Cardinality(Failing) - 1
  <1>1. IsFiniteSet(Failing)
    BY MetricsAssumption, FS_Subset DEF Failing
  <1>2. Cardinality(Failing) \in Nat
    BY <1>1, FS_CardinalityType
  <1>3. ASSUME label = "failing", pc[c] # "failing"
        PROVE  Cardinality(Failing') = Cardinality(Failing) + 1
    <2>1. Failing' = Failing \cup {c} /\ c \notin Failing
      BY <1>3 DEF Failing, TypeOK
    <2> QED
      BY <1>1, <2>1, FS_AddElement
  <1>4. ASSUME label # "failing", pc[c] # "failing"
        PROVE  Failing' = Failing
    BY <1>4 DEF Failing, TypeOK
  <1>5. ASSUME label # "failing", pc[c] = "failing"
        PROVE  Cardinality(Failing') = Cardinality(Failing) - 1
    <2>1. Failing' = Failing \ {c} /\ c \in Failing
      BY <1>5 DEF Failing, TypeOK
    <2> QED
      BY <1>1, <2>1, FS_RemoveElement
  <1> QED
    BY <1>2, <1>3, <1>4, <1>5

LEMMA InitOK == Init => Inv
  <1> SUFFICES ASSUME Init PROVE Inv
    OBVIOUS
  <1>1. TypeOK
    BY DEF Init, NewMetrics, TypeOK
  <1>2. Failing = {}
    BY DEF Init, Failing
  <1>3. Cardinality(Failing) = 0
    BY <1>2, FS_EmptySet
  <1> QED
    BY <1>1, <1>3 DEF Init, NewMetrics, Inv, SumInRange, CountsAddUp

LEMMA NextOK == Inv /\ [Next]_vars => Inv'
  <1> SUFFICES ASSUME Inv, [Next]_vars PROVE Inv'
    OBVIOUS
  <1> USE DEF Inv
  <1>1. ASSUME NEW c \in Callers, Begin(c) PROVE Inv'
    <2>1. Failing' = Failing /\ pc' \in [Callers -> {"idle", "running", "failing"}]
      BY <1>1, FailingMoves DEF Begin, TypeOK
    <2> QED
      BY <1>1, <2>1
      DEF Begin, TypeOK, SumInRange, CountsAddUp, counts, latencies, history
  <1>2. ASSUME NEW c \in Callers, FailUnrecorded(c) PROVE Inv'
    <2>1. Failing' = Failing /\ pc' \in [Callers -> {"idle", "running", "failing"}]
      BY <1>2, FailingMoves DEF FailUnrecorded, TypeOK
    <2> QED
      BY <1>2, <2>1
      DEF FailUnrecorded, TypeOK, SumInRange, CountsAddUp, counts, latencies
  <1>3. ASSUME NEW c \in Callers, RecordError(c) PROVE Inv'
    <2>1. Cardinality(Failing') = Cardinality(Failing) + 1 /\ Cardinality(Failing) \in Nat
      BY <1>3, FailingMoves DEF RecordError, TypeOK
    <2>2. pc' \in [Callers -> {"idle", "running", "failing"}]
      BY <1>3 DEF RecordError, TypeOK
    <2> QED
      BY <1>3, <2>1, <2>2
      DEF RecordError, TypeOK, SumInRange, CountsAddUp, counts, latencies, history
  <1>4. ASSUME NEW c \in Callers, NEW l \in Latencies, Succeed(c, l) PROVE Inv'
    <2>1. Failing' = Failing /\ pc' \in [Callers -> {"idle", "running", "failing"}]
          /\ Cardinality(Failing) \in Nat
      BY <1>4, FailingMoves DEF Succeed, TypeOK
    <2>2. /\ TotalResolves' = TotalResolves + 1 /\ SuccessResolves' = SuccessResolves + 1
          /\ FailedResolves' = FailedResolves /\ RecordLatency(l)
      BY <1>4 DEF Succeed, RecordResolve, TypeOK
    <2>3. /\ TotalLatency' \in Nat
          /\ MinLatency' \in Latencies \cup {Never}
          /\ MaxLatency' \in Latencies \cup {0}
          /\ SumInRange'
      BY <2>2, LatencyRecorded
    <2> QED
      BY <1>4, <2>1, <2>2, <2>3 DEF Succeed, TypeOK, CountsAddUp
  <1>5. ASSUME NEW c \in Callers, NEW l \in Latencies, Fail(c, l) PROVE Inv'
    <2>1. Cardinality(Failing') = Cardinality(Failing) - 1 /\ Cardinality(Failing) \in Nat
      BY <1>5, FailingMoves DEF Fail, TypeOK
    <2>2. pc' \in [Callers -> {"idle", "running", "failing"}]
      BY <1>5 DEF Fail, TypeOK
    <2>3. /\ TotalResolves' = TotalResolves + 1 /\ SuccessResolves' = SuccessResolves
          /\ FailedResolves' = FailedResolves + 1 /\ RecordLatency(l)
      BY <1>5 DEF Fail, RecordResolve, TypeOK
    <2>4. /\ TotalLatency' \in Nat
          /\ MinLatency' \in Latencies \cup {Never}
          /\ MaxLatency' \in Latencies \cup {0}
          /\ SumInRange'
      BY <2>3, LatencyRecorded
    <2> QED
      BY <1>5, <2>1, <2>2, <2>3, <2>4 DEF Fail, TypeOK, CountsAddUp
  <1>6. CASE Reset
    <2>1. Cardinality(Failing') \in Nat
      <3>1. IsFiniteSet(Failing')
        BY MetricsAssumption, FS_Subset DEF Failing
      <3> QED
        BY <3>1, FS_CardinalityType
    <2> QED
      BY <1>6, <2>1 DEF Reset, TypeOK, SumInRange, CountsAddUp
  <1>7. CASE UNCHANGED vars
    BY <1>7 DEF vars, counts, latencies, history, TypeOK, SumInRange, CountsAddUp, Failing
  <1> QED
    BY <1>1, <1>2, <1>3, <1>4, <1>5, <1>6, <1>7 DEF Next

LEMMA Invariance == Spec => []Inv
  BY InitOK, NextOK, PTL DEF Spec

-----------------------------------------------------------------------------

\* Type correctness of the counters.
THEOREM TypeCorrect == Spec => []TypeOK
  <1>1. Inv => TypeOK
    BY DEF Inv
  <1> QED
    BY <1>1, Invariance, PTL

\* For any number of concurrent calls and Resets, the average GetStats
\* computes lies between the extremes it reports.
THEOREM AverageBetweenExtremes == Spec => []AverageInRange
  <1>1. Inv => AverageInRange
    <2> SUFFICES ASSUME Inv, TotalResolves > 0
                 PROVE  MinLatency <= AvgLatency /\ AvgLatency <= MaxLatency
      BY DEF AverageInRange
    <2>1. /\ TotalResolves \in Nat \ {0} /\ TotalLatency \in Nat
          /\ MinLatency \in Nat /\ MaxLatency \in Nat
      BY MetricsAssumption DEF Inv, TypeOK
    <2>2. TotalResolves * MinLatency <= TotalLatency /\ TotalLatency <= TotalResolves * MaxLatency
      BY DEF Inv, SumInRange
    <2> QED
      BY <2>1, <2>2, Average DEF AvgLatency
  <1> QED
    BY <1>1, Invariance, PTL

\* The counters add up at every moment, between the two records of a failed
\* call and after a Reset too.
THEOREM CountsAlwaysAddUp == Spec => []CountsAddUp
  <1>1. Inv => CountsAddUp
    BY DEF Inv
  <1> QED
    BY <1>1, Invariance, PTL
=============================================================================
