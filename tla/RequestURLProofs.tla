---------------------------- MODULE RequestURLProofs ----------------------------
(***************************************************************************)
(* Proofs about RequestURL, for any requests, configurations, clocks and   *)
(* network.                                                                *)
(***************************************************************************)
EXTENDS RequestURL, SequenceTheorems, TLAPS

\* A quotient is as large as that of any smaller dividend.
LEMMA QuotientMonotone ==
    ASSUME NEW a \in Int, NEW b \in Int, a <= b,
           NEW d \in Nat \ {0}
    PROVE  a \div d <= b \div d
  OBVIOUS

\* A part of a sequence, element by element.
LEMMA PartOf ==
    ASSUME NEW S, NEW s \in Seq(S), NEW t \in Seq(S),
           NEW m \in 1 .. Len(s), NEW n \in m .. Len(s),
           Len(t) = n - m + 1, \A i \in 1 .. Len(t) : t[i] = s[m + i - 1]
    PROVE  SubSeq(s, m, n) = t
  <1> DEFINE part == SubSeq(s, m, n)
  <1>1. /\ part \in Seq(S) /\ Len(part) = n - m + 1
        /\ \A i \in 1 .. n - m + 1 : part[i] = s[m + i - 1]
    BY SubSeqProperties
  <1> HIDE DEF part
  <1>2. \A i \in 1 .. Len(part) : part[i] = t[i]
    BY <1>1
  <1>3. part = t
    BY <1>1, <1>2, SeqEqual
  <1> QED
    BY <1>3 DEF part

\* What the client reads back from a URL is the host it put there.
LEMMA ReadBack ==
    ASSUME NEW serviceIP \in ServiceIPs, NEW r
    PROVE  extractServiceIPFromURL(BuildResolveURL(serviceIP, r)) = <<serviceIP>>
  <1> DEFINE base == BuildResolveURL(serviceIP, r).base
             rest == <<serviceIP, "/", Account, "/", Resource(r)>>
             first == <<serviceIP>>
             pieces == {"http:", "https:", "/", serviceIP, Account, Resource(r)}
  <1>1. base = <<IF config.EnableHTTPS THEN "https:" ELSE "http:", "/", "/", serviceIP,
                "/", Account, "/", Resource(r)>>
    BY DEF BuildResolveURL
  <1>2. base \in Seq(pieces) /\ Len(base) = 8
    BY <1>1
  <1>3. rest \in Seq(pieces) /\ Len(rest) = 5
    OBVIOUS
  <1>4. \A i \in 1 .. 5 : rest[i] = base[4 + i - 1]
    BY <1>1
  <1>5. \A scheme : IsPrefix(<<scheme, "/", "/">>, base) <=> base[1] = scheme
    BY <1>1 DEF IsPrefix
  <1>6. base[1] \in {"http:", "https:"}
    BY <1>1
  <1>7. FirstSlash(rest) = 2
    BY URLAssumption DEF FirstSlash, SelectInSeq, Min
  <1>8. first \in Seq(pieces) /\ Len(first) = 1
    OBVIOUS
  <1>9. \A i \in 1 .. 1 : first[i] = rest[1 + i - 1]
    OBVIOUS
  <1> HIDE DEF base, rest, first, pieces
  <1>10. SubSeq(base, 4, Len(base)) = rest
    BY <1>2, <1>3, <1>4, PartOf
  <1>11. SubSeq(rest, 1, 1) = first
    BY <1>3, <1>8, <1>9, PartOf
  <1>12. UpToSlash(rest) = first
    BY <1>7, <1>11 DEF UpToSlash
  <1> QED
    BY <1>5, <1>6, <1>10, <1>12 DEF extractServiceIPFromURL, TrimScheme, base, first
-----------------------------------------------------------------------------

\* An attempt can be told and dated from its URL: it went to the IP in it, and
\* a signature in it is good from the time it was sent on.
Dated ==
    /\ asked = extractServiceIPFromURL(url)
    /\ "s" \in DOMAIN url.params =>
           /\ url.params["t"] = (sentAt + config.SignatureExpireTime) \div Second
           /\ url.params["s"] = generateSignature(url.params["host"], url.params["t"])

Inv ==
    /\ TypeOK
    /\ skew \in Skew
    /\ pc = "backoff" => attempt < config.MaxRetries
    /\ pc \notin {"idle", "build"} => Dated
    /\ AcceptedInTime
    /\ MarksWhoFailed

\* The URL of an attempt, just built, says what URLOfAttempt wants of it.
LEMMA Built ==
    ASSUME NEW serviceIP \in ServiceIPs, NEW r
    PROVE  LET u == BuildResolveURL(serviceIP, r)
           IN  /\ Host(u) = serviceIP
               /\ "s" \in DOMAIN u.params =>
                     /\ u.params["t"] = Timestamp
                     /\ u.params["s"] = generateSignature(u.params["host"], u.params["t"])
  BY DEF BuildResolveURL, GenerateSignature, Params, Host

LEMMA InitOK == Init => Inv
  BY URLAssumption DEF Init, Idle, Validate, Inv, TypeOK, AcceptedInTime, MarksWhoFailed

LEMMA NextOK == Inv /\ [Next]_vars => Inv'
  <1> SUFFICES ASSUME Inv, [Next]_vars PROVE Inv'
    OBVIOUS
  <1> USE DEF Inv, TypeOK, AcceptedInTime, MarksWhoFailed
  <1>0. UNCHANGED <<config, url, sentAt, asked>> => (Dated' <=> Dated)
    BY DEF Dated, extractServiceIPFromURL, generateSignature
  <1>1. ASSUME NEW r \in Requests, Resolve(r) PROVE Inv'
    BY <1>1 DEF Resolve
  <1>2. ASSUME NEW serviceIP \in ServiceIPs, SendRequest(serviceIP) PROVE Inv'
    <2>1. url' = BuildResolveURL(serviceIP, request) /\ asked' = <<Host(url')>>
      BY <1>2 DEF SendRequest
    <2>2. asked' = <<serviceIP>> /\ extractServiceIPFromURL(url') = <<serviceIP>>
      BY <2>1, ReadBack, Built
    <2>3. "s" \in DOMAIN url'.params =>
               /\ url'.params["t"] = (sentAt' + config'.SignatureExpireTime) \div Second
               /\ url'.params["s"] = generateSignature(url'.params["host"], url'.params["t"])
      BY <1>2, <2>1, Built DEF SendRequest, Timestamp
    <2>4. Dated'
      BY <2>2, <2>3 DEF Dated, extractServiceIPFromURL, generateSignature
    <2> QED
      BY <1>2, <2>2, <2>4 DEF SendRequest
  <1>3. CASE Arrives
    <2>1. ASSUME ~Accepts(url) PROVE now + skew > sentAt + config.SignatureExpireTime
      <3> DEFINE arrival == now + skew
                 end == sentAt + config.SignatureExpireTime
      <3>1. arrival \in Int /\ end \in Int
        BY URLAssumption
      <3>2. ~(arrival \div Second <= end \div Second)
        BY <1>3, <2>1 DEF Arrives, Accepts, Dated
      <3> HIDE DEF arrival, end
      <3>3. ~(arrival <= end)
        BY <3>1, <3>2, QuotientMonotone, URLAssumption
      <3> QED
        BY <3>1, <3>3 DEF arrival, end
    <2> QED
      BY <1>0, <1>3, <2>1 DEF Arrives, callVars
  <1>4. CASE RequestFails
    BY <1>0, <1>4 DEF RequestFails, callVars
  <1>5. CASE AttemptFails
    <2>1. UNCHANGED <<config, skew, now, request>>
      BY <1>5 DEF AttemptFails, End
    <2>2. CASE pc' = "backoff"
      <3>1. /\ attempt < config.MaxRetries /\ marked' = extractServiceIPFromURL(url)
            /\ until' = now + (attempt + 1) * Second
            /\ UNCHANGED <<attempt, url, sentAt, asked>> /\ pc \in {"failing", "refused"}
        BY <1>5, <2>2 DEF AttemptFails, End
      <3>2. marked' = asked
        BY <3>1 DEF Dated
      <3>3. until' \in Nat
        BY <2>1, <3>1, URLAssumption
      <3> QED
        BY <1>0, <2>1, <2>2, <3>1, <3>2, <3>3
    <2>3. CASE pc' # "backoff"
      BY <1>5, <2>1, <2>3 DEF AttemptFails, End
    <2> QED
      BY <2>2, <2>3
  <1>6. CASE BackoffOver
    BY <1>6 DEF BackoffOver
  <1>7. CASE Return
    BY <1>7 DEF Return, End
  <1>8. CASE Tick
    BY <1>0, <1>8, URLAssumption DEF Tick, callVars
  <1>9. CASE UNCHANGED vars
    BY <1>0, <1>9 DEF vars, callVars
  <1> QED
    BY <1>1, <1>2, <1>3, <1>4, <1>5, <1>6, <1>7, <1>8, <1>9 DEF Next

LEMMA Invariance == Spec => []Inv
  BY InitOK, NextOK, PTL DEF Spec

\* Type correctness, with no more attempts than configured (SendRequest's loop).
THEOREM TypeCorrect == Spec => []TypeOK
  <1>1. Inv => TypeOK
    BY DEF Inv
  <1> QED
    BY <1>1, Invariance, PTL

\* A signature is good for the time it was configured to be (auth.go,
\* GenerateSignature), whatever the request, the attempt and the clocks.
THEOREM SignatureGoodInTime == Spec => []AcceptedInTime
  <1>1. Inv => AcceptedInTime
    BY DEF Inv
  <1> QED
    BY <1>1, Invariance, PTL

\* extractServiceIPFromURL finds the IP that was asked (network.go).
THEOREM FailedIPMarked == Spec => []MarksWhoFailed
  <1>1. Inv => MarksWhoFailed
    BY DEF Inv
  <1> QED
    BY <1>1, Invariance, PTL
=============================================================================
