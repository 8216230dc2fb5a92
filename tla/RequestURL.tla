------------------------------ MODULE RequestURL ------------------------------
(***************************************************************************)
(* What a request says and when it was dated (pkg/httpdns/network.go,      *)
(* auth.go, config.go): the URL a call builds for each attempt, the        *)
(* signature in it, which is good until a time the client computes, and    *)
(* the service IP read back from the URL when the attempt has failed.      *)
(* Calls share nothing of this, so there is one.  HTTPDNSClient has what   *)
(* they do share: the pool the IPs come from, deadlines, other endpoints.  *)
(*                                                                         *)
(* Text is abstracted to its pieces: up to the "?" a URL is the sequence   *)
(* of its parts and slashes, after it a function from parameter names.  A  *)
(* list of hosts is a sequence, not joined by commas, and a hash is the    *)
(* tuple of what is hashed.  Times are ticks, Second of them to a second.  *)
(***************************************************************************)
EXTENDS Integers, Sequences, SequencesExt

CONSTANTS
    ServiceIPs,
    Requests,       \* what the application asks for
    NoClientIP,     \* the empty string in ResolveOptions.ClientIP
    Account, Secret,
    ExpireTimes,    \* values the application may give for SignatureExpireTime,
    Retries,        \* and for MaxRetries
    DefaultExpireTime,
    Timeout,        \* the limit of one request
    Skew,           \* how far the server's clock may be ahead of the client's
    Second,
    MaxTime         \* bound: where the clock stops

ASSUME URLAssumption ==
    /\ \A r \in Requests : r.kind \in {"single", "batch"} /\ r.hosts # <<>>
    /\ ExpireTimes \subseteq Int /\ Retries \subseteq Int
    /\ DefaultExpireTime \in Nat \ {0}
    /\ Timeout \in Nat \ {0} /\ Second \in Nat \ {0}
    /\ Skew \subseteq Nat
    /\ "/" \notin ServiceIPs
    /\ MaxTime \in Nat

VARIABLES
    config,     \* of the client, from NewClient on
    skew,       \* of this server
    now,
    pc,
    request,    \* what the call was asked for
    attempt,
    url,        \* of the attempt under way
    sentAt,     \* when it was sent,
    asked,      \* and to whom
    until,      \* the end of the back-off
    marked      \* the service IP the last failed attempt marked

callVars == <<request, attempt, url, sentAt, asked, until, marked>>
vars == <<config, skew, now, pc, callVars>>

NoURL == [base |-> <<>>, params |-> <<>>]

-----------------------------------------------------------------------------

\* The fields of the configuration a URL depends on: values that make no
\* sense are replaced by the defaults.
Validate(c) ==
    [c EXCEPT !.MaxRetries = IF @ < 0 THEN 0 ELSE @,
              !.SignatureExpireTime = IF @ <= 0 THEN DefaultExpireTime ELSE @]

generateSignature(hosts, timestamp) == <<hosts, Secret, timestamp>>

\* In whole seconds, as Unix() cuts off the rest.
Timestamp == (now + config.SignatureExpireTime) \div Second

GenerateSignature(hosts) ==
    [t |-> Timestamp, s |-> generateSignature(hosts, Timestamp)]

\* The resource asks for a signature to be checked.
Resource(r) ==
    IF r.kind = "single" THEN IF config.auth THEN "sign_d" ELSE "d"
    ELSE IF config.auth THEN "sign_resolve" ELSE "resolve"

\* Only a single query names the type of the records it wants.
Params(r) ==
    {"host"} \cup (IF r.kind = "single" THEN {"query"} ELSE {})
             \cup (IF r.clientIP = NoClientIP THEN {} ELSE {"ip"})
             \cup (IF config.auth THEN {"t", "s"} ELSE {})

BuildResolveURL(serviceIP, r) ==
    [base |-> <<IF config.EnableHTTPS THEN "https:" ELSE "http:", "/", "/", serviceIP,
                "/", Account, "/", Resource(r)>>,
     params |-> [p \in Params(r) |->
                    CASE p = "host" -> r.hosts
                      [] p = "query" -> r.query
                      [] p = "ip" -> r.clientIP
                      [] p \in {"t", "s"} -> GenerateSignature(r.hosts)[p]]]

\* The host of a URL, as net/url has it.
Host(u) == u.base[4]

\* What is left of text after the prefix a scheme and two slashes make.
TrimScheme(text, scheme) ==
    IF IsPrefix(<<scheme, "/", "/">>, text) THEN SubSeq(text, 4, Len(text)) ELSE text

\* Zero if there is none.
FirstSlash(text) == SelectInSeq(text, LAMBDA piece : piece = "/")

UpToSlash(text) ==
    IF FirstSlash(text) = 0 THEN text ELSE SubSeq(text, 1, FirstSlash(text) - 1)

\* Mutant of extractServiceIPFromURL: URLs are taken for http.
ExtractFromHTTP(u) == UpToSlash(TrimScheme(u.base, "http:"))

\* The pieces before the first slash, the scheme left out.
extractServiceIPFromURL(u) ==
    UpToSlash(IF IsPrefix(<<"http:", "/", "/">>, u.base)
              THEN TrimScheme(u.base, "http:")
              ELSE TrimScheme(u.base, "https:"))

-----------------------------------------------------------------------------

\* No call is under way.
Idle ==
    /\ pc = "idle"
    /\ attempt = 0
    /\ url = NoURL /\ sentAt = 0 /\ asked = <<>> /\ until = 0 /\ marked = <<>>

Init ==
    /\ \E https, auth \in BOOLEAN, n \in Retries, d \in ExpireTimes :
          config = Validate([EnableHTTPS |-> https, auth |-> auth,
                             MaxRetries |-> n, SignatureExpireTime |-> d])
    /\ skew \in Skew
    /\ now = 0
    /\ request \in Requests
    /\ Idle

Resolve(r) ==
    /\ pc = "idle"
    /\ pc' = "build"
    /\ request' = r
    /\ UNCHANGED <<config, skew, now, attempt, url, sentAt, asked, until, marked>>

\* The call returns, with an answer or an error, and forgets its locals.
End ==
    /\ pc' = "idle"
    /\ attempt' = 0
    /\ url' = NoURL /\ sentAt' = 0 /\ asked' = <<>> /\ until' = 0 /\ marked' = <<>>
    /\ UNCHANGED request

\* Mutant of SendRequest: the URL is built once and only its host changes.
SendSameURL(serviceIP) ==
    /\ pc = "build"
    /\ pc' = "sent"
    /\ url' = IF attempt = 0 THEN BuildResolveURL(serviceIP, request)
              ELSE [url EXCEPT !.base[4] = serviceIP]
    /\ sentAt' = now
    /\ asked' = <<Host(url')>>
    /\ UNCHANGED <<config, skew, now, request, attempt, until, marked>>

\* buildURL and DoRequest; any IP of the pool may be the one to ask.
SendRequest(serviceIP) ==
    /\ pc = "build"
    /\ pc' = "sent"
    /\ url' = BuildResolveURL(serviceIP, request)
    /\ sentAt' = now
    /\ asked' = <<Host(url')>>
    /\ UNCHANGED <<config, skew, now, request, attempt, until, marked>>

\* The server signs what it reads and compares, and looks at its clock.
Accepts(u) ==
    "s" \in DOMAIN u.params =>
        /\ u.params["s"] = generateSignature(u.params["host"], u.params["t"])
        /\ (now + skew) \div Second <= u.params["t"]

\* The request reaches the server, at any time before the client gives up.
Arrives ==
    /\ pc = "sent"
    /\ pc' = IF Accepts(url) THEN "ok" ELSE "refused"
    /\ UNCHANGED <<config, skew, now, callVars>>

RequestFails ==
    /\ pc = "sent"
    /\ pc' = "failing"
    /\ UNCHANGED <<config, skew, now, callVars>>

\* Mutant of AttemptFails: one attempt too many.
OneAttemptTooMany ==
    /\ pc \in {"failing", "refused"}
    /\ \/ /\ attempt <= config.MaxRetries
          /\ marked' = extractServiceIPFromURL(url)
          /\ pc' = "backoff"
          /\ until' = now + (attempt + 1) * Second
          /\ UNCHANGED <<request, attempt, url, sentAt, asked>>
       \/ /\ attempt > config.MaxRetries
          /\ End
    /\ UNCHANGED <<config, skew, now>>

\* A refusal is a failure like any other: the IP that refused is marked.
AttemptFails ==
    /\ pc \in {"failing", "refused"}
    /\ \/ /\ attempt < config.MaxRetries
          /\ marked' = extractServiceIPFromURL(url)
          /\ pc' = "backoff"
          /\ until' = now + (attempt + 1) * Second
          /\ UNCHANGED <<request, attempt, url, sentAt, asked>>
       \/ /\ attempt = config.MaxRetries
          /\ End
    /\ UNCHANGED <<config, skew, now>>

BackoffOver ==
    /\ pc = "backoff" /\ now >= until
    /\ pc' = "build"
    /\ attempt' = attempt + 1
    /\ UNCHANGED <<config, skew, now, request, url, sentAt, asked, until, marked>>

\* The answer is there, or the context ended during the back-off.
Return ==
    /\ pc \in {"ok", "backoff"}
    /\ End
    /\ UNCHANGED <<config, skew, now>>

Tick ==
    /\ now < MaxTime
    /\ \/ pc = "idle"
       \/ pc = "sent" /\ now < sentAt + Timeout
       \/ pc = "backoff" /\ now < until
    /\ now' = now + 1
    /\ UNCHANGED <<config, skew, pc, callVars>>

Next ==
    \/ \E r \in Requests : Resolve(r)
    \/ \E serviceIP \in ServiceIPs : SendRequest(serviceIP)
    \/ Arrives \/ RequestFails \/ AttemptFails \/ BackoffOver \/ Return
    \/ Tick

Spec == Init /\ [][Next]_vars

-----------------------------------------------------------------------------

\* Every variable stays in its range; a call makes one attempt more than it
\* may retry, whatever the application configured.
TypeOK ==
    /\ config.MaxRetries \in Nat
    /\ config.SignatureExpireTime \in Nat \ {0}
    /\ now \in 0 .. MaxTime
    /\ pc \in {"idle", "build", "sent", "ok", "refused", "failing", "backoff"}
    /\ request \in Requests
    /\ attempt \in 0 .. config.MaxRetries
    /\ asked = <<>> \/ \E serviceIP \in ServiceIPs : asked = <<serviceIP>>
    /\ sentAt \in 0 .. now
    /\ until \in Nat

\* A signature is good for as long as it was configured to be: a request that
\* reaches the server before that, the differences of the clocks included, is
\* never refused, at no attempt and wherever in a second it was signed.
AcceptedInTime ==
    pc = "refused" => now + skew > sentAt + config.SignatureExpireTime

\* The service IP that a failed attempt marks, which is read back from the
\* text of the URL, is the one that was asked, over http and over https.
MarksWhoFailed == pc = "backoff" => marked = asked
=============================================================================
