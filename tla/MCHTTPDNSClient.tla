---------------------------- MODULE MCHTTPDNSClient ----------------------------
(***************************************************************************)
(* Instances of HTTPDNSClient for TLC: sequences and functions a .cfg file *)
(* cannot write.  a and b are service IPs, x and y bootstrap endpoints.    *)
(***************************************************************************)
EXTENDS HTTPDNSClient, TLC

CONSTANTS a, b, x, y

OneBootstrap == <<x>>
TwoBootstraps == <<x, y>>

NothingPersisted == <<>>

BothOrders == {<<a, b>>, <<b, a>>}
ShrinkingLists == {<<a, b>>, <<b>>}

\* Any endpoint may do anything.
Chaos == [e \in Endpoints |-> Reactions]

\* a refuses or is slow, b always answers; x is slow, y always answers.
AFlakyBGood == (a :> {"error", "silent"}) @@ (b :> {"ok"})
               @@ (x :> {"error", "silent"}) @@ (y :> {"ok"})
=============================================================================
