------------------------------ MODULE MCRequestURL ------------------------------
(***************************************************************************)
(* An instance of RequestURL for TLC: requests, as a .cfg file cannot      *)
(* write records.                                                          *)
(***************************************************************************)
EXTENDS RequestURL

CONSTANTS d1, d2, here

SomeRequests ==
    {[kind |-> "single", hosts |-> <<d1>>, query |-> q, clientIP |-> ip] :
        q \in {"4", "4,6"}, ip \in {NoClientIP, here}}
    \cup {[kind |-> "batch", hosts |-> h, clientIP |-> ip] :
        h \in {<<d1>>, <<d1, d2>>}, ip \in {NoClientIP, here}}

\* Values the application may give, among them some that are replaced.
SomeTimes == {-1, 1, 4}
SomeRetries == {-1, 0, 2}
=============================================================================
