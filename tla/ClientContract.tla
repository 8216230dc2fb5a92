----------------------------- MODULE ClientContract -----------------------------
(***************************************************************************)
(* What closing a client means to the application: calls are accepted      *)
(* until the client is shut, it is shut only once and only when no         *)
(* accepted call and no periodic fetch is under way, and it is never       *)
(* opened again.  Work handed to the background may outlive the client     *)
(* but is accepted only while it is open.                                  *)
(***************************************************************************)
CONSTANTS Callers, Jobs

VARIABLES open, inside, background, fetching

contractVars == <<open, inside, background, fetching>>

ContractInit ==
    /\ open = TRUE
    /\ inside = {}
    /\ background = {}
    /\ fetching = FALSE

Accept(p) ==
    /\ open /\ p \notin inside
    /\ inside' = inside \cup {p}
    /\ UNCHANGED <<open, background, fetching>>

Complete(p) ==
    /\ p \in inside
    /\ inside' = inside \ {p}
    /\ UNCHANGED <<open, background, fetching>>

HandOver(j) ==
    /\ open /\ j \notin background
    /\ background' = background \cup {j}
    /\ UNCHANGED <<open, inside, fetching>>

Retire(j) ==
    /\ j \in background
    /\ background' = background \ {j}
    /\ UNCHANGED <<open, inside, fetching>>

Fetch ==
    /\ open
    /\ fetching' = ~fetching
    /\ UNCHANGED <<open, inside, background>>

Shut ==
    /\ open /\ inside = {} /\ ~fetching
    /\ open' = FALSE
    /\ UNCHANGED <<inside, background, fetching>>

ContractNext ==
    \/ \E p \in Callers : Accept(p) \/ Complete(p)
    \/ \E j \in Jobs : HandOver(j) \/ Retire(j)
    \/ Fetch
    \/ Shut

ContractSpec == ContractInit /\ [][ContractNext]_contractVars

=============================================================================
