---------------------------- MODULE ResolverContract ----------------------------
(***************************************************************************)
(* What a caching resolver promises, however calls and refreshes work:     *)
(* what it caches of a domain is what the servers once answered for this   *)
(* domain, and what it tells a caller of a name is what it has cached, not *)
(* expired unless that is allowed, or what the servers have just answered. *)
(***************************************************************************)
EXTENDS Naturals, Sequences

CONSTANTS
    Callers,
    Spellings, Domains, Norm,   \* names, and the domain of each
    Families,
    AllowExpired,
    NoEntry

VARIABLES
    zone,       \* version of each domain's addresses at the servers
    cache,      \* what is cached of each domain
    answers,    \* what the servers have answered and is yet to be cached
    told        \* what each caller has been told

contractVars == <<zone, cache, answers, told>>

Answered == [dom : Domains, ver : Nat, fams : SUBSET Families]

Cached == [ver : Nat, fresh : BOOLEAN, fams : SUBSET Families]

ContractInit ==
    /\ zone \in [Domains -> Nat]
    /\ cache \in [Domains -> Cached \cup {NoEntry}]
    /\ \A d \in Domains : cache[d] = NoEntry \/ cache[d].ver <= zone[d]
    /\ answers = {}
    /\ told = [c \in Callers |-> <<>>]

Publish(d) ==
    /\ zone' = [zone EXCEPT ![d] = @ + 1]
    /\ UNCHANGED <<cache, answers, told>>

\* The servers answer, of several domains at once if they are asked so.
Give ==
    /\ answers \subseteq answers'
    /\ \A a \in answers' \ answers : a \in Answered /\ a.ver = zone[a.dom]
    /\ UNCHANGED <<zone, cache, told>>

Tell(c, s, fams) ==
    told' = [told EXCEPT ![c] = Append(@, [host |-> s, fams |-> fams])]

\* An answer is cached, once more if others wait to cache it too, and told to
\* the caller that waited for it.
Fill(a) ==
    /\ cache' = [cache EXCEPT ![a.dom] = [ver |-> a.ver, fresh |-> TRUE, fams |-> a.fams]]
    /\ answers' \in {answers, answers \ {a}}
    /\ \/ UNCHANGED told
       \/ \E c \in Callers, s \in Spellings : Norm[s] = a.dom /\ Tell(c, s, a.fams)
    /\ UNCHANGED zone

TellCached(c, s) ==
    /\ cache[Norm[s]] # NoEntry
    /\ cache[Norm[s]].fresh \/ AllowExpired
    /\ Tell(c, s, cache[Norm[s]].fams)
    /\ UNCHANGED <<zone, cache, answers>>

\* A call begins, or fails and returns nothing.
Clear(c) ==
    /\ told' = [told EXCEPT ![c] = <<>>]
    /\ UNCHANGED <<zone, cache, answers>>

Age(d) ==
    /\ cache[d] # NoEntry /\ cache[d].fresh
    /\ cache' = [cache EXCEPT ![d].fresh = FALSE]
    /\ UNCHANGED <<zone, answers, told>>

ContractNext ==
    \/ \E d \in Domains : Publish(d) \/ Age(d)
    \/ Give
    \/ \E a \in answers : Fill(a)
    \/ \E c \in Callers : Clear(c) \/ \E s \in Spellings : TellCached(c, s)

ContractSpec == ContractInit /\ [][ContractNext]_contractVars

-----------------------------------------------------------------------------

\* Nothing is cached, or about to be, that the servers have not published.
NothingInvented ==
    /\ \A d \in Domains : cache[d] = NoEntry \/ cache[d].ver <= zone[d]
    /\ \A a \in answers : a.ver <= zone[a.dom]
=============================================================================
