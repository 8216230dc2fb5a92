------------------------------- MODULE MCResolver -------------------------------
(***************************************************************************)
(* Instances of Resolver for TLC: two names, each the normal form of its   *)
(* domain.                                                                 *)
(***************************************************************************)
EXTENDS Resolver, TLC

CONSTANTS s1, s2, d1, d2

OneToOne == (s1 :> d1) @@ (s2 :> d2)
OneDomain == s1 :> d1

Single(s, want) == [kind |-> "single", names |-> <<s>>, want |-> want]
Batch(names) == [kind |-> "batch", names |-> names, want |-> Families]

Singles == {Single(s, Families) : s \in Spellings}
PerFamily == {Single(s1, {f}) : f \in Families}
OneBatch == {Batch(<<s1, s2>>)}
Batches == {Batch(<<s1, s2, s1>>), Batch(<<s2, s1>>), Batch(<<s1, s1, s1, s1>>)}

Symmetry == Permutations(Calls) \cup Permutations(Refreshers)
=============================================================================
