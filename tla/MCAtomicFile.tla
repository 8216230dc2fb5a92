------------------------------ MODULE MCAtomicFile ------------------------------
(***************************************************************************)
(* An instance of AtomicFile for TLC.                                      *)
(***************************************************************************)
EXTENDS AtomicFile, TLC

CONSTANTS w1, w2, w3, m1, m2

\* Two clients of one account, so of one cache directory, one of them with
\* two saves under way.
TwoManagers == (w1 :> m1) @@ (w2 :> m1) @@ (w3 :> m2)
=============================================================================
