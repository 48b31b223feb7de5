------------------------------- MODULE MCDict -------------------------------
(* Instances of Dict for TLC: k1 and k2 collide, k3 has its own bucket. *)
EXTENDS Dict, TLC

CONSTANTS k1, k2, k3

MCHash == (k1 :> 4) @@ (k2 :> 6) @@ (k3 :> 7)

Symmetry == Permutations(Entries) \cup Permutations(Vals)
=============================================================================
