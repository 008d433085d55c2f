----------------------------- MODULE MCSessions -----------------------------
(* Sessions on small instances: the connections are interchangeable.       *)
EXTENDS Sessions

ConnectionSymmetry == Permutations(Player)
=============================================================================
