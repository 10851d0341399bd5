----------------------------- MODULE MCNeighbor -----------------------------
(* Neighbor for TLC: one client more than the cache holds. *)
EXTENDS Neighbor, TLC

Symmetry == Permutations(Wireless)

=============================================================================
