---------------------------- MODULE MCDownstream ----------------------------
(* Downstream for TLC. *)
EXTENDS Downstream

\* Clients are alike.
Symmetry == Permutations(Macs)

=============================================================================
