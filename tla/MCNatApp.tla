------------------------------ MODULE MCNatApp ------------------------------
(* NatApp for TLC: the two ends of each connection, and symmetry. *)
EXTENDS NatApp, TLC

CONSTANTS c1, c2, a, n, w1, w2, server, p1

\* one connection of a client behind a NAT interface to a server, and one of a
\* client that is not, to a peer on the network joined in STA mode
mcSrc == (c1 :> a) @@ (c2 :> n)
mcDst == (c1 :> server) @@ (c2 :> p1)

Symmetry == Permutations(Handles)
=============================================================================
