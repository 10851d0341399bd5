------------------------------ MODULE MCLanToLan ------------------------------
(* LanToLan for TLC: two access points of one L2 type and an Ethernet port. *)
EXTENDS LanToLan

CONSTANTS e1, w1, w2, m1, m2

MCL2 == (e1 :> "ETH_II") @@ (w1 :> "802_3") @@ (w2 :> "802_3")

\* m1 roams between the port and an access point, m2 between the access points.
MCAttach == {<<e1, m1>>, <<w1, m1>>, <<w1, m2>>, <<w2, m2>>}

=============================================================================
