-------------------------------- MODULE MCAgps --------------------------------
(* Agps for TLC: an emergency handle, and one of either kind. *)
EXTENDS Agps

CONSTANTS c1, c2

MCAsks == {<<c1, "SUPL_ES">>, <<c2, "SUPL_ES">>, <<c2, "SUPL">>}

=============================================================================
