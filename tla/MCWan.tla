-------------------------------- MODULE MCWan --------------------------------
(* Wan for TLC: two modem PDNs, of which one has v4 only, and the station. *)
EXTENDS Wan

CONSTANTS q1, q2

MCAsked == {<<q1, IPs>>, <<q2, {"v4"}>>, <<Station, IPs>>}

=============================================================================
