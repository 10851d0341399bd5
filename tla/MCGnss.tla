-------------------------------- MODULE MCGnss --------------------------------
(* Gnss for TLC: the HAL's client and the measurement client. *)
EXTENDS Gnss

CONSTANTS hal, meas

MCCallbackSets(c) == IF c = hal THEN {{"tracking", "sv", "nmea"}} ELSE {{"measurements"}}

MCLists == {{"network"}, {"network", "mccmnc"}}

=============================================================================
