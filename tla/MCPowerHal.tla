------------------------------ MODULE MCPowerHal ------------------------------
(* PowerHal for TLC: the modes are finite as they stand. *)
EXTENDS PowerHal
===============================================================================
