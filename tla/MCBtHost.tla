------------------------------- MODULE MCBtHost -------------------------------
(* BtHost for TLC: as it stands. *)
EXTENDS BtHost
===============================================================================
