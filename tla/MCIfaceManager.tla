---------------------------- MODULE MCIfaceManager ----------------------------
(* Finite instances of IfaceManager. *)
EXTENDS IfaceManager, TLC

CONSTANTS rndis0, rmnet0, wlan0, softap0

\* a tethered USB client and a modem uplink; two WLAN interfaces of either role
mcDeployments == {{rndis0, rmnet0}, {wlan0, softap0}}

Symmetry == Permutations(Objs) \cup Permutations(WlanIfs)
==============================================================================
