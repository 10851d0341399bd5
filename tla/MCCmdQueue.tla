------------------------------ MODULE MCCmdQueue ------------------------------
(* The command queue for TLC. *)
EXTENDS CmdQueue, TLC

\* The posting threads and the addresses are interchangeable.
Symmetry == Permutations(Posters) \cup Permutations(Msgs)
===============================================================================
