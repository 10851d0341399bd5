------------------------------ MODULE MCNatTable ------------------------------
(* A finite instance of NatTable. *)
EXTENDS NatTable, TLC, Sequences

\* Three rules whose chains cross: all of them fall into one destination slot, the
\* last one, since the hash of rule 2 is a multiple of the table size; so one chain
\* runs into the expansion table. Rules 1 and 3 share a source slot, and the source
\* hash of rule 2 is a multiple of the table size.
ThreeRules == 1..3
CrossingDst == <<3, 0, 7>>
CrossingSrc == <<2, 4, 6>>
==============================================================================
