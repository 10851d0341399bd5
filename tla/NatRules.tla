------------------------------- MODULE NatRules -------------------------------
(***************************************************************************)
(* What libipanat promises its client: a table from handles to NAT rules.  *)
(* Adding a rule gives it a handle no other rule has, deleting a handle    *)
(* removes that rule and nothing else, deleting the table removes all.     *)
(***************************************************************************)
CONSTANTS Rules, Handles, NoRule

VARIABLE held       \* the rule each handle stands for, or NoRule

NInit == held = [h \in Handles |-> NoRule]

NAdd(h, r) == held[h] = NoRule /\ held' = [held EXCEPT ![h] = r]

NDelete(h) == held[h] # NoRule /\ held' = [held EXCEPT ![h] = NoRule]

NDeleteTable == held' = [h \in Handles |-> NoRule]

NNext ==
    \/ \E h \in Handles, r \in Rules : NAdd(h, r)
    \/ \E h \in Handles : NDelete(h)
    \/ NDeleteTable

NSpec == NInit /\ [][NNext]_held
==============================================================================
