--------------------------------- MODULE Gnss ---------------------------------
(***************************************************************************)
(* The GNSS adapter's message task under its four kinds of load.  Tracking,*)
(* control, network-initiated requests and the observers of data items     *)
(* share the task and nothing of its state, so that a behaviour here       *)
(* exercises one of them.                                                  *)
(***************************************************************************)
EXTENDS GnssTracking, GnssControl, GnssNi, OsObserver

VARIABLE load

vars == <<trackingVars, controlVars, niVars, osVars, load>>

Init ==
    /\ TrackingInit /\ ControlInit /\ NiInit /\ OsInit
    /\ load \in {"tracking", "control", "ni", "observers"}

Tracks == load = "tracking" /\ TrackingNext /\ UNCHANGED <<controlVars, niVars, osVars>>
Controls == load = "control" /\ ControlNext /\ UNCHANGED <<trackingVars, niVars, osVars>>
Notifies == load = "ni" /\ NiNext /\ UNCHANGED <<trackingVars, controlVars, osVars>>
Observes == load = "observers" /\ OsNext /\ UNCHANGED <<trackingVars, controlVars, niVars>>

Next == (Tracks \/ Controls \/ Notifies \/ Observes) /\ UNCHANGED load

Spec == Init /\ [][Next]_vars /\ NiFairness
=============================================================================
