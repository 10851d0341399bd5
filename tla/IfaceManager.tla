----------------------------- MODULE IfaceManager -----------------------------
(***************************************************************************)
(* The life of IPACM's interface objects.  The netlink thread and the WLAN *)
(* driver thread post link events; the command-queue thread takes one      *)
(* event at a time and walks the list of registered listeners             *)
(* (IPACM_EvtDispatcher::ProcessEvt).  The interface manager creates an    *)
(* IPACM_Lan, IPACM_Wlan or IPACM_Wan object for a link that comes up, and *)
(* the object removes itself when it goes down, in the middle of the very  *)
(* walk that called it.  The queue's own implementation is CmdQueue.       *)
(*                                                                         *)
(* ADDR_ADD stands for every event whose callback creates and destroys     *)
(* nothing.  The build is the Android one: no ODU and no eMBMS interface,  *)
(* and IPA_CFG_CHANGE_EVENT, which would switch an interface's category,   *)
(* is never posted.                                                        *)
(***************************************************************************)
EXTENDS Naturals, Sequences, FiniteSets

CONSTANTS
    LanIfs,     \* interfaces of category LAN_IF (rndis0, ecm0)
    WanIfs,     \* interfaces of category WAN_IF (rmnet_data*)
    WlanIfs,    \* interfaces of category UNKNOWN_IF (wlan0, softap0, ...)
    Deployments,    \* the sets of interfaces a device may have
    Objs,       \* addresses an interface object can have
    Manager,    \* the IPACM_IfaceManager object
    NULL,
    MaxQueue    \* bound: outside threads post only up to this queue length

Ifaces == LanIfs \cup WanIfs \cup WlanIfs

ASSUME IfacesAssumption ==
    /\ Deployments \subseteq SUBSET Ifaces
    /\ LanIfs \cap WanIfs = {} /\ LanIfs \cap WlanIfs = {} /\ WanIfs \cap WlanIfs = {}
    /\ Manager \notin Objs
    /\ NULL \notin Objs \cup {Manager}
    /\ MaxQueue \in Nat

VARIABLES
    present,    \* the interfaces of this device
    link,       \* the kernel's view: "down", "up" (IFF_UP) or "running" (and carrier)
    wlan,       \* the WLAN driver's view: "down", "ap" or "sta"
    addr,       \* the kernel has an address for the interface
    internal, external,     \* the two queues, of [event, iface]
    evt,        \* the event whose listeners are being walked, or NULL
    cursor,     \* ProcessEvt's tmp: the node to visit next, or NULL
    listeners,  \* the list of cmd_evts, in order: <<event, object>>
    instances,  \* the list of iface_instances, as a set: <<iface, object>>
    obj,        \* the fields of the objects that are allocated
    if_cat,     \* iface_table[i].if_cat
    num_wlan_ap_iface

env == <<link, wlan, addr>>
registry == <<listeners, instances, obj, if_cat, num_wlan_ap_iface>>
vars == <<present, link, wlan, addr, internal, external, evt, cursor, listeners,
          instances, obj, if_cat, num_wlan_ap_iface>>

live == DOMAIN obj

Events == {"LINK_UP", "USB_LINK_UP", "AP_LINK_UP", "STA_LINK_UP", "LINK_DOWN",
           "WLAN_LINK_DOWN", "ADDR_ADD", "LAN_DELETE_SELF"}
Kinds == {"lan", "wlan", "Q6_WAN", "ECM_WAN", "WLAN_WAN"}

Nodes == Events \X (Objs \cup {Manager})
Queued == [event : Events, iface : Ifaces]

ASSUME NullAssumption == NULL \notin Nodes /\ NULL \notin Queued

Category(i) == IF i \in LanIfs THEN "LAN_IF"
               ELSE IF i \in WanIfs THEN "WAN_IF" ELSE "UNKNOWN_IF"

\* The events create_iface_instance registers an object for, in its order.
Registrations(kind) ==
    CASE kind = "lan"      -> <<"ADDR_ADD", "LINK_DOWN", "LAN_DELETE_SELF">>
      [] kind = "wlan"     -> <<"ADDR_ADD", "WLAN_LINK_DOWN", "LAN_DELETE_SELF">>
      [] kind = "WLAN_WAN" -> <<"ADDR_ADD", "WLAN_LINK_DOWN">>
      [] OTHER             -> <<"ADDR_ADD", "LINK_DOWN">>

NodesOf(kind, o) ==
    [k \in 1..Len(Registrations(kind)) |-> <<Registrations(kind)[k], o>>]

ManagerNodes ==
    << <<"LINK_UP", Manager>>, <<"AP_LINK_UP", Manager>>,
       <<"STA_LINK_UP", Manager>>, <<"USB_LINK_UP", Manager>> >>

Init ==
    /\ present \in Deployments
    /\ link = [i \in Ifaces |-> "down"]
    /\ wlan = [i \in WlanIfs |-> "down"]
    /\ addr = [i \in Ifaces |-> FALSE]
    /\ internal = << >> /\ external = << >>
    /\ evt = NULL /\ cursor = NULL
    /\ listeners = ManagerNodes
    /\ instances = {}
    /\ obj = << >>
    /\ if_cat = [i \in Ifaces |-> Category(i)]
    /\ num_wlan_ap_iface = 0

----------------------------------------------------------------------------
(* What the other threads post. *)

Evt(e, i) == [event |-> e, iface |-> i]

\* IPACM_EvtDispatcher::PostEvt from another thread: all of these are external.
PostExternal(es) ==
    /\ Len(external) + Len(es) <= MaxQueue
    /\ external' = external \o es

\* ipa_nl_decode_nlmsg, RTM_NEWLINK: one event for a change of IFF_UP, and one
\* for the carrier.
NewLinkEvents(i, old, new) ==
    (IF (old = "down") # (new = "down")
     THEN <<Evt(IF new = "down" THEN "LINK_DOWN" ELSE "LINK_UP", i)>>
     ELSE << >>)
    \o (IF new = "running" THEN <<Evt("USB_LINK_UP", i)>> ELSE <<Evt("LINK_DOWN", i)>>)

\* The WLAN driver drops its association before its interface goes down.
NewLink(i, s) ==
    /\ s # link[i]
    /\ s = "down" /\ i \in WlanIfs => wlan[i] = "down"
    /\ link' = [link EXCEPT ![i] = s]
    /\ PostExternal(NewLinkEvents(i, link[i], s))
    /\ UNCHANGED <<wlan, addr, internal, evt, cursor, registry>>

\* RTM_DELLINK
DelLink(i) ==
    /\ link[i] = "down"
    /\ PostExternal(<<Evt("LINK_DOWN", i)>>)
    /\ UNCHANGED <<env, internal, evt, cursor, registry>>

\* RTM_NEWADDR.  RTM_DELADDR is not handled.
NewAddr(i) ==
    /\ ~addr[i]
    /\ addr' = [addr EXCEPT ![i] = TRUE]
    /\ PostExternal(<<Evt("ADDR_ADD", i)>>)
    /\ UNCHANGED <<link, wlan, internal, evt, cursor, registry>>

DelAddr(i) ==
    /\ addr[i]
    /\ addr' = [addr EXCEPT ![i] = FALSE]
    /\ UNCHANGED <<link, wlan, internal, external, evt, cursor, registry>>

\* ipa_driver_msg_notifier: WLAN_AP_CONNECT and WLAN_STA_CONNECT ...
WlanConnect(i, mode) ==
    /\ link[i] # "down" /\ wlan[i] = "down"
    /\ wlan' = [wlan EXCEPT ![i] = mode]
    /\ PostExternal(<<Evt(IF mode = "ap" THEN "AP_LINK_UP" ELSE "STA_LINK_UP", i)>>)
    /\ UNCHANGED <<link, addr, internal, evt, cursor, registry>>

\* ... and WLAN_AP_DISCONNECT and WLAN_STA_DISCONNECT.
WlanDisconnect(i) ==
    /\ wlan[i] # "down"
    /\ wlan' = [wlan EXCEPT ![i] = "down"]
    /\ PostExternal(<<Evt("WLAN_LINK_DOWN", i)>>)
    /\ UNCHANGED <<link, addr, internal, evt, cursor, registry>>

----------------------------------------------------------------------------
(* The command-queue thread. *)

\* MessageQueue::Process: the internal queue first.  ProcessEvt starts at the
\* head of the list.
TakeEvent ==
    /\ evt = NULL
    /\ \/ /\ internal # << >>
          /\ evt' = Head(internal)
          /\ internal' = Tail(internal)
          /\ UNCHANGED external
       \/ /\ internal = << >> /\ external # << >>
          /\ evt' = Head(external)
          /\ external' = Tail(external)
          /\ UNCHANGED internal
    /\ cursor' = Head(listeners)
    /\ UNCHANGED <<env, registry>>

ListenerNodes == {listeners[k] : k \in 1..Len(listeners)}
Position(n) == CHOOSE k \in 1..Len(listeners) : listeners[k] = n

\* tmp1.next, copied before the callback runs.
NextNode(n) ==
    IF Position(n) < Len(listeners) THEN listeners[Position(n) + 1] ELSE NULL

Visiting(e) ==
    /\ cursor # NULL
    /\ cursor \in ListenerNodes
    /\ cursor[1] = e /\ evt.event = e
    /\ cursor' = NextNode(cursor)
    /\ UNCHANGED <<evt, env>>

\* The loop runs on over listeners registered for other events.
Skip ==
    /\ cursor # NULL
    /\ cursor \in ListenerNodes
    /\ cursor[1] # evt.event
    /\ LET here == Position(cursor)
           matching == {k \in here..Len(listeners) : listeners[k][1] = evt.event}
       IN cursor' = IF matching = {} THEN NULL
                    ELSE listeners[CHOOSE k \in matching : \A m \in matching : k <= m]
    /\ UNCHANGED <<env, internal, external, evt, registry>>

EndOfWalk ==
    /\ evt # NULL /\ cursor = NULL
    /\ evt' = NULL
    /\ UNCHANGED <<env, internal, external, cursor, registry>>

----------------------------------------------------------------------------
(* IPACM_IfaceManager *)

\* SearchInstance
Found(i) == \E o \in Objs : <<i, o>> \in instances

\* IPACM_Iface::iface_addr_query: getifaddrs, interfaces with IFF_UP only.
iface_addr_query(i) ==
    external' = IF addr[i] /\ link[i] # "down"
                THEN Append(external, Evt("ADDR_ADD", i)) ELSE external

\* The object a category leads to; mode is the ipacm_wan_iface_type asked for.
KindFor(cat, mode) ==
    CASE cat = "LAN_IF" -> "lan" [] cat = "WLAN_IF" -> "wlan" [] OTHER -> mode

\* The constructor of IPACM_Wlan refuses a third access point and deletes the
\* object it is constructing.
ConstructorFails(kind) == kind = "wlan" /\ num_wlan_ap_iface > 1

NewObject(o, kind, i) ==
    [p \in live \cup {o} |->
        IF p = o THEN [kind |-> kind, iface |-> i, active |-> TRUE, addr |-> FALSE] ELSE obj[p]]

\* Mutant: no check for an existing instance.
create_iface_instance_Twice(i, cat, mode) ==
    IF cat = "UNKNOWN_IF"
    THEN UNCHANGED <<external, listeners, instances, obj, num_wlan_ap_iface>>
    ELSE LET kind == KindFor(cat, mode) IN
         \E o \in Objs \ live :
            /\ IF ConstructorFails(kind)
               THEN UNCHANGED <<obj, num_wlan_ap_iface>>
               ELSE /\ obj' = NewObject(o, kind, i)
                    /\ num_wlan_ap_iface' = num_wlan_ap_iface + IF kind = "wlan" THEN 1 ELSE 0
            /\ listeners' = listeners \o NodesOf(kind, o)
            /\ instances' = instances \cup {<<i, o>>}
            /\ iface_addr_query(i)

\* create_iface_instance registers whatever new returns, constructed or not.
create_iface_instance(i, cat, mode) ==
    IF Found(i) \/ cat = "UNKNOWN_IF"
    THEN UNCHANGED <<external, listeners, instances, obj, num_wlan_ap_iface>>
    ELSE LET kind == KindFor(cat, mode) IN
         \E o \in Objs \ live :
            /\ IF ConstructorFails(kind)
               THEN UNCHANGED <<obj, num_wlan_ap_iface>>
               ELSE /\ obj' = NewObject(o, kind, i)
                    /\ num_wlan_ap_iface' = num_wlan_ap_iface + IF kind = "wlan" THEN 1 ELSE 0
            /\ listeners' = listeners \o NodesOf(kind, o)
            /\ instances' = instances \cup {<<i, o>>}
            /\ iface_addr_query(i)

\* IPA_LINK_UP_EVENT creates modem interfaces only.
ManagerLinkUp ==
    LET i == evt.iface IN
    /\ Visiting("LINK_UP")
    /\ IF if_cat[i] = "WAN_IF"
       THEN create_iface_instance(i, "WAN_IF", "Q6_WAN")
       ELSE UNCHANGED <<external, listeners, instances, obj, num_wlan_ap_iface>>
    /\ UNCHANGED <<internal, if_cat>>

ManagerUsbLinkUp ==
    LET i == evt.iface IN
    /\ Visiting("USB_LINK_UP")
    /\ create_iface_instance(i, if_cat[i], IF if_cat[i] = "WAN_IF" THEN "ECM_WAN" ELSE "Q6_WAN")
    /\ UNCHANGED <<internal, if_cat>>

\* A WLAN interface takes a role only while it has none.
ManagerWlanLinkUp(e, cat, mode) ==
    LET i == evt.iface IN
    /\ Visiting(e)
    /\ IF if_cat[i] = "UNKNOWN_IF"
       THEN /\ if_cat' = [if_cat EXCEPT ![i] = cat]
            /\ create_iface_instance(i, cat, mode)
       ELSE UNCHANGED <<external, listeners, instances, obj, if_cat, num_wlan_ap_iface>>
    /\ UNCHANGED internal

----------------------------------------------------------------------------
(* The interface objects. *)

\* Mutant: the event is queued behind the events from outside.
post_del_self_evt_External(i) ==
    /\ external' = Append(external, Evt("LAN_DELETE_SELF", i))
    /\ UNCHANGED internal

\* IPACM_Lan::post_del_self_evt: LAN_DELETE_SELF is an internal event.
post_del_self_evt(i) ==
    /\ internal' = Append(internal, Evt("LAN_DELETE_SELF", i))
    /\ UNCHANGED external

\* IPACM_EvtDispatcher::deregistr walks the whole list; left[k] is what is left of
\* its first k nodes.
deregistr(o) ==
    LET left[k \in 0..Len(listeners)] ==
            IF k = 0 THEN << >>
            ELSE IF listeners[k][2] = o THEN left[k-1] ELSE Append(left[k-1], listeners[k])
    IN left[Len(listeners)]

\* delete this: both registries forget the object, the object is freed.
destroy(o) ==
    /\ obj' = [p \in live \ {o} |-> obj[p]]
    /\ listeners' = deregistr(o)
    /\ instances' = {p \in instances : p[2] # o}

\* The callback runs in object o and is about o's own interface.
Own(e, o, kinds) ==
    /\ Visiting(e)
    /\ cursor[2] = o /\ o \in live
    /\ obj[o].iface = evt.iface
    /\ obj[o].kind \in kinds

LanKinds == {"lan", "wlan"}
WanKinds == {"Q6_WAN", "ECM_WAN", "WLAN_WAN"}

\* IPACM_Lan on IPA_LINK_DOWN_EVENT, IPACM_Wlan on IPA_WLAN_LINK_DOWN_EVENT:
\* handle_down_evt, and the access point's interface loses its role.
LanLinkDown(o) ==
    /\ \/ Own("LINK_DOWN", o, {"lan"})
       \/ Own("WLAN_LINK_DOWN", o, {"wlan"})
    /\ obj[o].active
    /\ obj' = [obj EXCEPT ![o].active = FALSE]
    /\ post_del_self_evt(obj[o].iface)
    /\ if_cat' = IF obj[o].kind = "wlan"
                 THEN [if_cat EXCEPT ![obj[o].iface] = "UNKNOWN_IF"] ELSE if_cat
    /\ UNCHANGED <<listeners, instances, num_wlan_ap_iface>>

\* IPA_LAN_DELETE_SELF, which also an inactive object handles.
LanDeleteSelf(o) ==
    /\ Own("LAN_DELETE_SELF", o, LanKinds)
    /\ num_wlan_ap_iface' = num_wlan_ap_iface - IF obj[o].kind = "wlan" THEN 1 ELSE 0
    /\ destroy(o)
    /\ UNCHANGED <<internal, external, if_cat>>

\* IPACM_Wan goes at once: IPA_LINK_DOWN_EVENT for a modem or a USB uplink,
\* IPA_WLAN_LINK_DOWN_EVENT for a WLAN station, which also loses its role.
WanLinkDown(o) ==
    /\ \/ Own("LINK_DOWN", o, {"Q6_WAN", "ECM_WAN"})
       \/ Own("WLAN_LINK_DOWN", o, {"WLAN_WAN"})
    /\ if_cat' = IF obj[o].kind = "WLAN_WAN"
                 THEN [if_cat EXCEPT ![obj[o].iface] = "UNKNOWN_IF"] ELSE if_cat
    /\ destroy(o)
    /\ UNCHANGED <<internal, external, num_wlan_ap_iface>>

\* IPA_ADDR_ADD_EVENT: handle_addr_evt.
AddrAdd(o) ==
    /\ Own("ADDR_ADD", o, Kinds)
    /\ obj[o].active
    /\ obj' = [obj EXCEPT ![o].addr = TRUE]
    /\ UNCHANGED <<internal, external, listeners, instances, if_cat, num_wlan_ap_iface>>

\* The event is about another interface, or the object is no longer active.
NotMine(o) ==
    /\ Visiting(evt.event)
    /\ cursor[2] = o /\ o \in live
    /\ \/ obj[o].iface # evt.iface
       \/ ~obj[o].active /\ evt.event # "LAN_DELETE_SELF"
    /\ UNCHANGED <<internal, external, registry>>

----------------------------------------------------------------------------
Outside ==
    \/ \E i \in present, s \in {"down", "up", "running"} : NewLink(i, s)
    \/ \E i \in present : DelLink(i)
    \/ \E i \in present : NewAddr(i)
    \/ \E i \in present : DelAddr(i)
    \/ \E i \in present \cap WlanIfs, mode \in {"ap", "sta"} : WlanConnect(i, mode)
    \/ \E i \in present \cap WlanIfs : WlanDisconnect(i)

Callback ==
    \/ ManagerLinkUp
    \/ ManagerUsbLinkUp
    \/ ManagerWlanLinkUp("AP_LINK_UP", "WLAN_IF", "Q6_WAN")
    \/ ManagerWlanLinkUp("STA_LINK_UP", "WAN_IF", "WLAN_WAN")
    \/ \E o \in Objs : \/ LanLinkDown(o)
                       \/ LanDeleteSelf(o)
                       \/ WanLinkDown(o)
                       \/ AddrAdd(o)
                       \/ NotMine(o)

Dispatcher == TakeEvent \/ Skip \/ Callback \/ EndOfWalk

Next == (Outside \/ Dispatcher) /\ UNCHANGED present

Spec == Init /\ [][Next]_vars

----------------------------------------------------------------------------
(* Properties *)

\* Type invariant of the links, the queues and the two registries.
TypeOK ==
    /\ link \in [Ifaces -> {"down", "up", "running"}]
    /\ wlan \in [WlanIfs -> {"down", "ap", "sta"}]
    /\ addr \in [Ifaces -> BOOLEAN]
    /\ internal \in Seq(Queued) /\ external \in Seq(Queued)
    /\ evt \in Queued \cup {NULL}
    /\ cursor \in Nodes \cup {NULL}
    /\ listeners \in Seq(Nodes)
    /\ instances \subseteq Ifaces \X Objs
    /\ live \subseteq Objs
    /\ obj \in [live -> [kind : Kinds, iface : Ifaces, active : BOOLEAN, addr : BOOLEAN]]
    /\ if_cat \in [Ifaces -> {"LAN_IF", "WAN_IF", "WLAN_IF", "UNKNOWN_IF"}]
    /\ num_wlan_ap_iface \in Nat

\* ProcessEvt keeps the next pointer of a node whose callback may free nodes:
\* the pointer it kept is never to a freed node.
WalkSafe == cursor # NULL => cursor \in ListenerNodes

\* The dispatcher's list never names an object that has been freed.
ListenersAlive == \A n \in ListenerNodes : n[2] \in live \cup {Manager}

\* The dispatcher has the nodes of o and no other of o, in this order.
Registered(o, nodes) ==
    /\ {n \in ListenerNodes : n[2] = o} = {nodes[k] : k \in 1..Len(nodes)}
    /\ \A j, k \in 1..Len(nodes) : j < k => Position(nodes[j]) < Position(nodes[k])

\* The two registries and the heap agree: an object is allocated exactly as
\* long as the manager has it as the one instance of its interface and the
\* dispatcher has all of its registrations, each once.
RegistriesAgree ==
    /\ ListenersAlive
    /\ live = {p[2] : p \in instances}
    /\ \A p, q \in instances : p # q => p[1] # q[1] /\ p[2] # q[2]
    /\ \A j, k \in 1..Len(listeners) : listeners[j] = listeners[k] => j = k
    /\ \A p \in instances :
          /\ obj[p[2]].iface = p[1]
          /\ Registered(p[2], NodesOf(obj[p[2]].kind, p[2]))

DeleteSelfPending(i) ==
    Cardinality({k \in 1..Len(internal) : internal[k] = Evt("LAN_DELETE_SELF", i)})
    + Cardinality({k \in 1..Len(external) : external[k] = Evt("LAN_DELETE_SELF", i)})
    + (IF /\ evt = Evt("LAN_DELETE_SELF", i)
          /\ \E o \in live : obj[o].iface = i /\ cursor # NULL
       THEN 1 ELSE 0)

Inactive(i) == \E o \in live : obj[o].iface = i /\ ~obj[o].active

\* An object that has shut down has exactly one LAN_DELETE_SELF under way, and
\* there is none under way for an interface whose object is active or gone: a
\* new object cannot be deleted by the event of its predecessor.
TeardownPending ==
    \A i \in Ifaces : DeleteSelfPending(i) = IF Inactive(i) THEN 1 ELSE 0

\* num_wlan_ap_iface counts the access-point objects that exist.
ApCount == num_wlan_ap_iface = Cardinality({o \in live : obj[o].kind = "wlan"})

\* The life of the interface objects is sound at every step of a walk over the
\* listeners: the walk never steps on a freed node, heap, registries and the
\* count of access points agree, and each object that has shut down - no other -
\* is about to be deleted, once.
ObjectsSound == TypeOK /\ WalkSafe /\ RegistriesAgree /\ TeardownPending /\ ApCount

Idle == evt = NULL /\ internal = << >> /\ external = << >>

HasKind(i, kinds) == \E o \in live : obj[o].iface = i /\ obj[o].kind \in kinds /\ obj[o].active

\* Once all events are handled every object knows the address of its running
\* interface, also one that was assigned before the object existed ("solve
\* the new_addr comes earlier issue", IPACM_IfaceManager.cpp 293).
AddressKnown == \A o \in live : addr[obj[o].iface] => obj[o].addr

\* Once all events are handled the objects mirror the links and know their
\* addresses, whatever the order of ups and downs was: a LAN or modem interface
\* has an object iff it runs, a WLAN interface has one of the role the driver
\* reported.
CaughtUp ==
    Idle =>
    /\ \A i \in LanIfs : HasKind(i, {"lan"}) <=> link[i] = "running"
    /\ \A i \in WanIfs : HasKind(i, {"Q6_WAN", "ECM_WAN"}) <=> link[i] = "running"
    /\ \A i \in WlanIfs : /\ HasKind(i, {"wlan"}) <=> wlan[i] = "ap"
                          /\ HasKind(i, {"WLAN_WAN"}) <=> wlan[i] = "sta"
                          /\ if_cat[i] = "UNKNOWN_IF" <=> wlan[i] = "down"
    /\ AddressKnown
==============================================================================
