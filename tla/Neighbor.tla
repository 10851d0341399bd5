------------------------------ MODULE Neighbor ------------------------------
(***************************************************************************)
(* IPACM_Neighbor, the cache that ties a client's MAC address to the       *)
(* interface it is behind and to its last IPv4 address, and the two        *)
(* threads that feed it: the netlink thread (neighbour entries and, with a *)
(* bridge, forwarding entries) and the driver message thread (WLAN         *)
(* associations).  The cache turns what they post into                     *)
(* IPA_NEIGH_CLIENT_IP_ADDR_ADD/DEL events, which the interface the client *)
(* is behind acts on.                                                      *)
(*                                                                         *)
(* world    the kernel: where each client is (port), the bridge's          *)
(*          forwarding entries (fdb) and the neighbour entries (arp)       *)
(* nl, drv  what the two threads have still to read or to post             *)
(* queue    the external command queue (all these events are external)     *)
(* cache    neighbor_client[0 .. num_neighbor_client - 1], as a sequence,  *)
(*          and circular_index (counted from 1)                            *)
(* told     <<interface, MAC, address>> the downstream objects have rules  *)
(*          for; clients the associations the WLAN objects know            *)
(* lost     history: clients whose IPv4 address the cache dropped, or had  *)
(*          no entry for, since it was last announced                      *)
(***************************************************************************)
EXTENDS Naturals, Sequences, FiniteSets, Functions

CONSTANTS Wireless, Wired,                    \* the clients' MAC addresses, by adapter
          WlanPorts, LanPorts, Bridge,  \* Bridge: ipa_virtual_iface_name
          V4, LinkLocal, V6,
          IPA_MAX_NUM_NEIGHBOR_CLIENTS,
          CHANGES_MAX,                        \* bound: changes of the world
          BACKLOG_MAX,                        \* bound: messages and events waiting when the world changes
          SecondAddress,                      \* TRUE: a client may hold two IPv4 neighbour entries
          NONE

VARIABLES world, nl, drv, queue, cache, told, clients, lost
vars == <<world, nl, drv, queue, cache, told, clients, lost>>

Macs == Wireless \cup Wired
Ports == WlanPorts \cup LanPorts
ZERO == "zero"        \* the all-zero address, always of type IPA_IP_v6
NO_NAME == "no name"  \* an iface_name that was never filled in

ASSUME NeighborAssumption ==
    /\ IPA_MAX_NUM_NEIGHBOR_CLIENTS \in Nat \ {0}
    /\ CHANGES_MAX \in Nat /\ BACKLOG_MAX \in Nat
    /\ LinkLocal \subseteq V4
    /\ SecondAddress \in BOOLEAN
    /\ Bridge \notin Ports \cup {NO_NAME} /\ NONE \notin Ports \cup Macs \cup V4
    /\ NO_NAME \notin Ports /\ ZERO \notin V4 \cup V6 /\ V4 \cap V6 = {}
    /\ WlanPorts \cap LanPorts = {}

Event(event, iface, name, mac, addr) ==
    [event |-> event, iface |-> iface, name |-> name, mac |-> mac, addr |-> addr]
Entry(mac, iface, v4) == [mac |-> mac, iface |-> iface, ipa_if_num |-> iface, v4 |-> v4]

Init ==
    /\ \E bridged \in BOOLEAN :
          world = [bridged |-> bridged, changes |-> 0, port |-> [m \in Macs |-> NONE],
                   fdb |-> [m \in Macs |-> NONE], arp |-> {}]
    /\ nl = << >> /\ drv = << >> /\ queue = << >>
    /\ cache = [neighbor_client |-> << >>, circular_index |-> 1]
    /\ told = {} /\ clients = {} /\ lost = {}

(***************************************************************************)
(* The kernel and the WLAN driver                                          *)
(***************************************************************************)
Dev(p) == IF world.bridged THEN Bridge ELSE p

Change(w) ==
    /\ world.changes < CHANGES_MAX
    /\ Len(nl) + Len(drv) + Len(queue) <= BACKLOG_MAX
    /\ world' = [w EXCEPT !.changes = @ + 1]
    /\ UNCHANGED <<queue, cache, told, clients, lost>>

\* Mutant: the neighbour event is posted before the association.
CONNECT_EX_Swapped(m, p) == <<Event("NEW_NEIGH", p, NO_NAME, m, ZERO), Event("CLIENT_ADD_EX", p, NO_NAME, m, ZERO)>>

\* WLAN_CLIENT_CONNECT_EX: the driver thread makes two events of it.
CONNECT_EX(m, p) == <<Event("CLIENT_ADD_EX", p, NO_NAME, m, ZERO), Event("NEW_NEIGH", p, NO_NAME, m, ZERO)>>
CLIENT_DISCONNECT(m, p) == <<Event("CLIENT_DEL", p, NO_NAME, m, ZERO)>>

Message(type, dev, m, addr) == [type |-> type, dev |-> dev, mac |-> m, addr |-> addr]

\* A client comes to a port; a bridge learns where it is from its first frame.
Join(m, p) ==
    /\ world.port[m] = NONE
    /\ (m \in Wired) = (p \in LanPorts)
    /\ Change([world EXCEPT !.port[m] = p, !.fdb[m] = IF world.bridged THEN p ELSE @])
    /\ drv' = IF p \in WlanPorts THEN drv \o CONNECT_EX(m, p) ELSE drv
    /\ nl' = IF world.bridged /\ world.fdb[m] # p THEN Append(nl, Message("RTM_NEWNEIGH", p, m, ZERO)) ELSE nl

Leave(m) ==
    LET p == world.port[m]
    IN /\ p # NONE
       /\ Change([world EXCEPT !.port[m] = NONE])
       /\ drv' = IF p \in WlanPorts THEN drv \o CLIENT_DISCONNECT(m, p) ELSE drv
       /\ UNCHANGED nl

\* A forwarding entry ages out, also that of a client that is only silent.
Age(m) ==
    /\ world.fdb[m] # NONE
    /\ Change([world EXCEPT !.fdb[m] = NONE])
    /\ nl' = Append(nl, Message("RTM_DELNEIGH", world.fdb[m], m, ZERO))
    /\ UNCHANGED drv

Learn(m, a) ==
    LET dev == Dev(world.port[m])
    IN /\ world.port[m] # NONE
       /\ \A e \in world.arp : e[3] # a
       /\ SecondAddress \/ a \in V6 \/ ~\E e \in world.arp : e[2] = m /\ e[3] \in V4
       /\ Change([world EXCEPT !.arp = @ \cup {<<dev, m, a>>}])
       /\ nl' = Append(nl, Message("RTM_NEWNEIGH", dev, m, a))
       /\ UNCHANGED drv

Expire(e) ==
    /\ Change([world EXCEPT !.arp = @ \ {e}])
    /\ nl' = Append(nl, Message("RTM_DELNEIGH", e[1], e[2], e[3]))
    /\ UNCHANGED drv

(***************************************************************************)
(* The netlink thread and the driver message thread                        *)
(***************************************************************************)

\* One datagram holds one message.  RTM_DELNEIGH fills in no iface_name.
ipa_nl_decode_nlmsg(msg) ==
    IF msg.type = "RTM_NEWNEIGH" THEN Event("NEW_NEIGH", msg.dev, msg.dev, msg.mac, msg.addr)
    ELSE Event("DEL_NEIGH", msg.dev, NO_NAME, msg.mac, msg.addr)

ipa_nl_recv_msg ==
    /\ nl # << >>
    /\ queue' = Append(queue, ipa_nl_decode_nlmsg(Head(nl)))
    /\ nl' = Tail(nl)
    /\ UNCHANGED <<world, drv, cache, told, clients, lost>>

ipa_driver_msg_notifier ==
    /\ drv # << >>
    /\ queue' = Append(queue, Head(drv))
    /\ drv' = Tail(drv)
    /\ UNCHANGED <<world, nl, cache, told, clients, lost>>

(***************************************************************************)
(* IPACM_Neighbor::event_callback, in the command thread.  A handler gives *)
(* the new cache, the events it posts and the clients whose address it     *)
(* drops.                                                                  *)
(***************************************************************************)
Result(c, posts, drops) == [cache |-> c, posts |-> posts, drops |-> drops]

Slots(c) == 1..Len(c.neighbor_client)
SlotsOf(c, m) == {i \in Slots(c) : c.neighbor_client[i].mac = m}
Slot(c, m) == CHOOSE i \in SlotsOf(c, m) : \A j \in SlotsOf(c, m) : i <= j
Known(c, m) == SlotsOf(c, m) # {}

ADDR_ADD(iface, m, a) == Event("ADDR_ADD", iface, NO_NAME, m, a)
ADDR_DEL(iface, m, a) == Event("ADDR_DEL", iface, NO_NAME, m, a)
Announce(d, iface, a) == IF d.event = "NEW_NEIGH" THEN ADDR_ADD(iface, d.mac, a) ELSE ADDR_DEL(iface, d.mac, a)

\* The entry goes and those after it move up.
Erase(c, m) ==
    LET i == Slot(c, m)
    IN [c EXCEPT !.neighbor_client = SubSeq(@, 1, i - 1) \o SubSeq(@, i + 1, Len(@))]

\* With the table full the entry at circular_index is overwritten, and then the
\* new client's own address is not kept.
Full(c) == Len(c.neighbor_client) = IPA_MAX_NUM_NEIGHBOR_CLIENTS
Insert(c, m, iface, v4) ==
    IF ~Full(c) THEN Result([c EXCEPT !.neighbor_client = Append(@, Entry(m, iface, v4))], << >>, {})
    ELSE Result([c EXCEPT !.neighbor_client[c.circular_index] = Entry(m, iface, NONE),
                          !.circular_index = (@ % IPA_MAX_NUM_NEIGHBOR_CLIENTS) + 1],
                << >>, {m, c.neighbor_client[c.circular_index].mac})

\* IPA_WLAN_CLIENT_ADD_EVENT_EX: the address kept from before is announced again,
\* unless the client comes by another IPA interface than it was learned on.
ClientAddEx(c, d) ==
    LET i == Slot(c, d.mac)
        old == c.neighbor_client[i]
        moved == [c EXCEPT !.neighbor_client[i].iface = d.iface]
    IN IF ~Known(c, d.mac) THEN Result(c, << >>, {})
       ELSE IF old.ipa_if_num # d.iface \/ old.v4 = NONE THEN Result(moved, << >>, {})
       ELSE Result(moved, <<ADDR_ADD(d.iface, d.mac, old.v4)>>, {})

\* An IPv4 entry of the bridge is the client's, behind the port it was seen on.
NeighV4OnBridge(c, d) ==
    LET i == Slot(c, d.mac)
    IN IF ~Known(c, d.mac) THEN Result(c, << >>, {d.mac})
       ELSE Result([c EXCEPT !.neighbor_client[i].v4 = d.addr],
                   <<Announce(d, c.neighbor_client[i].iface, d.addr)>>, {})

\* Mutant: the deletion is kept to the cache.
NeighV4_Keep(c, d) ==
    LET i == Slot(c, d.mac)
        r == IF Known(c, d.mac)
             THEN Result([c EXCEPT !.neighbor_client[i] = Entry(d.mac, d.iface, d.addr)], << >>, {})
             ELSE Insert(c, d.mac, d.iface, d.addr)
    IN IF d.event = "NEW_NEIGH" THEN [r EXCEPT !.posts = <<Announce(d, d.iface, d.addr)>>]
       ELSE Result(IF Known(c, d.mac) THEN Erase(c, d.mac) ELSE c, << >>, {d.mac})

NeighV4(c, d) ==
    LET i == Slot(c, d.mac)
        r == IF d.event = "NEW_NEIGH"
             THEN IF Known(c, d.mac)
                  THEN Result([c EXCEPT !.neighbor_client[i] = Entry(d.mac, d.iface, d.addr)], << >>, {})
                  ELSE Insert(c, d.mac, d.iface, d.addr)
             ELSE Result(IF Known(c, d.mac) THEN Erase(c, d.mac) ELSE c, << >>, {d.mac})
    IN [r EXCEPT !.posts = <<Announce(d, d.iface, d.addr)>>]

NeighV6(c, d) ==
    IF d.name # Bridge THEN Result(c, <<Announce(d, d.iface, d.addr)>>, {})
    ELSE IF ~Known(c, d.mac) THEN Result(c, << >>, {})
    ELSE Result(c, <<Announce(d, c.neighbor_client[Slot(c, d.mac)].iface, d.addr)>>, {})

\* No address: an association or a forwarding entry.  A client seen before is
\* announced with the IPv4 address it had, a new one is entered without.
NeighNoAddr(c, d) ==
    LET i == Slot(c, d.mac)
        old == c.neighbor_client[i]
        port == d.name # Bridge
        seen == IF port THEN [c EXCEPT !.neighbor_client[i].iface = d.iface] ELSE c
        posts == IF port /\ old.v4 # NONE THEN <<Announce(d, d.iface, old.v4)>> ELSE << >>
    IN IF Known(c, d.mac)
       THEN IF d.event = "DEL_NEIGH" THEN Result(Erase(seen, d.mac), posts, {d.mac})
            ELSE Result(seen, posts, {})
       ELSE IF d.event = "NEW_NEIGH" /\ port THEN Insert(c, d.mac, d.iface, NONE)
       ELSE Result(c, << >>, {})

event_callback(c, d) ==
    IF d.event = "CLIENT_ADD_EX" THEN ClientAddEx(c, d)
    ELSE IF d.addr \in LinkLocal THEN Result(c, << >>, {})
    ELSE IF d.addr \in V4 THEN IF d.name = Bridge THEN NeighV4OnBridge(c, d) ELSE NeighV4(c, d)
    ELSE IF d.addr \in V6 THEN NeighV6(c, d)
    ELSE NeighNoAddr(c, d)

NeighborEvent(d) ==
    LET r == event_callback(cache, d)
    IN /\ d.event \in {"CLIENT_ADD_EX", "NEW_NEIGH", "DEL_NEIGH"}
       /\ cache' = r.cache
       /\ queue' = Tail(queue) \o r.posts
       /\ lost' = (lost \ {p.mac : p \in {q \in Range(r.posts) : q.event = "ADDR_ADD" /\ q.addr \in V4}}) \cup r.drops
       /\ clients' = IF d.event = "CLIENT_ADD_EX" THEN clients \cup {<<d.iface, d.mac>>} ELSE clients
       /\ UNCHANGED told

(***************************************************************************)
(* The downstream interfaces.  A WLAN object knows its clients from their  *)
(* associations and listens to no deletion of an address; a LAN object     *)
(* makes a client of every address, and takes the whole client down with   *)
(* an IPv4 address.                                                        *)
(***************************************************************************)
Of(p, m) == {t \in told : t[1] = p /\ t[2] = m}

AddrAdd(d) ==
    LET heard == d.iface \in LanPorts \/ <<d.iface, d.mac>> \in clients
        old == IF d.addr \in V4 THEN {t \in Of(d.iface, d.mac) : t[3] \in V4} ELSE {}
    IN /\ d.event = "ADDR_ADD"
       /\ told' = IF heard THEN (told \ old) \cup {<<d.iface, d.mac, d.addr>>} ELSE told
       /\ UNCHANGED clients

AddrDel(d) ==
    /\ d.event = "ADDR_DEL"
    /\ told' = IF d.iface \notin LanPorts THEN told
               ELSE IF d.addr \in V4 THEN told \ Of(d.iface, d.mac)
               ELSE told \ {<<d.iface, d.mac, d.addr>>}
    /\ UNCHANGED clients

ClientDel(d) ==
    /\ d.event = "CLIENT_DEL"
    /\ told' = told \ Of(d.iface, d.mac)
    /\ clients' = clients \ {<<d.iface, d.mac>>}

ProcessEvt ==
    /\ queue # << >>
    /\ \/ NeighborEvent(Head(queue))
       \/ /\ AddrAdd(Head(queue)) \/ AddrDel(Head(queue)) \/ ClientDel(Head(queue))
          /\ queue' = Tail(queue)
          /\ UNCHANGED <<cache, lost>>
    /\ UNCHANGED <<world, nl, drv>>

Next ==
    \/ \E m \in Macs, p \in Ports : Join(m, p)
    \/ \E m \in Macs : Leave(m) \/ Age(m)
    \/ \E m \in Macs, a \in V4 \cup V6 : Learn(m, a)
    \/ \E e \in world.arp : Expire(e)
    \/ ipa_nl_recv_msg \/ ipa_driver_msg_notifier \/ ProcessEvt

Spec == Init /\ [][Next]_vars

(***************************************************************************)
(* Properties                                                              *)
(***************************************************************************)
Quiet == nl = << >> /\ drv = << >> /\ queue = << >>

\* Once everything posted has been handled, the interface a client is behind has
\* rules for the IPv4 address the kernel knows it by, in whichever order the
\* netlink and the driver thread reported the association, the forwarding entry
\* and the address, and after the client left and came back - unless the cache
\* had dropped the address.
AddressReaches ==
    Quiet => \A e \in world.arp :
        LET p == world.port[e[2]]
        IN p # NONE /\ e[1] = Dev(p) /\ e[3] \in V4 \ LinkLocal /\ e[2] \notin lost
               => <<p, e[2], e[3]>> \in told

\* Once everything posted has been handled, no rules are left for a client that
\* went: a WLAN object has only clients that are associated with it, and, without
\* a bridge, a LAN object only addresses the kernel still knows.
NoGhost ==
    Quiet => \A t \in told :
        IF t[1] \in WlanPorts THEN world.port[t[2]] = t[1]
        ELSE world.bridged \/ t \in world.arp

\* A client has one slot of neighbor_client, and no more slots are used than
\* there are, whatever was erased and overwritten in between.
OneSlot ==
    /\ Len(cache.neighbor_client) <= IPA_MAX_NUM_NEIGHBOR_CLIENTS
    /\ \A m \in Macs : Cardinality(SlotsOf(cache, m)) <= 1

\* The objects have the clients that are there, and the cache each of them once.
ClientsExact == NoGhost /\ OneSlot
=============================================================================
