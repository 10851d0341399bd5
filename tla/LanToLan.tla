------------------------------- MODULE LanToLan -------------------------------
(***************************************************************************)
(* IPACM_LanToLan: the hardware bridge between the LAN interfaces.  Every  *)
(* interface keeps, for the clients of its peers, filter rules (on its own *)
(* pipe) and, for its own clients, routing rules, one set per L2 header    *)
(* type that occurs among its peers; interfaces of the same type share a   *)
(* routing table and the header context, which are counted.  A WLAN        *)
(* interface is also bridged to itself (intra).                            *)
(*                                                                         *)
(* The LAN objects post their ETH_BRIDGE events to the internal queue,     *)
(* which is served before anything else (EventQueues): what one event      *)
(* makes them post is handled in the same step, in the order of posting.   *)
(***************************************************************************)
EXTENDS Naturals, FiniteSets, IpaDriver

CONSTANTS
    Eths, Wlans,            \* the interfaces,
    L2,                     \* and their hdr_l2_type
    Macs, Attach,           \* the clients, and <<interface, client>> that may meet
    MAX_NUM_IFACE, MAX_NUM_CLIENT, MAX_NUM_CACHED_CLIENT_ADD_EVENT,
    PENDING_MAX,            \* how many channel switches may wait (a bound)
    CacheMisled             \* before its interface has an address, a client may leave, be
                            \* announced again, or be one too many for the cache

VARIABLES
    s,          \* the bridge and the driver
    obj,        \* the LAN and WLAN objects: addresses, clients, access mode
    pending     \* the SCC/MCC events that wait

vars == <<s, obj, pending>>

IPs == {"v4", "v6"}
Ifaces == Eths \cup Wlans
INTRA == "intra"
Types == {L2[i] : i \in Ifaces}

ASSUME BridgeAssumption == INTRA \notin Types /\ Eths \cap Wlans = {}

Ctx(i, t) == <<"ctx", i, t>>
Rt(i, c, t, ip) == <<"rt", i, c, t, ip>>        \* client c of i, for senders of type t
Flt(i, p, c, ip) == <<"flt", i, p, c, ip>>      \* on i, for client c of p

\* IPACM_LanToLan_Iface.  rt holds, for each client, the types for which it has
\* routing rules; flt the <<peer, client, IP version>> that have a filter rule.
NewIface(i, ip, guest) ==
    [ips |-> {ip}, inter |-> ~(i \in Wlans /\ guest), intra |-> i \in Wlans,
     ref |-> [t \in Types |-> 0], peers |-> << >>, clients |-> << >>,
     rt |-> [c \in Macs |-> {}], flt |-> {}]

NewObj == [ips |-> {}, clients |-> {}, guest |-> FALSE]

Init ==
    /\ s = [hw |-> EmptyBag, hdl |-> {}, faults |-> 0, alt |-> {}, isMCC_Mode |-> FALSE,
            iface |-> << >>, L |-> << >>, cached |-> << >>]
    /\ obj = [i \in Ifaces |-> NewObj]
    /\ pending = 0

Each(t, xs, F(_, _)) == FoldLeft(F, t, xs)
Ordered(ips) == SelectSeq(<<"v4", "v6">>, LAMBDA ip : ip \in ips)
PushFront(x, xs) == <<x>> \o xs
TableType(i, p) == IF p = i THEN INTRA ELSE L2[p]

----------------------------------------------------------------------------
(* The rules, installed through the IPACM_Lan object. *)

Pipe(t, i, r) == [t EXCEPT !.alt = IF i \in Wlans /\ t.isMCC_Mode THEN @ \cup {r} ELSE @ \ {r}]

eth_bridge_add_hdr_proc_ctx(t, i, type) == Install(t, Ctx(i, type))
eth_bridge_del_hdr_proc_ctx(t, i, type) == Uninstall(t, Ctx(i, type))
eth_bridge_add_rt_rule(t, i, c, type, ip) == Pipe(Install(t, Rt(i, c, type, ip)), i, Rt(i, c, type, ip))
eth_bridge_del_rt_rule(t, i, c, type, ip) ==
    [Uninstall(t, Rt(i, c, type, ip)) EXCEPT !.alt = @ \ {Rt(i, c, type, ip)}]

\* WLAN interfaces only.
eth_bridge_modify_rt_rule(t, i, c, type, ip) ==
    IF Installed(t, Rt(i, c, type, ip)) THEN Pipe(t, i, Rt(i, c, type, ip)) ELSE t

eth_bridge_add_flt_rule(t, i, p, c, ip) == Install(t, Flt(i, p, c, ip))
eth_bridge_del_flt_rule(t, i, p, c, ip) ==
    IF <<p, c, ip>> \in t.L[i].flt THEN Uninstall(t, Flt(i, p, c, ip)) ELSE t

----------------------------------------------------------------------------
(* IPACM_LanToLan_Iface *)

add_client_rt_rule(t, i, p, c) ==
    LET type == TableType(i, p)
        u == Each(t, <<"v4", "v6">>, LAMBDA v, ip : eth_bridge_add_rt_rule(v, i, c, type, ip))
    IN [u EXCEPT !.L[i].rt[c] = @ \cup {type}]

del_client_rt_rule(t, i, p, c) ==
    LET type == TableType(i, p)
        u == Each(t, <<"v4", "v6">>, LAMBDA v, ip : eth_bridge_del_rt_rule(v, i, c, type, ip))
    IN IF type \in t.L[i].rt[c] THEN [u EXCEPT !.L[i].rt[c] = @ \ {type}] ELSE t

add_client_flt_rule(t, i, p, c, ip) ==
    [eth_bridge_add_flt_rule(t, i, p, c, ip) EXCEPT !.L[i].flt = @ \cup {<<p, c, ip>>}]

del_client_flt_rule(t, i, p, c) ==
    [Each(t, Ordered(t.L[i].ips), LAMBDA u, ip : eth_bridge_del_flt_rule(u, i, p, c, ip))
        EXCEPT !.L[i].flt = {f \in @ : <<f[1], f[2]>> # <<p, c>>}]

add_one_client_flt_rule(t, i, p, c) ==
    IF ~Contains(t.L[i].peers, p) THEN t
    ELSE Each(t, Ordered(t.L[i].ips), LAMBDA u, ip : add_client_flt_rule(u, i, p, c, ip))

del_one_client_flt_rule(t, i, p, c) ==
    IF ~Contains(t.L[i].peers, p) THEN t ELSE del_client_flt_rule(t, i, p, c)

add_all_inter_interface_client_flt_rule(t, i, ip) ==
    Each(t, t.L[i].peers, LAMBDA u, p :
        Each(u, u.L[p].clients, LAMBDA v, c : add_client_flt_rule(v, i, p, c, ip)))

add_all_intra_interface_client_flt_rule(t, i, ip) ==
    Each(t, t.L[i].clients, LAMBDA u, c : add_client_flt_rule(u, i, i, c, ip))

clear_all_flt_rule_for_one_peer_iface(t, i, p) ==
    Each(t, SetToSeq({f[2] : f \in {g \in t.L[i].flt : g[1] = p}}),
         LAMBDA u, c : del_client_flt_rule(u, i, p, c))

\* The count is that of the peer's type, for the interface itself too: it is
\* called after the inter-interface peers are gone.
clear_all_rt_rule_for_one_peer_iface(t, i, p) ==
    IF t.L[i].ref[L2[p]] # 0 THEN t
    ELSE Each(t, t.L[i].clients, LAMBDA u, c : del_client_rt_rule(u, i, p, c))

add_hdr_proc_ctx(t, i, type) ==
    IF t.L[i].ref[type] = 1 THEN eth_bridge_add_hdr_proc_ctx(t, i, type) ELSE t

del_hdr_proc_ctx(t, i, type) ==
    IF t.L[i].ref[type] = 0 THEN eth_bridge_del_hdr_proc_ctx(t, i, type) ELSE t

handle_new_peer(t, i, p) ==
    [add_hdr_proc_ctx([t EXCEPT !.L[i].ref[L2[p]] = @ + 1], i, L2[p])
        EXCEPT !.L[i].peers = PushFront(p, @)]

\* Mutant: the routing rules are added for every new peer.
add_client_rt_rule_for_new_iface_Always(t, i) ==
    Each(t, t.L[i].clients, LAMBDA u, c : add_client_rt_rule(u, i, Head(t.L[i].peers), c))

\* The first peer of its type.
add_client_rt_rule_for_new_iface(t, i) ==
    LET p == Head(t.L[i].peers)
    IN IF t.L[i].ref[L2[p]] # 1 THEN t
       ELSE Each(t, t.L[i].clients, LAMBDA u, c : add_client_rt_rule(u, i, p, c))

handle_intra_interface_info(t, i) == eth_bridge_add_hdr_proc_ctx(t, i, INTRA)

\* The peers that are the first of their type, as the flag array picks them.
FirstOfType(peers) ==
    {k \in DOMAIN peers : \A j \in 1..(k - 1) : L2[peers[j]] # L2[peers[k]]}

iface_client_add(t, i, c) ==
    LET u == [t EXCEPT !.L[i].clients = PushFront(c, @)]
        peers == t.L[i].peers
        one(v, k) ==
            add_one_client_flt_rule(IF k \in FirstOfType(peers) THEN add_client_rt_rule(v, i, peers[k], c) ELSE v,
                                    peers[k], i, c)
        v == IF t.L[i].inter THEN Each(u, Upto(Len(peers)), one) ELSE u
    IN IF Contains(t.L[i].clients, c) \/ Len(t.L[i].clients) = MAX_NUM_CLIENT THEN t
       ELSE IF ~t.L[i].intra THEN v
       ELSE Each(add_client_rt_rule(v, i, i, c), Ordered(t.L[i].ips), LAMBDA x, ip :
                 add_client_flt_rule(x, i, i, c, ip))

iface_client_del(t, i, c) ==
    LET peers == t.L[i].peers
        one(v, k) ==
            LET x == del_one_client_flt_rule(v, peers[k], i, c)
            IN IF k \in FirstOfType(peers) THEN del_client_rt_rule(x, i, peers[k], c) ELSE x
        u == IF t.L[i].inter THEN Each(t, Upto(Len(peers)), one) ELSE t
        v == IF t.L[i].intra THEN del_client_rt_rule(del_client_flt_rule(u, i, i, c), i, i, c) ELSE u
    IN IF ~Contains(t.L[i].clients, c) THEN t
       ELSE [v EXCEPT !.L[i].clients = SelectSeq(@, LAMBDA x : x # c)]

\* handle_down_event, for one peer: the other side first forgets this one.
PartFrom(t, i, p) ==
    LET u == [t EXCEPT !.L[i].ref[L2[p]] = @ - 1, !.L[p].ref[L2[i]] = @ - 1]
        v == clear_all_flt_rule_for_one_peer_iface(u, i, p)
        x == clear_all_rt_rule_for_one_peer_iface(clear_all_flt_rule_for_one_peer_iface(v, p, i), p, i)
        y == del_hdr_proc_ctx([x EXCEPT !.L[p].peers = SelectSeq(@, LAMBDA q : q # i)], p, L2[i])
        z == clear_all_rt_rule_for_one_peer_iface(y, i, p)
    IN del_hdr_proc_ctx(z, i, L2[p])

handle_down_event(t, i) ==
    LET u == IF t.L[i].inter THEN Each(t, t.L[i].peers, LAMBDA v, p : PartFrom(v, i, p)) ELSE t
        v == clear_all_rt_rule_for_one_peer_iface(clear_all_flt_rule_for_one_peer_iface(u, i, i), i, i)
    IN IF t.L[i].intra THEN eth_bridge_del_hdr_proc_ctx(v, i, INTRA) ELSE u

ModifyClient(t, i, type) ==
    Each(t, t.L[i].clients, LAMBDA u, c :
        Each(u, <<"v4", "v6">>, LAMBDA v, ip : eth_bridge_modify_rt_rule(v, i, c, type, ip)))

\* Mutant: the rules between the clients of one interface are forgotten.
iface_scc_mcc_switch_Inter(t, i) ==
    LET peers == t.L[i].peers
    IN Each(t, Upto(Len(peers)), LAMBDA v, k :
            IF k \in FirstOfType(peers) THEN ModifyClient(v, i, L2[peers[k]]) ELSE v)

iface_scc_mcc_switch(t, i) ==
    LET peers == t.L[i].peers
        one(v, k) == IF k \in FirstOfType(peers) THEN ModifyClient(v, i, L2[peers[k]]) ELSE v
        u == IF t.L[i].inter THEN Each(t, Upto(Len(peers)), one) ELSE t
    IN IF t.L[i].intra THEN ModifyClient(u, i, INTRA) ELSE u

----------------------------------------------------------------------------
(* IPACM_LanToLan *)

Known(t, i) == Contains(t.iface, i)

handle_client_add(t, i, c) ==
    IF Known(t, i) THEN iface_client_add(t, i, c)
    ELSE IF Len(t.cached) >= MAX_NUM_CACHED_CLIENT_ADD_EVENT THEN t
    ELSE [t EXCEPT !.cached = PushFront(<<i, c>>, @)]

handle_client_del(t, i, c) == IF Known(t, i) THEN iface_client_del(t, i, c) ELSE t

clear_cached_client_add_event(t, i) == [t EXCEPT !.cached = SelectSeq(@, LAMBDA e : e[1] # i)]

\* Mutant: the clients that came early are forgotten.
handle_cached_client_add_event_Drop(t, i) == clear_cached_client_add_event(t, i)

handle_cached_client_add_event(t, i) ==
    clear_cached_client_add_event(
        Each(t, SelectSeq(t.cached, LAMBDA e : e[1] = i), LAMBDA u, e : handle_client_add(u, i, e[2])), i)

handle_new_iface_up(t, i, p) == handle_new_peer(handle_new_peer(t, p, i), i, p)

\* The interface is known and gets an address of another IP version.
AnotherAddress(t, i, ip) ==
    LET u == [t EXCEPT !.L[i].ips = @ \cup {ip}]
        v == IF u.L[i].inter THEN add_all_inter_interface_client_flt_rule(u, i, ip) ELSE u
    IN IF ip \in t.L[i].ips THEN t
       ELSE IF v.L[i].intra THEN add_all_intra_interface_client_flt_rule(v, i, ip) ELSE v

handle_iface_up(t, i, ip, guest) ==
    LET u == [t EXCEPT !.L = @ @@ (i :> NewIface(i, ip, guest)), !.iface = PushFront(i, @)]
        meet(v, p) == IF v.L[p].inter
                      THEN add_client_rt_rule_for_new_iface(handle_new_iface_up(v, i, p), p) ELSE v
        v == IF u.L[i].inter
             THEN add_all_inter_interface_client_flt_rule(Each(u, t.iface, meet), i, ip) ELSE u
        x == IF u.L[i].intra THEN handle_intra_interface_info(v, i) ELSE v
    IN IF Known(t, i) THEN AnotherAddress(t, i, ip)
       ELSE IF Len(t.iface) = MAX_NUM_IFACE THEN t
       ELSE handle_cached_client_add_event(x, i)

handle_iface_down(t, i) ==
    IF ~Known(t, i) THEN clear_cached_client_add_event(t, i)
    ELSE [handle_down_event(t, i)
            EXCEPT !.iface = SelectSeq(@, LAMBDA p : p # i),
                   !.L = [p \in DOMAIN @ \ {i} |-> @[p]]]

handle_wlan_scc_mcc_switch(t, i) == IF Known(t, i) THEN iface_scc_mcc_switch(t, i) ELSE t

----------------------------------------------------------------------------
(* The events of the LAN and WLAN objects *)

\* An address: IPA_ETH_BRIDGE_IFACE_UP.
AddrAdd ==
    \E i \in Ifaces, ip \in IPs :
        /\ ip \notin obj[i].ips
        /\ obj' = [obj EXCEPT ![i].ips = @ \cup {ip}]
        /\ s' = handle_iface_up(s, i, ip, obj[i].guest)
        /\ UNCHANGED pending

LinkDown ==
    \E i \in Ifaces :
        /\ obj[i] # NewObj
        /\ obj' = [obj EXCEPT ![i] = NewObj]
        /\ s' = handle_iface_down(s, i)
        /\ UNCHANGED pending

\* A station associates, or a neighbour of an Ethernet interface appears.
ClientAdd ==
    \E <<i, c>> \in Attach :
        /\ \/ CacheMisled \/ Known(s, i)
           \/ c \notin obj[i].clients /\ Len(s.cached) < MAX_NUM_CACHED_CLIENT_ADD_EVENT
        /\ obj' = [obj EXCEPT ![i].clients = @ \cup {c}]
        /\ s' = handle_client_add(s, i, c)
        /\ UNCHANGED pending

\* Only a WLAN object tells the bridge that a client left.
ClientDel ==
    \E i \in Ifaces : \E c \in obj[i].clients :
        /\ CacheMisled \/ Known(s, i)
        /\ obj' = [obj EXCEPT ![i].clients = @ \ {c}]
        /\ s' = IF i \in Wlans THEN handle_client_del(s, i, c) ELSE s
        /\ UNCHANGED pending

\* eth_bridge_handle_wlan_mode_switch: down, up and the clients again, with the
\* new access mode.
ModeSwitch ==
    \E i \in Wlans :
        LET down == handle_iface_down(s, i)
            up == Each(down, Ordered(obj[i].ips), LAMBDA t, ip : handle_iface_up(t, i, ip, ~obj[i].guest))
        IN /\ obj[i].ips # {}
           /\ obj' = [obj EXCEPT ![i].guest = ~@]
           /\ s' = Each(up, SetToSeq(obj[i].clients), LAMBDA t, c : handle_client_add(t, i, c))
           /\ UNCHANGED pending

\* The thread that reads the driver's messages sets the mode when it posts
\* IPA_WLAN_SWITCH_TO_SCC or _MCC.
PostSwitch ==
    /\ pending < PENDING_MAX
    /\ pending' = pending + 1
    /\ s' = [s EXCEPT !.isMCC_Mode = ~@]
    /\ UNCHANGED obj

HandleSwitch ==
    /\ pending > 0
    /\ pending' = pending - 1
    /\ s' = Each(s, SetToSeq(Wlans), LAMBDA t, i : handle_wlan_scc_mcc_switch(t, i))
    /\ UNCHANGED obj

Next ==
    \/ AddrAdd \/ LinkDown \/ ClientAdd \/ ClientDel \/ ModeSwitch
    \/ PostSwitch \/ HandleSwitch

Spec == Init /\ [][Next]_vars

----------------------------------------------------------------------------
(* Properties *)

\* Two interfaces that bridge to each other.
Peers(i, p) == i # p /\ Known(s, i) /\ Known(s, p) /\ s.L[i].inter /\ s.L[p].inter
Bridged(i, p) == Peers(i, p) \/ (i = p /\ Known(s, i) /\ s.L[i].intra)

\* What the driver should hold: a filter rule on every interface for every client
\* that can be reached from it, and for each client the routing rules of the tables
\* those filter rules lead to, with their header contexts; each once.
Expected ==
    {Flt(i, p, c, ip) : <<i, p, c, ip>> \in
        {f \in Ifaces \X Ifaces \X Macs \X IPs :
            Bridged(f[1], f[2]) /\ Contains(s.L[f[2]].clients, f[3]) /\ f[4] \in s.L[f[1]].ips}}
    \cup UNION {{Rt(i, c, TableType(i, p), ip) : c \in Range(s.L[i].clients), ip \in IPs}
                \cup {Ctx(i, TableType(i, p))}
                : <<i, p>> \in {e \in Ifaces \X Ifaces : Bridged(e[1], e[2])}}

\* The driver holds exactly the rules that the interfaces and clients known to the
\* bridge call for, whatever the order in which interfaces that share tables and
\* header contexts come, go and change their access mode.
BridgeExact == s.hw = SetToBag(Expected)

\* The bridge knows exactly the clients of the WLAN interfaces it bridges, those
\* that associated before the interface had an address included; and no filter
\* rule points to a client that is gone.
ClientsFollow ==
    \A i \in Range(s.iface) :
        /\ i \in Wlans => Range(s.L[i].clients) = obj[i].clients
        /\ \A f \in s.L[i].flt : Known(s, f[1]) /\ Contains(s.L[f[1]].clients, f[2])

\* Once no channel switch waits, every WLAN routing rule sends to the pipe of the
\* current mode, although the mode changes before the event is handled.
PipeFollowsMode ==
    pending = 0 =>
        \A r \in BagToSet(s.hw) : r[1] = "rt" /\ r[2] \in Wlans => (r \in s.alt <=> s.isMCC_Mode)

=============================================================================
