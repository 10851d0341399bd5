------------------------------ MODULE Downstream ------------------------------
(***************************************************************************)
(* A tethered interface of IPACM, wired (IPACM_Lan) or Wi-Fi (IPACM_Wlan), *)
(* among the events that reach it: its own link and addresses, the WAN     *)
(* going up and down, the framework's downstream requests, its clients.    *)
(* Every event is handled to its end by the command thread; the events     *)
(* come from different threads in any order.  The WAN objects post their   *)
(* WAN_UP and WAN_DOWN on the internal queue, which is served first (see   *)
(* EventQueues), so their statics and the event change in one step.        *)
(***************************************************************************)
EXTENDS WlanRules

CONSTANTS
    WlanAddrs,      \* those of the client addresses that Wi-Fi clients use (a bound)
    FAULTS,         \* how many ioctls may fail in a behaviour (a bound),
    FaultyKinds,    \* and for which classes
    EarlyWanDown,   \* the WAN may go down before the interface has an address
    StrayV6Delete   \* a v6 address that was never stored may be deleted

VARIABLES
    kind,       \* the class of the object: "lan" or "wlan"
    alive,      \* the object exists
    s,          \* its state, and what the driver holds
    wan_up,     \* IPACM_Wan::wan_up and wan_up_v6
    sta         \* IPACM_Wan::backhaul_is_sta_mode

vars == <<kind, alive, s, wan_up, sta>>

Init ==
    /\ kind \in {"lan", "wlan"}
    /\ alive = FALSE
    /\ wan_up = [ip \in IPs |-> FALSE] /\ sta = FALSE
    /\ s = [NewObject(wan_up, FALSE, EmptyBag, IF kind \in FaultyKinds THEN FAULTS ELSE 0) EXCEPT !.is_active = FALSE]

\* An event that only an active object handles.
Handle(outcomes) ==
    /\ alive /\ s.is_active
    /\ s' \in States(outcomes)
    /\ UNCHANGED <<kind, alive>>

OwnEvent(outcomes) == Handle(outcomes) /\ UNCHANGED <<wan_up, sta>>
Lan(outcomes) == kind = "lan" /\ OwnEvent(outcomes)
Wlan(outcomes) == kind = "wlan" /\ OwnEvent(outcomes)

LinkUp ==
    /\ ~alive /\ alive' = TRUE
    /\ s' = [NewObject(wan_up, kind = "lan" /\ sta, s.hw, s.faults)
                EXCEPT !.total_num_wifi_clients = s.total_num_wifi_clients]
    /\ UNCHANGED <<kind, wan_up, sta>>

LinkDown ==
    \/ Lan(handle_down_evt(s, wan_up, sta))
    \/ Wlan(WlanLinkDown(s, wan_up, sta))

DeleteSelf ==
    /\ alive /\ ~s.is_active /\ alive' = FALSE
    /\ UNCHANGED <<kind, s, wan_up, sta>>

AddrAddEvt ==
    \E ip \in IPs : \E a \in IF ip = "v4" THEN {NONE} ELSE IfaceV6Addrs :
        \/ Lan(AddrAdd(s, ip, a, wan_up, FALSE))
        \/ Wlan(WlanAddrAdd(s, ip, a, wan_up, FALSE))

\* Nobody to handle it, or a handler of the class.
WanEvent(lan, wlan) ==
    \/ ~(alive /\ s.is_active) /\ UNCHANGED <<kind, alive, s>>
    \/ kind = "lan" /\ Handle(lan)
    \/ kind = "wlan" /\ Handle(wlan)

\* One upstream at a time: both IP versions are of the same kind.
WanUp ==
    \E ip \in IPs, is_sta \in BOOLEAN :
        /\ ~wan_up[ip] /\ wan_up' = [wan_up EXCEPT ![ip] = TRUE]
        /\ (\E other \in IPs : wan_up[other]) => is_sta = sta
        /\ sta' = is_sta
        /\ IF ip = "v4" THEN WanEvent(LanWanUp(s, is_sta), WlanWanUp(s, is_sta))
           ELSE WanEvent(LanWanUpV6(s, is_sta), WlanWanUpV6(s, is_sta))

WanDown ==
    \E ip \in IPs :
        /\ wan_up[ip] /\ wan_up' = [wan_up EXCEPT ![ip] = FALSE]
        /\ EarlyWanDown \/ ~s.is_active \/ Serves(s, ip)
        /\ UNCHANGED sta
        /\ IF ip = "v4" THEN WanEvent(LanWanDown(s, sta), WlanWanDown(s, sta))
           ELSE WanEvent(LanWanDownV6(s, sta), WlanWanDownV6(s, sta))

DownstreamAdd ==
    \E ip \in IPs : \/ Lan(LanDownstreamAdd(s, ip, sta))
                    \/ Wlan(WlanDownstreamAdd(s, ip, sta))

DownstreamDel ==
    \E ip \in IPs : \/ Lan(LanDownstreamDel(s, ip, sta))
                    \/ Wlan(WlanDownstreamDel(s, ip, sta))

Addrs(ip) == IF ip = "v4" THEN V4Addrs ELSE V6Addrs

NeighAdd ==
    \E m \in Macs, ip \in IPs : \E a \in Addrs(ip) :
        \/ Lan(LanNeighAdd(s, m, ip, a, sta))
        \/ a \in WlanAddrs /\ Wlan(WlanNeighAdd(s, m, ip, a))

NeighDel ==
    \E m \in Macs, ip \in IPs : \E a \in Addrs(ip) :
        /\ StrayV6Delete \/ ip = "v4"
           \/ \E k \in Clients(s) : s.client[k].mac = m /\ Contains(s.client[k].v6_addr, a)
        /\ Lan(LanNeighDel(s, m, ip, a))

\* The Wi-Fi driver announces a station once.
ClientAdd ==
    \E m \in Macs : get_client_index(s, m) = 0 /\ Wlan(handle_wlan_client_init_ex(s, m))
ClientDel == \E m \in Macs : Wlan(handle_wlan_client_down_evt(s, m))
PowerSave == \E m \in Macs : Wlan(handle_wlan_client_pwrsave(s, m))
Recover == \E m \in Macs : Wlan(WlanClientRecover(s, m))

SwRouting ==
    \/ OwnEvent(handle_software_routing_enable(s))
    \/ OwnEvent(handle_software_routing_disable(s))

PrivateSubnetChange == OwnEvent(handle_private_subnet_android(s, "v4"))
CradleWanModeSwitch == OwnEvent(handle_cradle_wan_mode_switch(s))

Next ==
    \/ LinkUp \/ LinkDown \/ DeleteSelf \/ AddrAddEvt
    \/ WanUp \/ WanDown \/ DownstreamAdd \/ DownstreamDel
    \/ NeighAdd \/ NeighDel \/ ClientAdd \/ ClientDel \/ PowerSave \/ Recover
    \/ SwRouting \/ PrivateSubnetChange \/ CradleWanModeSwitch

Spec == Init /\ [][Next]_vars

----------------------------------------------------------------------------
(* Properties *)

\* A packet of a client reaches the hardware's uplink only while there is one:
\* uplink rules and the v6 prefix rule are in the driver only while the interface
\* is active, has an address, the framework asked for it and the WAN is up.
UplinkSound ==
    \A ip \in IPs :
        (Installed(s, ModemUl(ip)) \/ Installed(s, StaUl(ip)) \/ (ip = "v6" /\ Installed(s, Prefix)))
            => /\ alive /\ s.is_active /\ Serves(s, ip)
               /\ s.is_downstream_set[ip] /\ s.is_upstream_set[ip] /\ wan_up[ip]

\* What the object's own variables say is in the driver.
Recorded ==
    {DftRt("v4", NONE), Private} \cup {DftRt("v6", s.ipv6_addr[k]) : k \in DOMAIN s.ipv6_addr}
    \cup {Dft(ip) : ip \in IPs} \cup {Icmp(ip) : ip \in IPs}
    \cup UNION {{ModemUl(ip)} : ip \in {x \in IPs : s.modem_ul_set[x]}}
    \cup UNION {{StaUl(ip)} : ip \in {x \in IPs : s.sta_ul_set[x]}}
    \cup {Prefix} \cup (IF s.softwarerouting_act THEN {SwRt(ip) : ip \in IPs} ELSE {})
    \cup UNION {
        LET c == s.client[k]
            routed == {c.v6_addr[n] : n \in 1..c.route_rule_set_v6}
        IN {Hdr(ip, c.mac) : ip \in c.hdr}
           \cup (IF c.route_rule_set_v4 THEN {Rt("v4", c.mac, c.v4_addr)} ELSE {})
           \cup {Rt("v6", c.mac, a) : a \in routed} \cup {RtWan(c.mac, a) : a \in routed}
        : k \in Clients(s)}

\* Nothing is left behind: every rule and header in the driver is there once and
\* the object can still find it, and a dead object leaves none, nor its subnet.
NoLeak ==
    /\ \A r \in BagToSet(s.hw) : CopiesIn(r, s.hw) = 1 /\ r \in Recorded
    /\ ~s.is_active => s.hw = EmptyBag /\ ~s.private_subnet

\* A client that is marked as routed has its route, for the address it has now.
RoutesServed ==
    \A k \in Clients(s) : LET c == s.client[k] IN
        /\ c.route_rule_set_v4 => c.ipv4_set /\ Installed(s, Rt("v4", c.mac, c.v4_addr))
        /\ \A n \in 1..c.route_rule_set_v6 :
               Installed(s, Rt("v6", c.mac, c.v6_addr[n])) /\ Installed(s, RtWan(c.mac, c.v6_addr[n]))

\* Connections are translated only for addresses that clients have: an address
\* that was given up, or that of a client that left, is withdrawn from the
\* conntrack listener.
NatOwned ==
    s.nat \subseteq {s.client[k].v4_addr : k \in {j \in Clients(s) : s.client[j].ipv4_set}}

=============================================================================
