------------------------------- MODULE LanRules -------------------------------
(***************************************************************************)
(* What one IPACM_Lan object (with its base class IPACM_Iface) installs in *)
(* the IPA driver: the default routes and filter rules of its addresses,   *)
(* the uplink rules while a WAN and the framework's downstream are there,  *)
(* and a header and routes for every tethered client.  The object's whole  *)
(* state is the record s; a handler is an operator from s to the set of    *)
(* its outcomes (see IpaDriver).  IPACM_Wlan, the subclass, is WlanRules,  *)
(* and Downstream is the system.                                           *)
(*                                                                         *)
(* The build is Android's with the offload HAL: one transmit property for  *)
(* each IP version, both header templates, and a receive property.  Filter *)
(* rule counters and resource-manager dependencies are left out: nothing   *)
(* here reads them.                                                        *)
(***************************************************************************)
EXTENDS FiniteSets, IpaDriver

CONSTANTS
    Macs, V4Addrs, V6Addrs,     \* of the tethered clients
    OtherPrefix,                \* those of V6Addrs outside the framework's prefix
    IfaceV6Addrs,               \* of the interface itself
    ExtProps,                   \* the IP versions the modem gave uplink rules for
    IPV6_NUM_ADDR,
    IPA_MAX_NUM_ETH_CLIENTS,
    MAX_DEFAULT_v6_ROUTE_RULES,
    NONE

IPs == {"v4", "v6"}

ASSUME LanAssumption ==
    /\ OtherPrefix \subseteq V6Addrs
    /\ NONE \notin V4Addrs
    /\ IPV6_NUM_ADDR \in Nat /\ IPA_MAX_NUM_ETH_CLIENTS \in Nat

\* Rules of the interface.
DftRt(ip, a) == <<"dft_rt", ip, a>>     \* for v6 the rules of both tables
Dft(ip) == <<"dft_fl", ip>>
Icmp(ip) == <<"icmp", ip>>
Private == <<"private_fl">>
Prefix == <<"ipv6_prefix">>
ModemUl(ip) == <<"wan_ul", ip>>
StaUl(ip) == <<"lan_wan", ip>>
SwRt(ip) == <<"software_routing", ip>>

\* Rules of a client.
Hdr(ip, m) == <<"hdr", ip, m>>
Rt(ip, m, a) == <<"client_rt", ip, m, a>>   \* v6: in rt_tbl_v6
RtWan(m, a) == <<"client_rt_wan", m, a>>    \* v6: in rt_tbl_wan_v6

\* A client as handle_eth_hdr_init leaves it.  v6_addr holds ipv6_set addresses.
NewClient(m) ==
    [mac |-> m, v4_addr |-> NONE, ipv4_set |-> FALSE, v6_addr |-> << >>,
     hdr |-> IPs, route_rule_set_v4 |-> FALSE, route_rule_set_v6 |-> 0,
     power_save_set |-> FALSE]

Clients(s) == DOMAIN s.client
get_client_index(s, m) ==
    IF \E k \in Clients(s) : s.client[k].mac = m
    THEN CHOOSE k \in Clients(s) :
            s.client[k].mac = m /\ \A j \in Clients(s) : s.client[j].mac = m => k <= j
    ELSE 0

Serves(s, ip) == s.ip_type \in {ip, "MAX"}

----------------------------------------------------------------------------
(* IPACM_Iface *)

\* IPACM_Iface and IPACM_Lan constructors: up is IPACM_Wan's wan_up and wan_up_v6.
NewObject(up, lan_on_sta, hw, faults) ==
    [is_active |-> TRUE, ip_type |-> "NULL", ipv6_addr |-> << >>, hdl |-> {},
     client |-> << >>, softwarerouting_act |-> FALSE,
     is_upstream_set |-> [ip \in IPs |-> up[ip] /\ ~lan_on_sta],
     is_downstream_set |-> [ip \in IPs |-> FALSE],
     modem_ul_set |-> [ip \in IPs |-> FALSE], sta_ul_set |-> [ip \in IPs |-> FALSE],
     private_subnet |-> FALSE, nat |-> {}, total_num_wifi_clients |-> 0, hw |-> hw, faults |-> faults]

config_ip_type(s, ip) ==
    [s EXCEPT !.ip_type = IF @ = "NULL" THEN ip ELSE IF @ = ip THEN @ ELSE "MAX"]

\* Multicast, broadcast and fragments go to the CPU.
init_fl_rule_v4(s) == AddFilteringRule(s, Dft("v4"))
init_fl_rule_v6(s) == AddFilteringRule(s, Dft("v6"))

handle_software_routing_enable(s) ==
    IF s.softwarerouting_act THEN Ok(s)
    ELSE AndThen(AddFilteringRule(s, SwRt("v4")), LAMBDA t :
         AndThen(AddFilteringRule(t, SwRt("v6")), LAMBDA u :
         Ok([u EXCEPT !.softwarerouting_act = TRUE])))

handle_software_routing_disable(s) ==
    IF ~s.softwarerouting_act THEN Ok(s)
    ELSE AndThen(DeleteFilteringHdls(s, SwRt("v4")), LAMBDA t :
         AndThen(DeleteFilteringHdls(t, SwRt("v6")), LAMBDA u :
         Ok([u EXCEPT !.softwarerouting_act = FALSE])))

----------------------------------------------------------------------------
(* The interface's own rules. *)

install_ipv4_icmp_flt_rule(s) == AddFilteringRule(s, Icmp("v4"))
install_ipv6_icmp_flt_rule(s) == AddFilteringRule(s, Icmp("v6"))

\* Three place holders, filled by handle_private_subnet_android; v4 only.
add_dummy_private_subnet_flt_rule(s, ip) ==
    IF ip = "v6" THEN Ok(s) ELSE AddFilteringRule(s, Private)

reset_to_dummy_flt_rule(s) == ModifyFilteringRule(s, Private)

handle_private_subnet_android(s, ip) ==
    IF ip = "v6" THEN Ok(s)
    ELSE Anyway(reset_to_dummy_flt_rule(s), LAMBDA t :
         AndThen(GetRoutingTable(t), LAMBDA u : ModifyFilteringRule(u, Private)))

install_ipv6_prefix_flt_rule(s) == AddFilteringRule(s, Prefix)
delete_ipv6_prefix_flt_rule(s) == DeleteFilteringHdls(s, Prefix)

\* IPACM_Config: the subnets that clients may reach without the WAN.
AddPrivateSubnet(s) == [s EXCEPT !.private_subnet = TRUE]
DelPrivateSubnet(s) == [s EXCEPT !.private_subnet = FALSE]

\* The first v4 address of the interface.
AddV4Addr(s) ==
    AndThen(AddRoutingRule(s, DftRt("v4", NONE)), LAMBDA t :
    Anyway(init_fl_rule_v4(t), LAMBDA u :
    Anyway(install_ipv4_icmp_flt_rule(u), Ok)))

\* A new v6 address; the filter rules come with the first.
AddV6Addr(s, a) ==
    LET added(t) == Ok([t EXCEPT !.ipv6_addr = Append(@, a)])
    IN AndThen(AddRoutingRule(s, DftRt("v6", a)), LAMBDA t :
       IF t.ipv6_addr # << >> THEN added(t)
       ELSE Anyway(install_ipv6_icmp_flt_rule(t), LAMBDA u :
            Anyway(init_fl_rule_v6(u), added)))

\* The IP version counts as served even if the address is refused.
handle_addr_evt(s, ip, a) ==
    LET t == config_ip_type(s, ip)
    IN IF ip = "v4" THEN AddV4Addr(AddPrivateSubnet(t))
       ELSE IF Contains(s.ipv6_addr, a) THEN Fail(t) ELSE AddV6Addr(t, a)

\* IPA_ADDR_ADD_EVENT for this interface.
AddrAdd(s, ip, a, up, sw_rt_enable) ==
    IF ~(\/ ~Serves(s, ip)
         \/ ip = "v6" /\ Len(s.ipv6_addr) # MAX_DEFAULT_v6_ROUTE_RULES)
    THEN Ok(s)
    ELSE AndThen(handle_addr_evt(s, ip, a), LAMBDA t :
         Anyway(add_dummy_private_subnet_flt_rule(t, ip), LAMBDA u :
         Anyway(handle_private_subnet_android(u, ip), LAMBDA v :
         LET w == [v EXCEPT !.is_upstream_set = [x \in IPs |-> @[x] \/ up[x]]]
         IN IF sw_rt_enable THEN handle_software_routing_enable(w) ELSE Ok(w))))

----------------------------------------------------------------------------
(* The uplink: rules that send a client's packets to the WAN. *)

\* Towards Wi-Fi station mode one rule to the WAN routing table.
StaUplink(s, ip) ==
    IF s.sta_ul_set[ip] THEN Fail(s)
    ELSE AndThen(GetRoutingTable(s), LAMBDA t :
         AndThen(AddFilteringRule(t, StaUl(ip)), LAMBDA u :
         Ok([u EXCEPT !.sta_ul_set[ip] = TRUE])))

handle_wan_up_v4(s) == StaUplink(s, "v4")
handle_wan_up_v6(s) == StaUplink(s, "v6")
handle_wan_up(s, ip) == IF ip = "v4" THEN handle_wan_up_v4(s) ELSE handle_wan_up_v6(s)

\* Towards the modem its own rules; the modem hears of them before they exist.
InstallModemRules(s, ip) ==
    AndThen(SendFilteringRuleIndex(s), LAMBDA t : AddFilteringRule(t, ModemUl(ip)))

handle_uplink_filter_rule(s, ip) ==
    IF ip \notin ExtProps THEN Ok(s)
    ELSE AndThen(Ioctl(s, "QUERY_EP_MAPPING", s), LAMBDA t : InstallModemRules(t, ip))

\* The flag is set whether or not the rules could be installed.
handle_wan_up_ex(s, ip) ==
    AndThen(Ioctl(s, "WRITE_QMAPID", s), LAMBDA t :
        IF t.modem_ul_set[ip] THEN Ok(t)
        ELSE {[o EXCEPT !.st.modem_ul_set[ip] = TRUE] :
                 o \in handle_uplink_filter_rule(t, ip)})

\* Mutant: the rule that is in place is guessed from the backhaul alone.
DeleteUplink_ByBackhaul(s, ip, is_sta_mode) ==
    AndThen(DeleteFilteringHdls(s, IF is_sta_mode THEN ModemUl(ip) ELSE StaUl(ip)), Ok)

\* Common to both IP versions.  Setting num_wan_ul_fl_rule to 0 forgets the handles.
DeleteUplink(s, ip, is_sta_mode) ==
    IF ~is_sta_mode /\ s.modem_ul_set[ip]
    THEN IF ModemUl(ip) \notin s.hdl THEN Fail(s)
         ELSE AndThen(DeleteFilteringHdls(s, ModemUl(ip)), LAMBDA t :
              LET u == [t EXCEPT !.hdl = @ \ {ModemUl(ip)}, !.modem_ul_set[ip] = FALSE]
              IN AndThen(Ioctl(u, "QUERY_EP_MAPPING", u), SendFilteringRuleIndex))
    ELSE AndThen(DeleteFilteringHdls(s, StaUl(ip)), LAMBDA t :
         Ok([t EXCEPT !.sta_ul_set[ip] = FALSE]))

handle_wan_down(s, is_sta_mode) == DeleteUplink(s, "v4", is_sta_mode)

handle_wan_down_v6(s, is_sta_mode) ==
    Anyway(delete_ipv6_prefix_flt_rule(s), LAMBDA t : DeleteUplink(t, "v6", is_sta_mode))

----------------------------------------------------------------------------
(* Tethered clients: a header for each IP version, and routes. *)

\* The conntrack listener is told of every v4 client (see NatApp).
HandleNeighIpAddrAddEvt(s, a) == [s EXCEPT !.nat = @ \cup {a}]
HandleNeighIpAddrDelEvt(s, a) == [s EXCEPT !.nat = @ \ {a}]

\* Mutant: the listener is left alone.
ForgetNeigh_Nop(s, i) == s

\* "if (client->ipv4_set) CtList->HandleNeighIpAddrDelEvt(client->v4_addr)"
ForgetNeigh(s, i) ==
    IF s.client[i].ipv4_set THEN HandleNeighIpAddrDelEvt(s, s.client[i].v4_addr) ELSE s

delete_rtrules_v4(s, i) ==
    LET c == s.client[i]
    IN IF ~c.route_rule_set_v4 THEN Ok(s)
       ELSE AndThen(DeleteRoutingHdl(s, Rt("v4", c.mac, c.v4_addr)), LAMBDA t :
            Ok([t EXCEPT !.client[i].route_rule_set_v4 = FALSE]))

delete_rtrules_v6(s, i) ==
    LET c == s.client[i]
        both(t, a) == AndThen(DeleteRoutingHdl(t, Rt("v6", c.mac, a)), LAMBDA u :
                      DeleteRoutingHdl(u, RtWan(c.mac, a)))
    IN AndThen(EachOf(s, SubSeq(c.v6_addr, 1, c.route_rule_set_v6), both), LAMBDA t :
       Ok([t EXCEPT !.client[i].route_rule_set_v6 = 0]))

delete_eth_rtrules(s, i, ip) ==
    IF ip = "v4" THEN delete_rtrules_v4(s, i) ELSE delete_rtrules_v6(s, i)

handle_eth_hdr_init_v4(s, m) ==
    AndThen(CopyHeader(s), LAMBDA t : AddHeader(t, Hdr("v4", m)))

handle_eth_hdr_init_v6(s, m) ==
    AndThen(CopyHeader(s), LAMBDA t : AddHeader(t, Hdr("v6", m)))

handle_eth_hdr_init(s, m) ==
    IF get_client_index(s, m) # 0 \/ Len(s.client) >= IPA_MAX_NUM_ETH_CLIENTS THEN Fail(s)
    ELSE AndThen(handle_eth_hdr_init_v4(s, m), LAMBDA t :
         AndThen(handle_eth_hdr_init_v6(t, m), LAMBDA u :
         Ok([u EXCEPT !.client = Append(@, NewClient(m))])))

\* Mutant: a client whose address changes keeps the route of the old one.
ClientV4Addr_KeepsRoute(s, i, a) ==
    LET c == s.client[i]
    IN IF c.ipv4_set /\ a = c.v4_addr THEN Fail(s)
       ELSE Ok([s EXCEPT !.client[i].v4_addr = a, !.client[i].ipv4_set = TRUE])

\* An address that changes takes its NAT entries and its route with it.
ClientV4Addr(s, i, a) ==
    LET c == s.client[i]
        store(t) == Ok([t EXCEPT !.client[i].v4_addr = a, !.client[i].ipv4_set = TRUE])
    IN IF ~c.ipv4_set THEN store(s)
       ELSE IF a = c.v4_addr THEN Fail(s)
       ELSE Anyway(delete_eth_rtrules(HandleNeighIpAddrDelEvt(s, c.v4_addr), i, "v4"),
                   LAMBDA t : store([t EXCEPT !.client[i].route_rule_set_v4 = FALSE]))

\* Refused: an address outside the prefix, a known one, one too many.
ClientV6Addr(s, i, a) ==
    IF a \in OtherPrefix \/ Contains(s.client[i].v6_addr, a)
       \/ Len(s.client[i].v6_addr) >= IPV6_NUM_ADDR
    THEN Fail(s) ELSE Ok([s EXCEPT !.client[i].v6_addr = Append(@, a)])

handle_eth_client_ipaddr(s, m, ip, a) ==
    LET i == get_client_index(s, m)
    IN IF i = 0 THEN Fail(s)
       ELSE IF ip = "v4" THEN ClientV4Addr(s, i, a) ELSE ClientV6Addr(s, i, a)

ClientRouteV4(s, i) ==
    LET c == s.client[i]
    IN IF c.route_rule_set_v4 \/ ~c.ipv4_set THEN Ok(s)
       ELSE AndThen(AddRoutingRule(s, Rt("v4", c.mac, c.v4_addr)), LAMBDA t :
            Ok([t EXCEPT !.client[i].route_rule_set_v4 = TRUE]))

\* One rule in rt_tbl_v6 and one in rt_tbl_wan_v6 for every address without.
ClientRouteV6(s, i) ==
    LET c == s.client[i]
        both(t, a) == AndThen(AddRoutingRule(t, Rt("v6", c.mac, a)), LAMBDA u :
                      AddRoutingRule(u, RtWan(c.mac, a)))
    IN AndThen(EachOf(s, SubSeq(c.v6_addr, c.route_rule_set_v6 + 1, Len(c.v6_addr)), both),
               LAMBDA t : Ok([t EXCEPT !.client[i].route_rule_set_v6 = Len(c.v6_addr)]))

handle_eth_client_route_rule(s, m, ip) ==
    LET i == get_client_index(s, m)
    IN IF i = 0 THEN Ok(s) ELSE IF ip = "v4" THEN ClientRouteV4(s, i) ELSE ClientRouteV6(s, i)

\* Any failure leaves the client where it is.
handle_eth_client_down_evt(s, m) ==
    LET i == get_client_index(s, m)
        header(t, ip) == IF ip \notin t.client[i].hdr THEN Ok(t)
                         ELSE AndThen(DeleteHeaderHdl(t, Hdr(ip, m)), LAMBDA u :
                              Ok([u EXCEPT !.client[i].hdr = @ \ {ip}]))
    IN IF i = 0 THEN Ok(s)
       ELSE AndThen(delete_eth_rtrules(ForgetNeigh(s, i), i, "v4"), LAMBDA t :
            AndThen(delete_eth_rtrules(t, i, "v6"), LAMBDA u :
            AndThen(header(u, "v4"), LAMBDA v :
            AndThen(header(v, "v6"), LAMBDA w :
            Ok([w EXCEPT !.client = RemoveAt(@, i)])))))

\* An address that is not the client's takes the last one's place (num_v6 is then
\* ipv6_set, which is not IPV6_NUM_ADDR): the last address is dropped with its
\* routes in place.
handle_del_ipv6_addr(s, m, a) ==
    LET i == get_client_index(s, m)
        c == s.client[i]
        n == SelectInSeq(c.v6_addr, LAMBDA v : v = a)
        known == n # 0
        drop(t) == [t EXCEPT !.client[i].v6_addr = IF known THEN RemoveAt(@, n) ELSE Front(@),
                             !.client[i].route_rule_set_v6 = @ - 1]
    IN IF i = 0 THEN Fail(s)
       ELSE IF ~known /\ Len(c.v6_addr) = IPV6_NUM_ADDR THEN Fail(s)
       ELSE IF c.route_rule_set_v6 = 0 THEN Ok(s)
       ELSE IF ~known THEN Ok(drop(s))
       ELSE AndThen(DeleteRoutingHdl(s, Rt("v6", m, a)), LAMBDA t :
            AndThen(DeleteRoutingHdl(t, RtWan(m, a)), LAMBDA u : Ok(drop(u))))

handle_lan_client_reset_rt(s, ip) ==
    AndThen(EachOf(s, Upto(Len(s.client)), LAMBDA t, i : delete_eth_rtrules(t, i, ip)), LAMBDA t :
    Ok([t EXCEPT !.client = [i \in DOMAIN @ |->
            IF ip = "v4" THEN [@[i] EXCEPT !.ipv4_set = FALSE]
            ELSE [@[i] EXCEPT !.v6_addr = << >>]]]))

----------------------------------------------------------------------------
(* The interface goes down. *)

\* The rules of one IP version, in the order they are deleted.
DownFilters(s, ip) ==
    IF ~Serves(s, ip) THEN Ok(s)
    ELSE AndThen(DeleteFilteringHdls(s, Icmp(ip)), LAMBDA t :
         AndThen(DeleteFilteringHdls(t, Dft(ip)), LAMBDA u :
         IF ip = "v4" THEN DeleteFilteringHdls(u, Private) ELSE Ok(u)))

DownRoutes(s) ==
    LET v4 == IF Serves(s, "v4") THEN DeleteRoutingHdl(s, DftRt("v4", NONE)) ELSE Ok(s)
    IN AndThen(v4, LAMBDA t : EachOf(t, t.ipv6_addr, LAMBDA u, a :
                                 DeleteRoutingHdl(u, DftRt("v6", a))))

DownSubnet(s) == Ok(IF Serves(s, "v4") THEN DelPrivateSubnet(s) ELSE s)

\* The uplink rules go only while the WAN that asked for them is up.
DownUplink(s, up, is_sta_mode) ==
    Anyway(IF up["v4"] THEN handle_wan_down(s, is_sta_mode) ELSE Ok(s), LAMBDA t :
           IF up["v6"] THEN handle_wan_down_v6(t, is_sta_mode) ELSE Ok(t))

\* What is left of a client when the loop has seen it; its flags stay as they are.
DropClient(s, i) ==
    LET header(t, ip) == IF ip \in t.client[i].hdr THEN DeleteHeaderHdl(t, Hdr(ip, t.client[i].mac))
                         ELSE Ok(t)
    IN Anyway(delete_eth_rtrules(ForgetNeigh(s, i), i, "v4"), LAMBDA t :
       Anyway(delete_eth_rtrules(t, i, "v6"), LAMBDA u :
       Anyway(header(u, "v4"), LAMBDA v : header(v, "v6"))))

\* Whatever fails, the label "fail" is reached: clients, software routing, is_active.
handle_down_evt(s, up, is_sta_mode) ==
    LET rules == IF s.ip_type = "NULL" THEN Fail(s)
                 ELSE Anyway(DownUplink(s, up, is_sta_mode), LAMBDA t :
                      AndThen(DownFilters(t, "v4"), LAMBDA u :
                      AndThen(DownFilters(u, "v6"), LAMBDA v :
                      AndThen(DownRoutes(v), DownSubnet))))
    IN Anyway(rules, LAMBDA t :
       Anyway(EachAnyway(t, Upto(Len(t.client)), DropClient), LAMBDA u :
       Anyway(handle_software_routing_disable(u), LAMBDA v :
       Ok([v EXCEPT !.is_active = FALSE, !.client = << >>]))))

----------------------------------------------------------------------------
(* IPACM_Lan::event_callback.  up and sta are IPACM_Wan's wan_up, wan_up_v6 *)
(* and backhaul_is_sta_mode when the event is handled.                      *)

\* IPA_HANDLE_WAN_UP_TETHER.  A station-mode backhaul ends the offload of all
\* clients; their header flags stay.
LanWanUp(s, is_sta) ==
    IF is_sta THEN EachAnyway(s, Upto(Len(s.client)), DropClient)
    ELSE IF ~Serves(s, "v4") \/ s.is_upstream_set["v4"] THEN Ok(s)
    ELSE LET t == [s EXCEPT !.is_upstream_set["v4"] = TRUE]
         IN IF t.is_downstream_set["v4"] THEN handle_wan_up_ex(t, "v4") ELSE Ok(t)

\* What both WAN_UP_V6 and DOWNSTREAM_ADD do once up- and downstream are there.
StartUplink(s, ip, is_sta) ==
    Anyway(IF ip = "v6" THEN install_ipv6_prefix_flt_rule(s) ELSE Ok(s), LAMBDA t :
           IF is_sta THEN handle_wan_up(t, ip) ELSE handle_wan_up_ex(t, ip))

\* IPA_HANDLE_WAN_UP_V6_TETHER.
LanWanUpV6(s, is_sta) ==
    IF ~Serves(s, "v6") \/ s.is_upstream_set["v6"] THEN Ok(s)
    ELSE LET t == [s EXCEPT !.is_upstream_set["v6"] = TRUE]
         IN IF t.is_downstream_set["v6"] THEN StartUplink(t, "v6", is_sta) ELSE Ok(t)

\* IPA_HANDLE_WAN_DOWN_TETHER.
LanWanDown(s, is_sta) ==
    IF ~Serves(s, "v4") \/ ~s.is_upstream_set["v4"] THEN Ok(s)
    ELSE LET t == [s EXCEPT !.is_upstream_set["v4"] = FALSE]
         IN IF t.is_downstream_set["v4"] THEN handle_wan_down(t, is_sta) ELSE Ok(t)

\* IPA_HANDLE_WAN_DOWN_V6_TETHER.
LanWanDownV6(s, is_sta) ==
    IF ~Serves(s, "v6") \/ ~s.is_upstream_set["v6"] THEN Ok(s)
    ELSE LET t == [s EXCEPT !.is_upstream_set["v6"] = FALSE]
         IN IF ~t.is_downstream_set["v6"] THEN Ok(t)
            ELSE Anyway(handle_lan_client_reset_rt(t, "v6"), LAMBDA u :
                 handle_wan_down_v6(u, is_sta))

\* IPA_DOWNSTREAM_ADD: the framework wants this interface offloaded.
LanDownstreamAdd(s, ip, sta) ==
    IF s.is_downstream_set[ip] THEN Ok(s)
    ELSE LET t == [s EXCEPT !.is_downstream_set[ip] = TRUE]
         IN IF t.is_upstream_set[ip] /\ Serves(t, ip) THEN StartUplink(t, ip, sta) ELSE Ok(t)

\* IPA_DOWNSTREAM_DEL.
LanDownstreamDel(s, ip, sta) ==
    IF ~s.is_downstream_set[ip] THEN Ok(s)
    ELSE LET t == [s EXCEPT !.is_downstream_set[ip] = FALSE]
         IN IF ~t.is_upstream_set[ip] THEN Ok(t)
            ELSE IF ip = "v4" THEN handle_wan_down(t, sta)
            ELSE Anyway(handle_lan_client_reset_rt(t, "v6"), LAMBDA u :
                 handle_wan_down_v6(u, sta))

\* IPA_NEIGH_CLIENT_IP_ADDR_ADD_EVENT: no offload behind a station-mode backhaul.
LanNeighAdd(s, m, ip, a, sta) ==
    IF sta THEN Ok(s)
    ELSE Anyway(handle_eth_hdr_init(s, m), LAMBDA t :
         AndThen(handle_eth_client_ipaddr(t, m, ip, a), LAMBDA u :
         Anyway(handle_eth_client_route_rule(u, m, ip), LAMBDA v :
         Ok(IF ip = "v4" THEN HandleNeighIpAddrAddEvt(v, a) ELSE v))))

\* IPA_NEIGH_CLIENT_IP_ADDR_DEL_EVENT.
LanNeighDel(s, m, ip, a) ==
    IF ip = "v6" THEN handle_del_ipv6_addr(s, m, a) ELSE handle_eth_client_down_evt(s, m)

\* IPA_CRADLE_WAN_MODE_SWITCH: the station-mode uplink rule routes or translates.
handle_cradle_wan_mode_switch(s) ==
    AndThen(GetRoutingTable(s), LAMBDA t : ModifyFilteringRule(t, StaUl("v4")))

=============================================================================
