------------------------------- MODULE WanRules -------------------------------
(***************************************************************************)
(* IPACM_Wan: what the upstream interfaces install in the IPA driver and   *)
(* in the modem's downlink filter table.  An object is a modem PDN         *)
(* (Q6_WAN), the Wi-Fi station (WLAN_WAN) or the eMBMS interface.  The     *)
(* record s holds the driver (see IpaDriver), the objects (s.obj) and the  *)
(* static members the objects share.  The system is Wan.                   *)
(*                                                                         *)
(* The downlink table is sent to the modem whole.  It is built in the      *)
(* static arrays flt_rule_v4 and flt_rule_v6, whose rows are modelled by   *)
(* the group of rules they hold: row 1 the default rules, for v6 row 2 the *)
(* TCP rules, then the ICMP and ALG rules and the firewall.  num_v4 and    *)
(* num_v6_flt_rule say how many rows count.                                *)
(***************************************************************************)
EXTENDS Integers, FiniteSets, IpaDriver

CONSTANTS
    Modems, Station, Embms,         \* the interfaces
    WanV4Addrs, WanV6Addrs,         \* their own addresses,
    Global,                         \* and those of them that are global
    Macs, GW4, GW6, OtherV4,        \* the station's neighbours and their addresses
    MAX_DEFAULT_v6_ROUTE_RULES, IPA_MAX_NUM_WAN_CLIENTS, IPV6_NUM_ADDR,
    NONE

IPs == {"v4", "v6"}
Wans == Modems \cup {Station, Embms}
No == [ip \in IPs |-> FALSE]

ASSUME WanAssumption ==
    /\ Global \subseteq WanV6Addrs /\ NONE \notin WanV4Addrs
    /\ Station \notin Modems /\ Embms \notin Modems \cup {Station}

\* Rules in the driver.
DftRt(w, ip, a) == <<"dft_rt", w, ip, a>>       \* v6: the rules of both tables
DftFl(w, ip) == <<"dft_fl", w, ip>>
DestFl(w, a) == <<"ipv6_dest", w, a>>
WanRt(w, ip) == <<"wan_route", w, ip>>
WanRtA5(w) == <<"wan_route_a5", w>>
WanFl(w, ip) == <<"dft_wan_fl", w, ip>>
Firewall(w, ip) == <<"firewall", w, ip>>
Frag(w) == <<"ipv6_frag", w>>
SwRt(w, ip) == <<"software_routing", w, ip>>
DummyHdr(w) == <<"dummy_hdr", w>>
DummyCtx(w) == <<"dummy_ctx", w>>
Hdr(w, m, ip) == <<"hdr", w, m, ip>>
Rt(w, m, ip, a) == <<"client_rt", w, m, ip, a>> \* v6: the rules of both tables

\* Every deletion is guarded by a flag of the object, or the object ends with it:
\* the handle is not used again.
DropFiltering(s, r) ==
    {IF o.ok THEN [o EXCEPT !.st.hdl = @ \ {r}] ELSE o : o \in DeleteFilteringHdls(s, r)}

\* An object as its constructor leaves it.  ips stands for ip_type, v6_addr for
\* the num_dft_rt_v6 addresses, pdn for modem_ipv4 and modem_ipv6_pdn_index.
NewWan ==
    [ips |-> {}, v4_addr |-> NONE, v6_addr |-> << >>, dest |-> << >>, ipv6_prefix |-> FALSE,
     active |-> No, is_default_gateway |-> FALSE, addr_gw_set |-> No,
     header_set |-> {}, header_partial |-> {}, firewall |-> {}, frag |-> FALSE,
     dummy |-> FALSE, client |-> << >>, pdn |-> [ip \in IPs |-> 0], softwarerouting_act |-> FALSE]

NewClient(m) ==
    [mac |-> m, v4_addr |-> NONE, v6_addr |-> << >>, hdr |-> IPs,
     route_rule_set_v4 |-> FALSE, route_rule_set_v6 |-> 0]

IsQ6(w) == w \in Modems \cup {Embms}
Alive(s, w) == w \in Range(s.order)
Set(s, w, o) == [s EXCEPT !.obj[w] = o]

----------------------------------------------------------------------------
(* The modem's downlink filter table. *)

UNSET == "unset"
DefaultRows == [v4 |-> 1, v6 |-> 2]     \* IPA_V2_NUM_DEFAULT_WAN_FILTER_RULE_IPV4, IPV6

\* rules[offset] = g
WriteRow(s, ip, offset, g) ==
    LET rows == s.rows[ip]
        padded == rows \o [k \in 1..(offset + 1 - Len(rows)) |-> UNSET]
    IN [s EXCEPT !.rows[ip] = IF Len(rows) > offset THEN [rows EXCEPT ![offset + 1] = g]
                              ELSE [padded EXCEPT ![offset + 1] = g]]

\* A group is appended where num says the table ends.
AddRow(s, ip, g) == [WriteRow(s, ip, s.num[ip], g) EXCEPT !.num[ip] = @ + 1]

\* The default rules: for v6 the multicast and fragment rules only.
add_dft_filtering_rule_v4(s) == AddRow(s, "v4", "dft")
add_dft_filtering_rule_v6(s) == AddRow(s, "v6", "dft")

add_tcpv6_filtering_rule(s) == AddRow(s, "v6", "tcp")
add_icmp_alg_rules(s, ip) == AddRow(s, ip, "icmp")

\* The firewall file as it is now, and the rule for everything else.
config_dft_firewall_rules_ex_v4(s) == AddRow(s, "v4", <<"firewall", s.firewall_enable>>)
config_dft_firewall_rules_ex_v6(s) == AddRow(s, "v6", <<"firewall", s.firewall_enable>>)

config_wan_firewall_rule(s, ip) ==
    LET t == IF ip = "v6" THEN add_tcpv6_filtering_rule(s) ELSE s
        u == add_icmp_alg_rules([t EXCEPT !.num[ip] = DefaultRows[ip]], ip)
    IN IF ip = "v4" THEN config_dft_firewall_rules_ex_v4(u) ELSE config_dft_firewall_rules_ex_v6(u)

\* The rows behind the default ones are cleared; the default ones count even if
\* they were not all written.
del_wan_firewall_rule(s, ip) ==
    [s EXCEPT !.num[ip] = DefaultRows[ip],
              !.rows[ip] = SubSeq(@, 1, IF Len(@) < DefaultRows[ip] THEN Len(@) ELSE DefaultRows[ip])]

\* The rows that are sent: those num counts, written or not.
Sent(s, ip) == [k \in 1..s.num[ip] |-> IF k <= Len(s.rows[ip]) THEN s.rows[ip][k] ELSE UNSET]

config_dft_embms_rules(s) == [ip \in IPs |-> <<"embms">> \o Sent(s, ip)]

AddWanDLFilteringRule(s, dl) == [s EXCEPT !.dl = dl]

\* is_sw_routing or ipa_sw_rt_enable: one rule that sends everything to software.
install_wan_filtering_rule(s, w, is_sw_routing) ==
    IF is_sw_routing \/ s.ipa_sw_rt_enable
    THEN IF s.obj[w].softwarerouting_act THEN s
         ELSE [AddWanDLFilteringRule(s, [ip \in IPs |-> <<"software">>])
                    EXCEPT !.obj[w].softwarerouting_act = TRUE]
    ELSE AddWanDLFilteringRule(s, IF s.embms_is_on THEN config_dft_embms_rules(s)
                                  ELSE [ip \in IPs |-> Sent(s, ip)])

----------------------------------------------------------------------------
(* The interface's addresses. *)

GetHeaderHandle(s) == Ioctl(s, "GET_HDR", s)
AddNatIfaces(s, w, ip) == [s EXCEPT !.nat_ifaces = @ \cup {<<w, ip>>}]
DelNatIfaces(s, w) == [s EXCEPT !.nat_ifaces = {n \in @ : n[1] # w}]

\* The first PDN writes the default rules of the downlink table.
init_fl_rule_ex(s, w, ip) ==
    LET t == IF s.obj[w].pdn[ip] # 0 THEN s
             ELSE LET u == [s EXCEPT !.num[ip] = 0]
                  IN IF ip = "v4" THEN add_dft_filtering_rule_v4(u) ELSE add_dft_filtering_rule_v6(u)
    IN AddNatIfaces(install_wan_filtering_rule(t, w, FALSE), w, ip)

\* The interface becomes known to the offload manager even if the rule is refused.
init_fl_rule(s, w, ip) ==
    Anyway(AddFilteringRule(AddNatIfaces(s, w, ip), DftFl(w, ip)), Ok)

FirstFilters(s, w, ip) ==
    IF IsQ6(w)
    THEN Ok(init_fl_rule_ex([s EXCEPT !.obj[w].pdn[ip] = s.num_modem_pdn[ip],
                                      !.num_modem_pdn[ip] = @ + 1], w, ip))
    ELSE init_fl_rule(s, w, ip)

is_global_ipv6_addr(a) == a \in Global

\* The filter rules come with the second address.
AddV6Addr(s, w, a) ==
    LET header == IF IsQ6(w) THEN GetHeaderHandle(s) ELSE Ok(s)
        filters(t) == IF Len(t.obj[w].v6_addr) = 1 THEN FirstFilters(t, w, "v6") ELSE Ok(t)
        dest(t) == IF ~IsQ6(w) /\ is_global_ipv6_addr(a)
                      /\ Len(t.obj[w].dest) < MAX_DEFAULT_v6_ROUTE_RULES
                   THEN AndThen(AddFilteringRule(t, DestFl(w, a)), LAMBDA u :
                        Ok([u EXCEPT !.obj[w].dest = Append(@, a)]))
                   ELSE Ok(t)
    IN AndThen(header, LAMBDA t :
       AndThen(AddRoutingRule(t, DftRt(w, "v6", a)), LAMBDA u :
       Anyway(filters(u), LAMBDA v :
       AndThen(dest(v), LAMBDA x :
       Ok([x EXCEPT !.obj[w].v6_addr = Append(@, a),
                    !.obj[w].ipv6_prefix = @ \/ is_global_ipv6_addr(a)])))))

AddV4Addr(s, w, a) ==
    LET old == s.obj[w].v4_addr
        dropped == IF old = NONE THEN Ok(s) ELSE DeleteRoutingHdl(s, DftRt(w, "v4", old))
        header(t) == IF IsQ6(w) THEN GetHeaderHandle(t) ELSE Ok(t)
        filters(t) == IF old = NONE THEN FirstFilters(t, w, "v4") ELSE Ok(t)
    IN AndThen(dropped, LAMBDA t :
       AndThen(header(t), LAMBDA u :
       AndThen(AddRoutingRule(u, DftRt(w, "v4", a)), LAMBDA v :
       Anyway(filters(v), LAMBDA x : Ok([x EXCEPT !.obj[w].v4_addr = a])))))

\* Succeeds if the offload manager's cache is to be searched, the last step (see
\* Wan): an address that is already known returns before it.
handle_addr_evt(s, w, ip, a) ==
    LET t == [s EXCEPT !.obj[w].ips = @ \cup {ip}]
        o == s.obj[w]
    IN IF ip = "v6"
       THEN IF Contains(o.v6_addr, a) THEN Fail(t) ELSE AddV6Addr(t, w, a)
       ELSE IF o.v4_addr = a THEN Fail(t) ELSE AddV4Addr(t, w, a)

handle_software_routing_enable(s, w) ==
    IF s.obj[w].softwarerouting_act THEN Ok(s)
    ELSE AndThen(AddFilteringRule(s, SwRt(w, "v4")), LAMBDA t :
         AndThen(AddFilteringRule(t, SwRt(w, "v6")), LAMBDA u :
         Ok([u EXCEPT !.obj[w].softwarerouting_act = TRUE])))

handle_software_routing_disable(s, w) ==
    IF ~s.obj[w].softwarerouting_act THEN Ok(s)
    ELSE AndThen(DropFiltering(s, SwRt(w, "v4")), LAMBDA t :
         AndThen(DropFiltering(t, SwRt(w, "v6")), LAMBDA u :
         Ok([u EXCEPT !.obj[w].softwarerouting_act = FALSE])))

----------------------------------------------------------------------------
(* The firewall of the station: filter rules of its own. *)

\* rule_v4 rules of the firewall file, then the default.
FirewallV4(s, w) ==
    LET rules == IF ~s.firewall_enable THEN Ok(s)
                 ELSE AndThen(AddFilteringRule(s, Firewall(w, "v4")), LAMBDA t :
                      Ok([t EXCEPT !.obj[w].firewall = @ \cup {"v4"}]))
    IN AndThen(GetRoutingTable(s), LAMBDA t :
       AndThen(rules, LAMBDA u : AddFilteringRule(u, WanFl(w, "v4"))))

\* The fragment rule comes first, the ICMP rule (with the default here) last.
FirewallV6(s, w) ==
    LET frag == IF ~s.firewall_enable THEN Ok(s)
                ELSE AndThen(AddFilteringRule(s, Frag(w)), LAMBDA t :
                     Ok([t EXCEPT !.obj[w].frag = TRUE]))
        rules(t) == IF ~t.firewall_enable THEN Ok(t)
                    ELSE AndThen(AddFilteringRule(t, Firewall(w, "v6")), LAMBDA u :
                         Ok([u EXCEPT !.obj[w].firewall = @ \cup {"v6"}]))
    IN AndThen(frag, LAMBDA t :
       AndThen(GetRoutingTable(t), LAMBDA u :
       AndThen(rules(u), LAMBDA v : AddFilteringRule(v, WanFl(w, "v6")))))

config_dft_firewall_rules(s, w, ip) ==
    IF ip = "v4" THEN FirewallV4(s, w) ELSE FirewallV6(s, w)

del_dft_firewall_rules(s, w, ip) ==
    LET o == s.obj[w]
        rules == IF ip \notin o.firewall THEN Ok(s) ELSE DropFiltering(s, Firewall(w, ip))
        frag(t) == IF ~(ip = "v6" /\ o.frag) THEN Ok(t)
                   ELSE AndThen(DropFiltering(t, Frag(w)), LAMBDA u :
                        Ok([u EXCEPT !.obj[w].frag = FALSE]))
    IN IF ~o.active[ip] THEN Ok(s)
       ELSE AndThen(rules, LAMBDA t :
            AndThen(DropFiltering(t, WanFl(w, ip)), LAMBDA u :
            AndThen(frag(u), LAMBDA v :
            Ok([v EXCEPT !.obj[w].firewall = @ \ {ip}]))))

----------------------------------------------------------------------------
(* The default route.  lan is what the LAN objects were last told of the   *)
(* upstream, ct what the conntrack listener was.                           *)

post_wan_up_tether_evt(s, ip) == [s EXCEPT !.lan[ip] = TRUE]
post_wan_down_tether_evt(s, ip) == [s EXCEPT !.lan[ip] = FALSE]

add_dummy_rx_hdr(s, w) ==
    AndThen(CopyHeader(s), LAMBDA t :
    AndThen(AddHeader(t, DummyHdr(w)), LAMBDA u :
    AndThen(Ioctl(u, "ADD_HDR_PROC_CTX", Install(u, DummyCtx(w))), LAMBDA v :
    Ok([v EXCEPT !.obj[w].dummy = TRUE]))))

\* The default routes of the station; towards the modem there are none.
DefaultRoute(s, w, ip) == IF IsQ6(w) THEN Ok(s) ELSE AddRoutingRule(s, WanRt(w, ip))

ExceptionRoute(s, w, ip) ==
    IF ip = "v4" THEN Ok(s)
    ELSE AndThen(IF IsQ6(w) THEN GetHeaderHandle(s) ELSE add_dummy_rx_hdr(s, w),
                 LAMBDA t : AddRoutingRule(t, WanRtA5(w)))

GoUp(s, w, ip) ==
    LET t == [s EXCEPT !.wan_up[ip] = TRUE, !.obj[w].active[ip] = TRUE]
        u == IF IsQ6(w)
             THEN Ok(install_wan_filtering_rule(config_wan_firewall_rule(t, ip), w, FALSE))
             ELSE config_dft_firewall_rules(t, w, ip)
    IN Anyway(u, LAMBDA v : Ok([v EXCEPT !.ct[ip] = TRUE]))

\* A station that does not know its gateway's header yet only remembers the route.
handle_route_add_evt(s, w, ip) ==
    LET t == [s EXCEPT !.obj[w].is_default_gateway = TRUE, !.backhaul_is_sta_mode = ~IsQ6(w)]
    IN IF ~IsQ6(w) /\ ip \notin s.obj[w].header_set
       THEN Ok([t EXCEPT !.obj[w].header_partial = @ \cup {ip}])
       ELSE AndThen(DefaultRoute(t, w, ip), LAMBDA u :
            AndThen(ExceptionRoute(u, w, ip), LAMBDA v : GoUp(v, w, ip)))

GoDown(s, w, ip) ==
    Ok([s EXCEPT !.ct[ip] = FALSE, !.wan_up[ip] = FALSE, !.obj[w].active[ip] = FALSE])

\* The flag is one for both IP versions.
handle_route_del_evt(s, w, ip) ==
    LET t == [s EXCEPT !.obj[w].is_default_gateway = FALSE]
    IN IF ~s.obj[w].active[ip] THEN Ok(t)
       ELSE AndThen(DeleteRoutingHdl(t, WanRt(w, ip)), LAMBDA u :
            AndThen(IF ip = "v6" THEN DeleteRoutingHdl(u, WanRtA5(w)) ELSE Ok(u), LAMBDA v :
            GoDown(v, w, ip)))

handle_route_del_evt_ex(s, w, ip) ==
    LET t == [s EXCEPT !.obj[w].is_default_gateway = FALSE]
    IN IF ~s.obj[w].active[ip] THEN Ok(t)
       ELSE AndThen(IF ip = "v6" THEN DeleteRoutingHdl(t, WanRtA5(w)) ELSE Ok(t), LAMBDA v :
            GoDown(v, w, ip))

----------------------------------------------------------------------------
(* The station's neighbours, of which one is the gateway. *)

get_wan_client_index(o, m) == SelectInSeq(o.client, LAMBDA c : c.mac = m)
get_wan_client_index_ipv4(o, a) == SelectInSeq(o.client, LAMBDA c : c.v4_addr = a)
get_wan_client_index_ipv6(o, a) == SelectInSeq(o.client, LAMBDA c : Contains(c.v6_addr, a))

\* Every client has both headers (a client that got only one is not counted), so
\* the two header flags are set together.  A gateway that was announced and is not
\* found ends the search: the header may be set and the waiting routes not added.
handle_sta_header_add_evt(s, w) ==
    LET o == s.obj[w]
        missed4 == o.addr_gw_set["v4"] /\ get_wan_client_index_ipv4(o, GW4) = 0
        missed6 == o.addr_gw_set["v6"] /\ get_wan_client_index_ipv6(o, GW6) = 0
        t == IF o.addr_gw_set["v4"] \/ (o.addr_gw_set["v6"] /\ ~missed6)
             THEN [s EXCEPT !.obj[w].header_set = IPs] ELSE s
        partial(u, ip) == IF ip \in o.header_partial THEN handle_route_add_evt(u, w, ip) ELSE Ok(u)
    IN IF o.header_set # {} \/ missed4 THEN Ok(s)
       ELSE IF missed6 THEN Ok(t)
       ELSE Anyway(partial(t, "v4"), LAMBDA u : partial(u, "v6"))

\* handle_wan_hdr_init, one IP version.
HdrInit(s, w, m, ip) == AndThen(CopyHeader(s), LAMBDA t : AddHeader(t, Hdr(w, m, ip)))

handle_wan_hdr_init(s, w, m) ==
    IF get_wan_client_index(s.obj[w], m) # 0
       \/ Len(s.obj[w].client) >= IPA_MAX_NUM_WAN_CLIENTS
    THEN Fail(s)
    ELSE AndThen(HdrInit(s, w, m, "v4"), LAMBDA t :
         AndThen(HdrInit(t, w, m, "v6"), LAMBDA u :
         Ok([u EXCEPT !.obj[w].client = Append(@, NewClient(m))])))

\* Mutant: the routes of a client stay.
delete_wan_rtrules_Kept(s, w, i, ip) == Ok(s)

delete_wan_rtrules(s, w, i, ip) ==
    LET c == s.obj[w].client[i]
    IN IF ip = "v4"
       THEN IF ~c.route_rule_set_v4 THEN Ok(s)
            ELSE AndThen(DeleteRoutingHdl(s, Rt(w, c.mac, "v4", c.v4_addr)), LAMBDA t :
                 Ok([t EXCEPT !.obj[w].client[i].route_rule_set_v4 = FALSE]))
       ELSE AndThen(EachOf(s, Upto(c.route_rule_set_v6), LAMBDA t, n :
                        DeleteRoutingHdl(t, Rt(w, c.mac, "v6", c.v6_addr[n]))), LAMBDA t :
            Ok([t EXCEPT !.obj[w].client[i].route_rule_set_v6 = 0]))

\* sta_client is the conntrack listener's list of station clients.
handle_wan_client_ipaddr(s, w, m, ip, a) ==
    LET i == get_wan_client_index(s.obj[w], m)
        c == s.obj[w].client[i]
        set(t) == Ok([t EXCEPT !.obj[w].client[i].v4_addr = a, !.sta_client = @ \cup {a}])
    IN IF i = 0 THEN Fail(s)
       ELSE IF ip = "v4"
       THEN IF c.v4_addr = NONE THEN set(s)
            ELSE IF c.v4_addr = a THEN Fail(s)
            ELSE Anyway(delete_wan_rtrules([s EXCEPT !.sta_client = @ \ {c.v4_addr}], w, i, "v4"),
                        LAMBDA t : set([t EXCEPT !.obj[w].client[i].route_rule_set_v4 = FALSE]))
       ELSE IF Len(c.v6_addr) >= IPV6_NUM_ADDR \/ Contains(c.v6_addr, a) THEN Fail(s)
       ELSE Ok([s EXCEPT !.obj[w].client[i].v6_addr = Append(@, a)])

handle_wan_client_route_rule(s, w, m, ip) ==
    LET i == get_wan_client_index(s.obj[w], m)
        c == s.obj[w].client[i]
        missing == SubSeq(c.v6_addr, c.route_rule_set_v6 + 1, Len(c.v6_addr))
    IN IF i = 0 THEN Ok(s)
       ELSE IF ip = "v4"
       THEN IF c.route_rule_set_v4 \/ c.v4_addr = NONE THEN Ok(s)
            ELSE AndThen(AddRoutingRule(s, Rt(w, m, "v4", c.v4_addr)), LAMBDA t :
                 Ok([t EXCEPT !.obj[w].client[i].route_rule_set_v4 = TRUE]))
       ELSE AndThen(EachOf(s, missing, LAMBDA t, a : AddRoutingRule(t, Rt(w, m, "v6", a))), LAMBDA t :
            Ok([t EXCEPT !.obj[w].client[i].route_rule_set_v6 = Len(c.v6_addr)]))

----------------------------------------------------------------------------
(* The interface goes down. *)

LoseRoute(s, w, ip) ==
    IF ~s.obj[w].active[ip] THEN Ok(s)
    ELSE Anyway(del_dft_firewall_rules(s, w, ip), LAMBDA t :
         Anyway(handle_route_del_evt(t, w, ip), LAMBDA u : Ok(post_wan_down_tether_evt(u, ip))))

DropAddrs(s, w, ip) ==
    LET o == s.obj[w]
        addrs == IF ip = "v6" THEN o.v6_addr ELSE IF o.v4_addr = NONE THEN << >> ELSE <<o.v4_addr>>
    IN IF ip \notin o.ips THEN Ok(s)
       ELSE EachOf(s, addrs, LAMBDA t, a : DeleteRoutingHdl(t, DftRt(w, ip, a)))

DropClient(s, w, i) ==
    LET c == s.obj[w].client[i]
    IN AndThen(delete_wan_rtrules([s EXCEPT !.sta_client = @ \ {c.v4_addr}], w, i, "v4"), LAMBDA t :
       AndThen(delete_wan_rtrules(t, w, i, "v6"), LAMBDA u :
       AndThen(DeleteHeaderHdl(u, Hdr(w, c.mac, "v4")), LAMBDA v :
       DeleteHeaderHdl(v, Hdr(w, c.mac, "v6")))))

DropFilters(s, w) ==
    LET dft(t, ip) == IF ip \notin t.obj[w].ips THEN Ok(t) ELSE DropFiltering(t, DftFl(w, ip))
    IN AndThen(dft(s, "v4"), LAMBDA t :
       AndThen(dft(t, "v6"), LAMBDA u :
       EachOf(u, u.obj[w].dest, LAMBDA v, a : DropFiltering(v, DestFl(w, a)))))

DropDummy(s, w) ==
    IF ~s.obj[w].dummy THEN Ok(s)
    ELSE AndThen(Ioctl(s, "DEL_HDR_PROC_CTX", Uninstall(s, DummyCtx(w))), LAMBDA t :
         DeleteHeaderHdl(t, DummyHdr(w)))

\* The station.
handle_down_evt(s, w) ==
    IF s.obj[w].ips = {} THEN Ok(s)
    ELSE Anyway(LoseRoute(s, w, "v4"), LAMBDA t :
         Anyway(LoseRoute(t, w, "v6"), LAMBDA u :
         AndThen(DropAddrs(u, w, "v4"), LAMBDA v :
         AndThen(DropAddrs(v, w, "v6"), LAMBDA x :
         AndThen(EachOf(x, Upto(Len(x.obj[w].client)), LAMBDA y, i : DropClient(y, w, i)), LAMBDA y :
         Anyway(handle_software_routing_disable(y, w), LAMBDA z :
         AndThen(DropFilters(z, w), LAMBDA r : DropDummy(r, w))))))))

\* A modem PDN: one IP version of handle_down_evt_ex.
LosePdn(s, w, ip) ==
    LET t == del_wan_firewall_rule([s EXCEPT !.wan_up[ip] = FALSE], ip)
        u == IF s.obj[w].ips = IPs THEN t ELSE install_wan_filtering_rule(t, w, FALSE)
    IN Anyway(handle_route_del_evt_ex(u, w, ip), LAMBDA v : Ok(post_wan_down_tether_evt(v, ip)))

\* The last PDN empties its part of the downlink table.
LastPdn(s, w, ip) ==
    IF s.num_modem_pdn[ip] # 0 THEN s
    ELSE install_wan_filtering_rule([s EXCEPT !.num[ip] = 0, !.rows[ip] = << >>], w, FALSE)

DownExOne(s, w, ip) ==
    LET counted == ip = "v4" \/ Len(s.obj[w].v6_addr) > 1
        t == IF counted THEN [s EXCEPT !.num_modem_pdn[ip] = @ - 1] ELSE s
    IN Anyway(IF t.obj[w].is_default_gateway THEN LosePdn(t, w, ip) ELSE Ok(t), LAMBDA u :
       DropAddrs(LastPdn(u, w, ip), w, ip))

\* Both: the flag is looked at once, and the table is sent once.
DownExBoth(s, w) ==
    LET t == [s EXCEPT !.num_modem_pdn["v4"] = @ - 1,
                       !.num_modem_pdn["v6"] = IF Len(s.obj[w].v6_addr) > 1 THEN @ - 1 ELSE @]
        lost == IF ~t.obj[w].is_default_gateway THEN Ok(t)
                ELSE Anyway(LosePdn(t, w, "v4"), LAMBDA u :
                     Anyway(LosePdn(u, w, "v6"), LAMBDA v : Ok(install_wan_filtering_rule(v, w, FALSE))))
    IN Anyway(lost, LAMBDA u :
       AndThen(DropAddrs(LastPdn(LastPdn(u, w, "v4"), w, "v6"), w, "v4"), LAMBDA v :
       DropAddrs(v, w, "v6")))

handle_down_evt_ex(s, w) ==
    LET o == s.obj[w]
    IN IF w = Embms THEN Ok(install_wan_filtering_rule([s EXCEPT !.embms_is_on = FALSE], w, FALSE))
       ELSE IF o.ips = {} THEN Ok(s)
       ELSE Anyway(IF o.ips = IPs THEN DownExBoth(s, w)
                   ELSE DownExOne(s, w, CHOOSE ip \in IPs : ip \in o.ips), LAMBDA t :
            handle_software_routing_disable(t, w))

----------------------------------------------------------------------------
(* IPACM_Wan::event_callback *)

\* IPA_WAN_UPSTREAM_ROUTE_DEL_EVENT for this interface, and what another
\* interface's ROUTE_ADD does to it (then the LAN objects are not told).
Withdraw(s, w, ip) ==
    LET t == IF ip = "v4" THEN [s EXCEPT !.obj[w].addr_gw_set["v4"] = FALSE] ELSE s
    IN IF IsQ6(w)
       THEN handle_route_del_evt_ex(install_wan_filtering_rule(del_wan_firewall_rule(t, ip), w, FALSE), w, ip)
       ELSE Anyway(del_dft_firewall_rules(t, w, ip), LAMBDA u : handle_route_del_evt(u, w, ip))

RouteDel(s, w, ip) ==
    IF ~s.obj[w].active[ip] THEN Ok(s) ELSE Withdraw(post_wan_down_tether_evt(s, ip), w, ip)

\* IPA_WAN_UPSTREAM_ROUTE_ADD_EVENT for this interface.  A v6 route needs a
\* global address.  The gateway's header may add the route by itself.
RouteAdd(s, w, ip) ==
    LET t == [s EXCEPT !.obj[w].addr_gw_set[ip] = TRUE]
        added == Anyway(handle_sta_header_add_evt(t, w), LAMBDA u :
                 IF u.obj[w].active[ip] THEN Ok(u) ELSE handle_route_add_evt(u, w, ip))
    IN IF ip \notin s.obj[w].ips \/ (ip = "v6" /\ ~s.obj[w].ipv6_prefix) THEN Ok(s)
       ELSE Anyway(IF s.obj[w].active[ip] THEN Ok(s) ELSE added, LAMBDA u :
            Ok(post_wan_up_tether_evt(u, ip)))

RouteAddOther(s, w, ip) == IF s.obj[w].active[ip] THEN Withdraw(s, w, ip) ELSE Ok(s)

\* IPA_NEIGH_CLIENT_IP_ADDR_ADD_EVENT.
NeighAdd(s, w, m, ip, a) ==
    Anyway(handle_wan_hdr_init(s, w, m), LAMBDA t :
    AndThen(handle_wan_client_ipaddr(t, w, m, ip, a), LAMBDA u :
    Anyway(handle_wan_client_route_rule(u, w, m, ip), LAMBDA v : handle_sta_header_add_evt(v, w))))

\* Mutant: the modem is not sent the new table.
FirewallChange_NotSent(s, w) ==
    LET o == s.obj[w]
        redo(t, ip) == IF ip \in o.ips THEN config_wan_firewall_rule(del_wan_firewall_rule(t, ip), ip) ELSE t
    IN IF IsQ6(w) /\ o.is_default_gateway THEN Ok(redo(redo(s, "v4"), "v6")) ELSE Ok(s)

\* IPA_FIREWALL_CHANGE_EVENT.
FirewallChange(s, w) ==
    LET o == s.obj[w]
        redo(t, ip) == IF ip \in o.ips THEN config_wan_firewall_rule(del_wan_firewall_rule(t, ip), ip) ELSE t
        refilter(t, ip) == IF ~o.active[ip] THEN Ok(t)
                           ELSE Anyway(del_dft_firewall_rules(t, w, ip), LAMBDA u :
                                config_dft_firewall_rules(u, w, ip))
    IN IF IsQ6(w)
       THEN IF ~o.is_default_gateway \/ o.ips = {} THEN Ok(s)
            ELSE Ok(install_wan_filtering_rule(redo(redo(s, "v4"), "v6"), w, FALSE))
       ELSE Anyway(refilter(s, "v4"), LAMBDA t : refilter(t, "v6"))

\* IPA_SW_ROUTING_ENABLE and IPA_SW_ROUTING_DISABLE.
SwRoutingEnable(s, w) ==
    IF IsQ6(w) THEN Ok(install_wan_filtering_rule(s, w, TRUE)) ELSE handle_software_routing_enable(s, w)

SwRoutingDisable(s, w) ==
    IF IsQ6(w) THEN Ok([install_wan_filtering_rule(s, w, FALSE) EXCEPT !.obj[w].softwarerouting_act = FALSE])
    ELSE handle_software_routing_disable(s, w)

=============================================================================
