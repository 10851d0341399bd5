--------------------------------- MODULE Wan ---------------------------------
(***************************************************************************)
(* The upstream side of IPACM: the IPACM_Wan objects, the offload manager  *)
(* that selects one of them on behalf of the tethering framework, and what *)
(* the downstream side is told.  Link, address and neighbour events come   *)
(* from the netlink threads; the manager's route events go through the     *)
(* command queue (posted) and reach every object, in the order in which    *)
(* the objects registered.  The WAN_UP and WAN_DOWN events that an object  *)
(* posts are on the internal queue, which is served first (EventQueues):   *)
(* their receivers (lan, ct) change in the same step.                      *)
(***************************************************************************)
EXTENDS WanRules, Offload

CONSTANTS
    Asked,          \* the upstreams the framework asks for, with their IP versions
    POSTED_MAX,     \* how many route events may wait when it asks,
    LINKS_MAX,      \* and how many times a link comes up (bounds)
    SplitUpstream,  \* one IP version of an upstream may go before the other
    LateGateway,    \* a station may be selected before its gateway is a neighbour
    SecondV6Route,  \* a station may get the v6 default route twice
    Unaddressed     \* a station may meet neighbours and software routing before it has an address

VARIABLES
    s,      \* the objects and the driver
    m,      \* the offload manager
    links   \* how many times a link came up

vars == <<s, m, links>>

Init ==
    /\ m = NewManager
    /\ links = 0
    /\ s = [hw |-> EmptyBag, hdl |-> {}, faults |-> 0,
            obj |-> [w \in Wans |-> NewWan], order |-> << >>,
            wan_up |-> No, backhaul_is_sta_mode |-> FALSE, embms_is_on |-> FALSE,
            num_modem_pdn |-> [ip \in IPs |-> 0],
            rows |-> [ip \in IPs |-> << >>], num |-> [ip \in IPs |-> 0],
            dl |-> [ip \in IPs |-> << >>], ipa_sw_rt_enable |-> FALSE, firewall_enable |-> FALSE,
            nat_ifaces |-> {}, sta_client |-> {}, lan |-> No, ct |-> No]

\* The event e reaches the objects in the order of their registration.
Dispatch(t, E(_, _)) == EachAnyway(t, t.order, E)

LinkUp ==
    \E w \in Wans :
        LET t == Set([s EXCEPT !.order = Append(@, w)], w, NewWan)
        IN /\ links < LINKS_MAX
           /\ links' = links + 1
           /\ ~Alive(s, w)
           /\ s' = IF w = Embms THEN install_wan_filtering_rule([t EXCEPT !.embms_is_on = TRUE], w, FALSE)
                   ELSE t
           /\ UNCHANGED m

\* IPA_LINK_DOWN_EVENT or IPA_WLAN_LINK_DOWN_EVENT; the object deletes itself.
\* A withdrawal that is under way is a split one.
LinkDown ==
    \E w \in Range(s.order) :
        /\ SplitUpstream \/ (s.obj[w].active # No => s.obj[w].is_default_gateway)
        /\ \E t \in States(IF w = Station THEN handle_down_evt(s, w) ELSE handle_down_evt_ex(s, w)) :
               s' = Set([DelNatIfaces(t, w) EXCEPT !.order = SelectSeq(@, LAMBDA x : x # w),
                                                !.hdl = {r \in @ : r[2] # w}], w, NewWan)
        /\ UNCHANGED <<m, links>>

\* The kernel configures the link-local address first.
AddrAdd ==
    \E w \in Range(s.order) \ {Embms}, ip \in IPs :
    \E a \in IF ip = "v4" THEN WanV4Addrs ELSE WanV6Addrs :
        /\ ip = "v6" => Len(s.obj[w].v6_addr) # MAX_DEFAULT_v6_ROUTE_RULES
        /\ ip = "v6" /\ a \in Global => s.obj[w].v6_addr # << >>
        /\ \E o \in handle_addr_evt(s, w, ip, a) :
            /\ m' = IF o.ok THEN search_framwork_cache(m, w, o.st.nat_ifaces) ELSE m
            /\ s' \in States(IF s.ipa_sw_rt_enable /\ ~IsQ6(w) THEN handle_software_routing_enable(o.st, w)
                             ELSE Ok(o.st))
    /\ UNCHANGED links

Neighbour ==
    /\ Alive(s, Station)
    /\ Unaddressed \/ s.obj[Station].ips # {}
    /\ \E mac \in Macs, ip \in IPs : \E a \in IF ip = "v4" THEN {GW4, OtherV4} ELSE {GW6} :
           s' \in States(NeighAdd(s, Station, mac, ip, a))
    /\ UNCHANGED <<m, links>>

\* The framework's calls, on the binder thread.
SetUpstream ==
    /\ Len(m.posted) < POSTED_MAX
    /\ \E <<w, fams>> \in Asked :
           /\ SplitUpstream \/ w # m.default_gw_index \/ m.upstream_up \subseteq fams
           /\ m' = setUpstream(m, w, fams, s.nat_ifaces)
    /\ UNCHANGED <<s, links>>

SetNoUpstream ==
    /\ Len(m.posted) < POSTED_MAX
    /\ m' = setUpstreamNone(m, IPs)
    /\ UNCHANGED <<s, links>>

StopAllOffload ==
    /\ Len(m.posted) < POSTED_MAX
    /\ m' = stopAllOffload(m)
    /\ UNCHANGED <<s, links>>

GatewayKnown(ip) ==
    \A o \in handle_sta_header_add_evt([s EXCEPT !.obj[Station].addr_gw_set[ip] = TRUE], Station) :
        o.st.obj[Station].header_set # {}

\* The command thread takes a route event.  One half of a pair that is posted
\* together is not left alone by the other.
HandleRoute ==
    /\ m.posted # << >>
    /\ LET e == Head(m.posted)
           act(t, w) == IF e.event = "ROUTE_DEL" THEN IF w = e.iface THEN RouteDel(t, w, e.ip) ELSE Ok(t)
                        ELSE IF w = e.iface THEN RouteAdd(t, w, e.ip) ELSE RouteAddOther(t, w, e.ip)
       IN /\ LateGateway \/ ~(e.event = "ROUTE_ADD" /\ e.iface = Station /\ Alive(s, Station)) \/ GatewayKnown(e.ip)
          /\ SecondV6Route \/ ~(e.event = "ROUTE_ADD" /\ e.iface = Station /\ e.ip = "v6" /\ s.obj[Station].dummy)
          /\ s' \in States(Dispatch(s, LAMBDA t, w : IF w = Embms THEN Ok(t) ELSE act(t, w)))
          /\ m' = [m EXCEPT !.posted = Tail(@)]
          /\ UNCHANGED links

\* The firewall file changed.
FirewallChanged ==
    /\ s' \in States(Dispatch([s EXCEPT !.firewall_enable = ~@],
                              LAMBDA t, w : IF w = Embms THEN Ok(t) ELSE FirewallChange(t, w)))
    /\ UNCHANGED <<m, links>>

\* IPA_SW_ROUTING_ENABLE and _DISABLE, after the flag.
SwRouting ==
    /\ Unaddressed \/ ~Alive(s, Station) \/ s.obj[Station].ips # {}
    /\ \/ /\ ~s.ipa_sw_rt_enable
          /\ s' \in States(Dispatch([s EXCEPT !.ipa_sw_rt_enable = TRUE],
                                    LAMBDA t, w : IF w = Embms THEN Ok(t) ELSE SwRoutingEnable(t, w)))
       \/ /\ s.ipa_sw_rt_enable
          /\ s' \in States(Dispatch([s EXCEPT !.ipa_sw_rt_enable = FALSE],
                                    LAMBDA t, w : IF w = Embms THEN Ok(t) ELSE SwRoutingDisable(t, w)))
    /\ UNCHANGED <<m, links>>

\* IPA_SSR_NOTICE: the Wi-Fi firmware restarts.
Ssr ==
    /\ Alive(s, Station)
    /\ s' = DelNatIfaces(s, Station)
    /\ UNCHANGED <<m, links>>

Next ==
    \/ LinkUp \/ LinkDown \/ AddrAdd \/ Neighbour
    \/ SetUpstream \/ SetNoUpstream \/ StopAllOffload \/ HandleRoute
    \/ FirewallChanged \/ SwRouting \/ Ssr

Spec == Init /\ [][Next]_vars

----------------------------------------------------------------------------
(* Properties *)

Active(ip) == {w \in Range(s.order) : s.obj[w].active[ip]}

\* The statics tell the truth: IPACM_Wan::wan_up says that an object carries the
\* default route, which at most one does, and the conntrack listener, the LAN
\* objects and backhaul_is_sta_mode agree with it.
OneUpstream ==
    \A ip \in IPs :
        /\ Cardinality(Active(ip)) <= 1
        /\ s.wan_up[ip] <=> Active(ip) # {}
        /\ s.ct[ip] = s.wan_up[ip]
        /\ s.lan[ip] = s.wan_up[ip]
        /\ \A w \in Active(ip) : s.backhaul_is_sta_mode <=> w = Station

\* The firewall guards every upstream: while a modem PDN carries the default route
\* of an IP version, the table in the modem ends with the rules of the firewall
\* file as it is now; a station has its own.  A route whose withdrawal is posted
\* is excepted.
FirewallGuards ==
    \A ip \in IPs : \A w \in Active(ip) :
        IF \E e \in Range(m.posted) : e.event = "ROUTE_DEL" /\ e.ip = ip THEN TRUE
        ELSE IF w = Station
        THEN /\ Installed(s, WanFl(w, ip))
             /\ Installed(s, Firewall(w, ip)) <=> s.firewall_enable
        ELSE \/ s.dl[ip] = <<"software">>
             \/ Len(s.dl[ip]) > 0 /\ Last(s.dl[ip]) = <<"firewall", s.firewall_enable>>

\* The objects' rules in the driver are those their variables tell of, each once.
Owned(w) ==
    LET o == s.obj[w]
    IN {DftRt(w, "v4", o.v4_addr)} \cup {DftRt(w, "v6", a) : a \in Range(o.v6_addr)}
       \cup {DftFl(w, ip) : ip \in o.ips} \cup {DestFl(w, a) : a \in Range(o.dest)}
       \cup UNION {{WanRt(w, ip), WanFl(w, ip)} \cup (IF ip = "v6" THEN {WanRtA5(w)} ELSE {})
                   : ip \in {x \in IPs : o.active[x]}}
       \cup {Firewall(w, ip) : ip \in o.firewall} \cup (IF o.frag THEN {Frag(w)} ELSE {})
       \cup (IF o.softwarerouting_act THEN {SwRt(w, ip) : ip \in IPs} ELSE {})
       \cup (IF o.dummy THEN {DummyHdr(w), DummyCtx(w)} ELSE {})
       \cup UNION {
            {Hdr(w, c.mac, ip) : ip \in IPs}
            \cup (IF c.route_rule_set_v4 THEN {Rt(w, c.mac, "v4", c.v4_addr)} ELSE {})
            \cup {Rt(w, c.mac, "v6", c.v6_addr[n]) : n \in 1..c.route_rule_set_v6}
            : c \in Range(o.client)}

WanNoLeak ==
    /\ \A r \in BagToSet(s.hw) :
        /\ \E w \in Range(s.order) : r \in Owned(w)
        /\ CopiesIn(r, s.hw) = 1
    /\ s.sta_client \subseteq {c.v4_addr : c \in Range(s.obj[Station].client)}

\* The PDN counters are exact, so that the last PDN empties the downlink table and
\* the first one fills it: the table has default rules while a PDN needs
\* them, and nothing when no PDN has the IP version.
PdnCount ==
    LET pdns(ip) == {w \in Range(s.order) \cap Modems :
                        IF ip = "v4" THEN s.obj[w].v4_addr # NONE ELSE Len(s.obj[w].v6_addr) > 1}
    IN \A ip \in IPs :
        /\ s.num_modem_pdn[ip] = Cardinality(pdns(ip))
        /\ pdns(ip) # {} => s.num[ip] > 0 /\ Len(s.rows[ip]) > 0 /\ s.rows[ip][1] = "dft"
        /\ (\A w \in Range(s.order) \cap Modems : ip \notin s.obj[w].ips) => s.num[ip] = 0

\* Every rule and every PDN is accounted for.
WanAccounted == WanNoLeak /\ PdnCount
=============================================================================
