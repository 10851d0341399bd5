------------------------------ MODULE WlanRules ------------------------------
(***************************************************************************)
(* IPACM_Wlan, the subclass of IPACM_Lan for the Wi-Fi access point.  Its  *)
(* clients are announced by the Wi-Fi driver before they have an address,  *)
(* may sleep (their routes are then withdrawn) and are copied one place    *)
(* down when a client before them leaves.  Where the subclass repeats the  *)
(* code of the base class, so does the model by naming it.                 *)
(***************************************************************************)
EXTENDS LanRules

CONSTANT IPA_MAX_NUM_WIFI_CLIENTS

----------------------------------------------------------------------------
(* Clients.  total_num_wifi_clients counts those of all access points.     *)

delete_default_qos_rtrules(s, i, ip) == delete_eth_rtrules(s, i, ip)

ForgetWlanNeigh(s, i) == ForgetNeigh(s, i)

handle_wlan_client_init_v4(s, m) ==
    AndThen(CopyHeader(s), LAMBDA t : AddHeader(t, Hdr("v4", m)))

handle_wlan_client_init_v6(s, m) ==
    AndThen(CopyHeader(s), LAMBDA t : AddHeader(t, Hdr("v6", m)))

\* A MAC that is already there is not looked for.
handle_wlan_client_init_ex(s, m) ==
    IF Len(s.client) >= IPA_MAX_NUM_WIFI_CLIENTS
       \/ s.total_num_wifi_clients >= IPA_MAX_NUM_WIFI_CLIENTS
    THEN Fail(s)
    ELSE AndThen(handle_wlan_client_init_v4(s, m), LAMBDA t :
         AndThen(handle_wlan_client_init_v6(t, m), LAMBDA u :
         Ok([u EXCEPT !.client = Append(@, NewClient(m)), !.total_num_wifi_clients = @ + 1])))

WlanClientV4Addr(s, i, a) == ClientV4Addr(s, i, a)
WlanClientV6Addr(s, i, a) == ClientV6Addr(s, i, a)

handle_wlan_client_ipaddr(s, m, ip, a) ==
    LET i == get_client_index(s, m)
    IN IF i = 0 THEN Fail(s)
       ELSE IF ip = "v4" THEN WlanClientV4Addr(s, i, a) ELSE WlanClientV6Addr(s, i, a)

WlanClientRouteV4(s, i) == ClientRouteV4(s, i)
WlanClientRouteV6(s, i) == ClientRouteV6(s, i)

\* A sleeping client gets no route.
handle_wlan_client_route_rule(s, m, ip) ==
    LET i == get_client_index(s, m)
    IN IF i = 0 THEN Ok(s)
       ELSE IF s.client[i].power_save_set THEN Ok(s)
       ELSE IF ip = "v4" THEN WlanClientRouteV4(s, i) ELSE WlanClientRouteV6(s, i)

\* IPA_WLAN_CLIENT_POWER_SAVE_EVENT.  The NAT entries go too: UpdatePwrSaveIf and,
\* below, ResetPwrSaveIf are in NatApp.
handle_wlan_client_pwrsave(s, m) ==
    LET i == get_client_index(s, m)
    IN IF i = 0 THEN Ok(s)
       ELSE IF s.client[i].power_save_set THEN Ok(s)
       ELSE Anyway(delete_default_qos_rtrules(s, i, "v4"), LAMBDA t :
            Anyway(delete_default_qos_rtrules(t, i, "v6"), LAMBDA u :
            Ok([u EXCEPT !.client[i].power_save_set = TRUE])))

\* IPA_WLAN_CLIENT_RECOVER_EVENT.
WlanClientRecover(s, m) ==
    LET i == get_client_index(s, m)
        t == [s EXCEPT !.client[i].power_save_set = FALSE]
        v4 == IF ~t.client[i].ipv4_set THEN Ok(t)
              ELSE handle_wlan_client_route_rule(t, m, "v4")
    IN IF i = 0 THEN Ok(s)
       ELSE IF ~s.client[i].power_save_set THEN Ok(s)
       ELSE Anyway(v4, LAMBDA u :
            IF u.client[i].v6_addr = << >> THEN Ok(u)
            ELSE handle_wlan_client_route_rule(u, m, "v6"))

\* The clients behind the one that left move up; power_save_set is not copied.
ShiftClients(cs, i) ==
    [k \in 1..Len(cs) - 1 |->
        IF k < i THEN cs[k]
        ELSE [cs[k + 1] EXCEPT !.power_save_set = cs[k].power_save_set]]

\* IPA_WLAN_CLIENT_DEL_EVENT.
handle_wlan_client_down_evt(s, m) ==
    LET i == get_client_index(s, m)
        header(t, ip) == IF ip \notin t.client[i].hdr THEN Ok(t)
                         ELSE AndThen(DeleteHeaderHdl(t, Hdr(ip, m)), LAMBDA u :
                              Ok([u EXCEPT !.client[i].hdr = @ \ {ip}]))
    IN IF i = 0 THEN Ok(s)
       ELSE AndThen(delete_default_qos_rtrules(ForgetWlanNeigh(s, i), i, "v4"), LAMBDA t :
            AndThen(delete_default_qos_rtrules(t, i, "v6"), LAMBDA u :
            AndThen(header(u, "v4"), LAMBDA v :
            AndThen(header(v, "v6"), LAMBDA w :
            Ok([w EXCEPT !.client = ShiftClients(@, i), !.total_num_wifi_clients = @ - 1])))))

\* The addresses go client by client, in the loop that deletes the routes.
handle_wlan_client_reset_rt(s, ip) ==
    EachOf(s, Upto(Len(s.client)), LAMBDA t, i :
        AndThen(delete_default_qos_rtrules(t, i, ip), LAMBDA u :
        Ok(IF ip = "v4" THEN [u EXCEPT !.client[i].ipv4_set = FALSE]
           ELSE [u EXCEPT !.client[i].v6_addr = << >>])))

----------------------------------------------------------------------------
(* The access point goes down. *)

WlanDownFilters(s, ip) == DownFilters(s, ip)
WlanDownRoutes(s) == DownRoutes(s)
WlanDownSubnet(s) == DownSubnet(s)
WlanDropClient(s, i) == DropClient(s, i)

wlan_handle_down_evt(s, up, is_sta_mode) ==
    LET rules == IF s.ip_type = "NULL" THEN Fail(s)
                 ELSE Anyway(DownUplink(s, up, is_sta_mode), LAMBDA t :
                      AndThen(WlanDownFilters(t, "v4"), LAMBDA u :
                      AndThen(WlanDownFilters(u, "v6"), LAMBDA v :
                      AndThen(WlanDownRoutes(v), WlanDownSubnet))))
    IN Anyway(rules, LAMBDA t :
       Anyway(EachAnyway(t, Upto(Len(t.client)), WlanDropClient), LAMBDA u :
       Anyway(handle_software_routing_disable(u), LAMBDA v :
       Ok([v EXCEPT !.is_active = FALSE]))))

----------------------------------------------------------------------------
(* IPACM_Wlan::event_callback *)

\* IPA_WLAN_LINK_DOWN_EVENT.
WlanLinkDown(s, up, sta) ==
    Anyway(wlan_handle_down_evt(s, up, sta), LAMBDA t :
    Ok([t EXCEPT !.total_num_wifi_clients = @ - Len(t.client), !.client = << >>]))

WlanAddrAdd(s, ip, a, up, sw) == AddrAdd(s, ip, a, up, sw)

\* IPA_HANDLE_WAN_UP_TETHER: Wi-Fi clients are offloaded towards either backhaul.
WlanWanUp(s, is_sta) ==
    IF ~Serves(s, "v4") \/ s.is_upstream_set["v4"] THEN Ok(s)
    ELSE LET t == [s EXCEPT !.is_upstream_set["v4"] = TRUE]
         IN IF t.is_downstream_set["v4"] THEN StartUplink(t, "v4", is_sta) ELSE Ok(t)

WlanWanUpV6(s, is_sta) == LanWanUpV6(s, is_sta)
WlanWanDown(s, is_sta) == LanWanDown(s, is_sta)

WlanWanDownV6(s, is_sta) ==
    IF ~Serves(s, "v6") \/ ~s.is_upstream_set["v6"] THEN Ok(s)
    ELSE LET t == [s EXCEPT !.is_upstream_set["v6"] = FALSE]
         IN IF ~t.is_downstream_set["v6"] THEN Ok(t)
            ELSE Anyway(handle_wlan_client_reset_rt(t, "v6"), LAMBDA u :
                 handle_wan_down_v6(u, is_sta))

WlanDownstreamAdd(s, ip, sta) == LanDownstreamAdd(s, ip, sta)

WlanDownstreamDel(s, ip, sta) ==
    IF ~s.is_downstream_set[ip] THEN Ok(s)
    ELSE LET t == [s EXCEPT !.is_downstream_set[ip] = FALSE]
         IN IF ~t.is_upstream_set[ip] THEN Ok(t)
            ELSE IF ip = "v4" THEN handle_wan_down(t, sta)
            ELSE Anyway(handle_wlan_client_reset_rt(t, "v6"), LAMBDA u :
                 handle_wan_down_v6(u, sta))

\* IPA_NEIGH_CLIENT_IP_ADDR_ADD_EVENT; there is no handler for the deletion.
WlanNeighAdd(s, m, ip, a) ==
    AndThen(handle_wlan_client_ipaddr(s, m, ip, a), LAMBDA u :
    Anyway(handle_wlan_client_route_rule(u, m, ip), LAMBDA v :
    Ok(IF ip = "v4" THEN HandleNeighIpAddrAddEvt(v, a) ELSE v)))

=============================================================================
