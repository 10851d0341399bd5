------------------------------- MODULE Offload -------------------------------
(***************************************************************************)
(* IPACM_OffloadManager, through which the tethering framework asks for    *)
(* upstreams and downstreams.  Its methods run on a binder thread and post *)
(* events to the command queue; what they ask of an interface IPACM does   *)
(* not know yet waits in a ring of MAX_EVENT_CACHE slots, and is replayed  *)
(* by the command thread when the interface gets an address.               *)
(*                                                                         *)
(* The record m holds the manager's members and the events posted (posted, *)
(* oldest first).  known is the set of <<interface, IP version>> for which *)
(* CheckNatIfaces succeeds.                                                *)
(***************************************************************************)
EXTENDS Naturals, Sequences

CONSTANT MAX_EVENT_CACHE
INVALID_IFACE == "INVALID_IFACE"
EMPTY == [event |-> "none", iface |-> INVALID_IFACE, fams |-> {}]  \* an event_cache slot that is not valid

ASSUME OffloadAssumption == MAX_EVENT_CACHE \in Nat \ {0}

NewManager ==
    [default_gw_index |-> INVALID_IFACE, upstream_up |-> {},
     event_cache |-> [k \in 1..MAX_EVENT_CACHE |-> EMPTY], latest_cache_index |-> 1,
     valid_ifaces |-> {}, posted |-> << >>]

post_route_evt(m, event, ip, w) == [m EXCEPT !.posted = Append(@, [event |-> event, ip |-> ip, iface |-> w])]

\* The slot of the ring at distance d from the next one to be used.
Slot(m, d) == ((m.latest_cache_index - 1 + d) % MAX_EVENT_CACHE) + 1
Full(m) == \A k \in 1..MAX_EVENT_CACHE : m.event_cache[k] # EMPTY

\* The first free slot from latest_cache_index on; with none the request is
\* refused (FAIL_HARDWARE).
Cache(m, entry) ==
    IF Full(m) THEN m
    ELSE LET d == CHOOSE d \in 0..MAX_EVENT_CACHE - 1 :
                     /\ m.event_cache[Slot(m, d)] = EMPTY
                     /\ \A e \in 0..d - 1 : m.event_cache[Slot(m, e)] # EMPTY
         IN [m EXCEPT !.event_cache[Slot(m, d)] = entry, !.latest_cache_index = Slot(m, d + 1)]

\* ROUTE_DEL for the upstream of one IP version, if there is one.
DropRoute(m, ip) ==
    IF ip \notin m.upstream_up THEN m
    ELSE [post_route_evt(m, "ROUTE_DEL", ip, m.default_gw_index) EXCEPT !.upstream_up = @ \ {ip}]

AddRoute(m, ip, w) ==
    IF ip \in m.upstream_up THEN m
    ELSE [post_route_evt(m, "ROUTE_ADD", ip, w) EXCEPT !.upstream_up = @ \cup {ip}]

\* setUpstream(NULL, ...): without an upstream, the requests that wait are dropped.
setUpstreamNone(m, fams) ==
    IF m.default_gw_index = INVALID_IFACE
    THEN [m EXCEPT !.event_cache = [k \in DOMAIN @ |-> IF @[k].event = "UPSTREAM" THEN EMPTY ELSE @[k]]]
    ELSE LET t == IF "v4" \in fams THEN DropRoute(m, "v4") ELSE m
             u == IF "v6" \in fams THEN DropRoute(t, "v6") ELSE t
         IN [u EXCEPT !.default_gw_index = INVALID_IFACE]

\* Mutant: the old upstream is not withdrawn.
setUpstream_Keep(m, w, fams, known) ==
    IF \E ip \in fams : <<w, ip>> \notin known
    THEN Cache(m, [event |-> "UPSTREAM", iface |-> w, fams |-> fams])
    ELSE LET t == IF w # m.default_gw_index
                  THEN [m EXCEPT !.default_gw_index = INVALID_IFACE, !.upstream_up = {}] ELSE m
             u == IF "v4" \in fams THEN AddRoute(t, "v4", w) ELSE t
             v == IF "v6" \in fams THEN AddRoute(u, "v6", w) ELSE u
         IN [v EXCEPT !.default_gw_index = w]

\* setUpstream(w, ...) for the IP versions fams (not none).  A new upstream is
\* added only after the old one was withdrawn for both IP versions; with the same
\* one, an IP version that is no longer asked for is withdrawn.
setUpstream(m, w, fams, known) ==
    LET same == w = m.default_gw_index
        t == IF same THEN m ELSE [DropRoute(DropRoute(m, "v4"), "v6") EXCEPT !.default_gw_index = INVALID_IFACE]
        rest == {"v4", "v6"} \ fams
        u == IF same /\ rest # {} THEN DropRoute(t, CHOOSE ip \in rest : TRUE) ELSE t
        v == IF "v4" \in fams THEN AddRoute(u, "v4", w) ELSE u
        x == IF "v6" \in fams THEN AddRoute(v, "v6", w) ELSE v
    IN IF \E ip \in fams : <<w, ip>> \notin known
       THEN Cache(m, [event |-> "UPSTREAM", iface |-> w, fams |-> fams])
       ELSE [x EXCEPT !.default_gw_index = w]

addDownstream(m, d, ip, known) ==
    LET t == [m EXCEPT !.valid_ifaces = @ \cup {d}]
    IN IF <<d, ip>> \notin known
       THEN Cache(t, [event |-> "DOWNSTREAM", iface |-> d, fams |-> {ip}])
       ELSE post_route_evt(t, "DOWNSTREAM_ADD", ip, d)

\* A request that waits in the cache stays there.
removeDownstream(m, d, ip) ==
    IF d \notin m.valid_ifaces THEN m ELSE post_route_evt(m, "DOWNSTREAM_DEL", ip, d)

stopAllOffload(m) ==
    [NewManager EXCEPT !.posted = setUpstreamNone(m, {"v4", "v6"}).posted]

\* The slots of this interface in order; each request is made again (and, if the
\* interface is still not known for all it needs, cached again) before its slot is
\* freed.
search_framwork_cache(m, w, known) ==
    LET replay[k \in 0..MAX_EVENT_CACHE] ==
            IF k = 0 THEN m
            ELSE LET t == replay[k - 1]
                     e == t.event_cache[k]
                     u == IF e.event = "UPSTREAM" THEN setUpstream(t, w, e.fams, known)
                          ELSE addDownstream(t, w, CHOOSE ip \in e.fams : TRUE, known)
                 IN IF e.iface = w THEN [u EXCEPT !.event_cache[k] = EMPTY] ELSE t
    IN replay[MAX_EVENT_CACHE]

=============================================================================
