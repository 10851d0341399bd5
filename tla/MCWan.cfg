SPECIFICATION Spec
CONSTANTS
    MayFail = {}
    q1 = q1
    q2 = q2
    Modems = {q1, q2}
    Station = st
    Embms = embms
    WanV4Addrs = {a1}
    WanV6Addrs = {ll, b1}
    Global = {b1}
    Macs = {m1}
    GW4 = g4
    GW6 = g6
    OtherV4 = x4
    MAX_DEFAULT_v6_ROUTE_RULES = 2
    IPA_MAX_NUM_WAN_CLIENTS = 1
    IPV6_NUM_ADDR = 2
    NONE = none
    MAX_EVENT_CACHE = 1
    Asked <- MCAsked
    POSTED_MAX = 1
    LINKS_MAX = 2
    SplitUpstream = FALSE
    LateGateway = FALSE
    SecondV6Route = FALSE
    Unaddressed = FALSE
INVARIANTS  FirewallGuards WanAccounted
CHECK_DEADLOCK FALSE
