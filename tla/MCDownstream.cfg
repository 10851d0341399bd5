SPECIFICATION Spec
CONSTANTS
    MayFail = {"WRITE_QMAPID", "ADD_FLT_RULE_INDEX", "QUERY_EP_MAPPING", "GET_RT_TBL", "MDFY_FLT_RULE"}
    Macs = {m1, m2}
    V4Addrs = {a1, a2}
    V6Addrs = {b1, bx}
    OtherPrefix = {bx}
    IfaceV6Addrs = {i1}
    ExtProps = {"v4", "v6"}
    IPV6_NUM_ADDR = 2
    IPA_MAX_NUM_ETH_CLIENTS = 1
    IPA_MAX_NUM_WIFI_CLIENTS = 2
    MAX_DEFAULT_v6_ROUTE_RULES = 1
    NONE = none
    WlanAddrs = {a1, b1}
    FaultyKinds = {"lan"}
    FAULTS = 1
    EarlyWanDown = FALSE
    StrayV6Delete = FALSE
INVARIANTS UplinkSound RoutesServed  NatOwned
SYMMETRY Symmetry
CHECK_DEADLOCK FALSE
