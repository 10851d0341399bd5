SPECIFICATION Spec
CONSTANTS
    c1 = c1
    c2 = c2
    a = a
    n = n
    w1 = w1
    w2 = w2
    server = server
    p1 = p1
    Conns = {c1, c2}
    TcpConns = {c1}
    AlgConns = {}
    src <- mcSrc
    dst <- mcDst
    Clients = {a}
    NonNatClients = {n}
    StaClients = {p1}
    Wans = {w1, w2}
    PrivateSubnet = {a, n}
    StaSubnet = {p1}
    Handles = {h1, h2}
    NoRule = NoRule
    max_entries = 2
    MAX_TEMP_ENTRIES = 1
    MAX_IFACE_ADDRESS = 1
    IPA_MAX_NUM_WIFI_CLIENTS = 1
    MAX_STA_CLNT_IFACES = 1
    AddMayFail = TRUE
    TableMayFail = TRUE
    HeapWans = {w1}
    HeapClients = {}
SYMMETRY Symmetry
INVARIANT CacheSound
INVARIANT TableFollowsWan
