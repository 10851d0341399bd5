SPECIFICATION Spec
CONSTANTS
    MayFail = {}
    e1 = e1
    w1 = w1
    w2 = w2
    Eths = {e1}
    Wlans = {w1, w2}
    L2 <- MCL2
    Macs = {m1, m2}
    m1 = m1
    m2 = m2
    Attach <- MCAttach
    MAX_NUM_IFACE = 3
    MAX_NUM_CLIENT = 2
    MAX_NUM_CACHED_CLIENT_ADD_EVENT = 1
    PENDING_MAX = 1
    CacheMisled = FALSE
INVARIANTS BridgeExact ClientsFollow PipeFollowsMode
CHECK_DEADLOCK FALSE
