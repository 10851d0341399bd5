SPECIFICATION Spec
CONSTANTS
    Wireless = {m1, m2}
    Wired = {n1}
    WlanPorts = {w1, w2}
    LanPorts = {l1}
    Bridge = br
    V4 = {a1, a2, ll}
    LinkLocal = {ll}
    V6 = {b1}
    IPA_MAX_NUM_NEIGHBOR_CLIENTS = 2
    CHANGES_MAX = 5
    BACKLOG_MAX = 2
    SecondAddress = FALSE
    NONE = none
SYMMETRY Symmetry
INVARIANTS  ClientsExact
CHECK_DEADLOCK FALSE
