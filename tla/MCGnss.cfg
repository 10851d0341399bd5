SPECIFICATION Spec
CONSTANTS
    hal = hal
    meas = meas
    Clients = {hal, meas}
    CallbackSets <- MCCallbackSets
    Intervals = {1, 2}
    NMEA_PROVIDER_MP = TRUE
    SESSIONS_MAX = 3
    CALLS_MAX = 2
    REFUSALS_MAX = 1
    RESTARTS_MAX = 1
    Injected = {"suplVersion"}
    Protocols = {"lppeControlPlane"}
    Local = {}
    AGPS_CONFIG_INJECT = TRUE
    CONTROL_MAX = 4
    WAITING_MAX = 2
    UNHEARD_MAX = 1
    OUTAGES_MAX = 1
    NI_MAX = 2
    UserChoices = {"ACCEPT", "DENY", "NO_RESPONSE"}
    NI_QUEUE_MAX = 2
    Observers = {1, 2}
    DataItems = {"network", "mccmnc"}
    ItemValues = {x, y}
    Lists <- MCLists
    OBSERVER_MAX = 4
    OS_BACKLOG_MAX = 1
INVARIANTS FixFollowsSessions SessionsTracked PowerAgrees SettingsArrive NiAnswerOwn ObserversServed
PROPERTIES NiAnswered
CHECK_DEADLOCK FALSE
