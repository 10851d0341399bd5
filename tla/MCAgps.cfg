SPECIFICATION Spec
CONSTANTS
    c1 = c1
    c2 = c2
    Conns = {c1, c2}
    Asks <- MCAsks
    Priorities = {1}
    AGPS_CAPABLE = TRUE
    USE_EMERGENCY_PDN = TRUE
    MAX_START_DATA_CALL_RETRIES = 1
    FAULTS_MAX = 2
INVARIANTS ConnectionOwned
PROPERTIES OpenOnlyWanted Answered
CHECK_DEADLOCK FALSE
