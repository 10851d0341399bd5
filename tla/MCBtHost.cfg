SPECIFICATION Spec
CONSTANTS
    STREAM_START_MAX_RETRY_COUNT = 2
    STREAM_START_MAX_RETRY_LOOPER = 2
    CTRL_CHAN_RETRY_COUNT = 2
    CHECK_A2DP_READY_MAX_COUNT = 2
    Overlap = FALSE
    CALLS_MAX = 3
    DEINIT_MAX = 1
INVARIANTS StreamAgrees AnswersHeard
CHECK_DEADLOCK FALSE
PROPERTIES CallsReturn
