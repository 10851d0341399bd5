\* The shortest, a middle and the longest boost; one tick is the first wait.
SPECIFICATION HalSpec
CONSTANTS
    Durations = {1, 4, 9}
    mWaitMs = 1
    mMinDurationMs = 2
    mMaxDurationMs = 6
INVARIANTS HandlerSound ModeHintsExact 
PROPERTIES BoostLasts WorkerLetsGo
