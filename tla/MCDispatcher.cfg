SPECIFICATION Spec
CONSTANTS
    t1 = t1
    t2 = t2
    Threads = {t1, t2}
    PipeCap = 1
    MaxTimers = 2
    MaxPosts = 3
CHECK_DEADLOCK FALSE
INVARIANTS NoLostWakeup TaskOrder StopWins WheelInMap
PROPERTIES PostedRuns StopEnds
