SPECIFICATION ClockSpec
CONSTANTS
    a = a
    b = b
    Timers = {a, b}
    StepSize = 4
    Unit = 3
    RootSize = 2
    Intervals = {1}
    IndexSpan = 4
    Garbage = {0}
    MaxCur = 2
    MaxLag = 2
    LeftToRight = FALSE
PROPERTIES SetTimersFire
