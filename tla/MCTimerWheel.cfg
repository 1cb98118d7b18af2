SPECIFICATION Spec
CONSTANTS
    a = a
    b = b
    Timers = {a, b}
    StepSize = 2
    Unit = 2
    RootSize = 2
    Intervals = {1, 3, 4}
    IndexSpan = 2
    Garbage = {0, 2, 5}
    MaxCur = 2
    MaxLag = 8
    LeftToRight = FALSE
SYMMETRY TimerSymmetry
INVARIANTS FlagTells
PROPERTIES OnlySetTimersFire
