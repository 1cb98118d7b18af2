SPECIFICATION Spec
CONSTANTS
    c1 = c1
    c2 = c2
    Conns = {c1, c2}
    InitTimeout = 1
    Timeouts <- MCTimeouts
    MaxTime = 4
    MaxWrites = 3
    HeapSize = 7
    HeapKeys = {0, 1, 2}
CHECK_DEADLOCK FALSE
INVARIANTS HeapsStayHeaps NodesAreLive ClosedOnce
PROPERTIES TimerIsExact ShutIsClosed
