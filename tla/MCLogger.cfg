SPECIFICATION Spec
CONSTANTS
    t1 = t1
    t2 = t2
    None = None
    Threads = {t1, t2}
    CacheSize = 1
    BlockLen = 4
    Header = 1
    Lens = {2}
    MaxDay = 2
    MaxStore = 2
    StoreDays = {1}
    Streams = {FALSE}
    Opens = {TRUE, FALSE}
    MaxLines = 2
    MaxLevels = 1
    MaxBlocks = 4
CHECK_DEADLOCK FALSE
INVARIANTS BlocksAccounted LinesIntact FilesTell
PROPERTIES StopEnds PushedIsHandled
