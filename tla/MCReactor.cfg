SPECIFICATION Spec
CONSTANTS
    Listen = 3
    Fds = {5, 6}
    MaxConns = 2
    MaxChunks = 2
CHECK_DEADLOCK FALSE
INVARIANTS EventsAreLive ChunksAccounted
PROPERTIES GoneIsClosed ReceivedIsAnswered
