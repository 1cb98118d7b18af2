SPECIFICATION FairSpec
CONSTANTS
    SndCap = 1
    MaxCache = 1
    MaxIn = 2
    Files <- MCFiles
    EndsInDisconnect = FALSE
CHECK_DEADLOCK FALSE
INVARIANTS DisconnectOnce NotifiedIffClosed NoLostEdge
PROPERTIES ReadsComeFirst ArrivedIsRead FullCacheDrains
