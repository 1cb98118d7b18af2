SPECIFICATION Spec
CONSTANTS
    Unit = 2
    MaxBytes = 4
    AddNodes = 2
    Sizes = {1, 4, 5}
    MaxLive = 3
    Heap = 26
    t1 = t1
    t2 = t2
    Threads = {t1, t2}
    AddNum = 2
    MaxBlockNum = 2
    MaxBlocks = 6
INVARIANTS PiecesPartition BlocksPartition
PROPERTIES PoolIsAllocator BlockPoolIsAllocator
CHECK_DEADLOCK FALSE
