SPECIFICATION Spec
CONSTANTS
    BlockLen = 3
    Byte = {0, 1}
    Blocks = {b1}
    MaxArg = 4
    b1 = b1
INVARIANTS PointersOK SegmentsOK FoundIsThere
