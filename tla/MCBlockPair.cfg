SPECIFICATION Spec
CONSTANTS
    BlockLen = 2
    Byte = {0, 1}
    Blocks = {b1, b2}
    MaxArg = 2
    b1 = b1
    b2 = b2
SYMMETRY BlockSymmetry
PROPERTY IsFifo
