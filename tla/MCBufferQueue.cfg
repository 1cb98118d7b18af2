SPECIFICATION QueueSpec
CONSTANTS
    BlockLen = 2
    Byte = {0, 1}
    MaxArg = 3
    MaxBytes = 5
    Expand = {0, 2}
INVARIANTS ViewsAgree
PROPERTY QueueIsFifo
