CONSTANTS
    Workers = {w1, w2}
    Requests <- MCRequests
    Turns = 1
    MemSize = 11
    SizeMod = 32
SYMMETRY MCSymmetry
SPECIFICATION Spec
INVARIANT EveryWriteExact
CHECK_DEADLOCK FALSE
