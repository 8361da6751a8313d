CONSTANTS
    Workers = {w1, w2}
    Requests <- MCRequests
    Turns = 1
    MemSize = 11
    SizeMod = 32
SYMMETRY MCSymmetry
SPECIFICATION Spec
INVARIANTS
    IInv
    WriteExact
    ReadExact
    InStep
PROPERTIES
    NeighboursKept
    KeepsStore
CHECK_DEADLOCK FALSE
