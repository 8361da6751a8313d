CONSTANTS
    Buffers = {b1, b2, b3, b4}
    Tasks = {t1, t2, t3}
    NULL = NULL
    Sizes = {1, 2}
    Patiences = {"thread", "once"}
SYMMETRY Symmetry
SPECIFICATION Spec
INVARIANTS
    OwnStream
    RegistersMapped
    FreedOnce
    JoinInv
    PolledOnce
