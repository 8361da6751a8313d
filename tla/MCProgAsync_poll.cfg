CONSTANTS
    Buffers = {b1, b2, b3, b4}
    Tasks = {t1, t2, t3}
    NULL = NULL
    Sizes = {1, 2}
    Patiences = {"status"}
SYMMETRY Symmetry
SPECIFICATION Spec
INVARIANT StatusIsCurrent
