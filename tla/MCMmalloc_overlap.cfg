CONSTANTS
    Ents = {e1, e2, e3, e4}
    Head = Head
    Null = Null
    Requests = {1, 2, 3}
    Offset = 0
    AreaSize = 12
SYMMETRY EntSymmetry
SPECIFICATION Spec
INVARIANT NoOverlap
