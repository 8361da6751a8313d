CONSTANTS
    Ents = {e1, e2, e3, e4}
    Head = Head
    Null = Null
    Requests = {1, 2, 3}
    Offset = 2
    AreaSize = 10
SYMMETRY EntSymmetry
SPECIFICATION Spec
INVARIANTS
    ListIntact
    SeparatedUnlessSkipped
    OrderInv
PROPERTIES
    KeepsPool
