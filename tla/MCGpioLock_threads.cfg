CONSTANTS
    t1 = t1
    t2 = t2
    t3 = t3
    p1 = p1
    p2 = p2
    Threads = {t1, t2, t3}
    Processes = {p1, p2}
    ProcessOf <- MCProcessOf
    Inodes = {i1, i2, i3, i4}
    NoInode = NoInode
    NoOne = NoOne
    Careless = {}
    Faults = {"device", "kill"}
    GPIO_LOCK_TIMEOUT = 1
SPECIFICATION Spec
INVARIANTS
    IInv
    MappedUnlessBreached
