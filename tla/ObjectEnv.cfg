CONSTANTS
    o1 = o1
    o2 = o2
    o3 = o3
    t1 = t1
    t2 = t2
    t3 = t3
    nobody = nobody
    Objects = {o1, o2, o3}
    Threads = {t1, t2, t3}
    NameOf <- Names
SPECIFICATION Spec
SYMMETRY Symmetric
INVARIANTS
    TypeOK
    ObjectsLiveWhileOwned
    TableReferenceIsListed
CHECK_DEADLOCK FALSE
