CONSTANTS
    base = base
    mid = mid
    broken = broken
    odd = odd
    even = even
    t1 = t1
    t2 = t2
    Threads = {t1, t2}
    Names = {base, mid, broken, odd, even}
    HeaderName <- Says
    Depends <- Uses
    BadHeader = {broken}
    MaxLoads = 3
SPECIFICATION Spec
SYMMETRY ThreadSymmetry
INVARIANTS
    TypeOK
    LoadedIsUsable
    NoCallIntoClosedLibrary
