CONSTANTS
    b1 = b1
    b2 = b2
    Bufs = {b1, b2}
    Byte = {0, 1}
    Zero = 0
    kCheapPrepend = 2
    InitialSizes = {0, 1}
    MaxLen = 3
    MaxSize = 5
SPECIFICATION Spec
INVARIANTS
    TypeOK
    AssertionsHold
PROPERTY ImplementsQueue
