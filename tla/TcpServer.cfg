CONSTANTS
    MaxConns = 2
    MaxCasts = 1
    MaxListens = 2
SPECIFICATION Spec
INVARIANTS
    TypeOK
    AcceptLoopIsSingle
    ConnsAreServed
    BroadcastReachesEach
CHECK_DEADLOCK FALSE
