CONSTANTS
    c1 = c1
    c2 = c2
    Conns <- MCConns
    Request <- MCRequest
    MaxContent = 1
    MaxFailures = 1
SPECIFICATION FairSpec
INVARIANTS
    TypeOK
    ManagerHoldsTheServed
    MessagesArriveWhole
PROPERTY EveryCallReturns
CHECK_DEADLOCK FALSE
