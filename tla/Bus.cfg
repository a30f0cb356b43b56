CONSTANTS
    a = a
    a2 = a2
    b = b
    A = A
    B = B
    nullconn = nullconn
    Clients = {a, a2, b}
    Names = {A, B}
    NameOf <- Restarted
    Methods = {"Echo"}
    MaxCalls = 2
    Quota <- Calls
    MaxOverlaps = 1
SPECIFICATION FairSpec
INVARIANTS
    TypeOK
    AnswersMatchRequests
    AtMostOneCopy
    ReturnPathExists
PROPERTY KnownProviderAnswers
CHECK_DEADLOCK FALSE
