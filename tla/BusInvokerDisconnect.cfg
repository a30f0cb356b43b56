CONSTANTS
    c1 = c1
    c2 = c2
    Callers = {c1, c2}
    nullptr = nullptr
    IdSpace = 4
    MaxCalls = 3
    NullOut = {}
SPECIFICATION FairSpec
PROPERTY WokenOnDisconnect
