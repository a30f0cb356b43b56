CONSTANTS
    c1 = c1
    c2 = c2
    nullptr = nullptr
    Callers = {c1, c2}
    IdSpace = 4
    MaxCalls = 3
    NullOut = {c2}
SPECIFICATION FairSpec
INVARIANTS
    TypeOK
    CallReturnsItsOwnAnswer
    WaitingsMatchCalls
    SleeperWillBeNotified
    WokenWithItsAnswer
PROPERTY ArrivedAnswerReturns
