CONSTANTS
    HeaderSize = 2
    BodyLens = {1, 3}
    Kinds = {"good", "badmagic", "badbody"}
    MaxChunk = 5
    MaxMsgs = 4
SPECIFICATION FairStreamSpec
INVARIANTS
    StreamTypeOK
    MessagesHandledAsSent
    ParserInStep
PROPERTY LockstepIsHandled
CHECK_DEADLOCK FALSE
