CONSTANTS
    MaxBytes = 3
    MaxReady = 3
SPECIFICATION FairSpec
INVARIANTS
    TypeOK
    NoByteIsLost
    DisconnectReportedOnce
PROPERTY SentBytesAreWritten
CHECK_DEADLOCK FALSE
