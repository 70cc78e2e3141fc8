CONSTANTS
    a = a
    Channels <- OneChannel
    OutCap = 2
    InternalCap = 1
    UrgentCap = 1
    MaxBatch = 3
    MaxConns = 1
    MaxAccepts = 1
    MaxReads = 2
SPECIFICATION FairSpec
INVARIANTS
    TypeOK
    AtMostOneOvertakes
    SentInOrder
    RejoinNeverWaits
PROPERTY
    Quiesces
