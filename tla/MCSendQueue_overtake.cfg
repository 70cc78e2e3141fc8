CONSTANTS
    a = a
    Channels <- OneChannel
    OutCap = 2
    InternalCap = 1
    UrgentCap = 1
    MaxBatch = 1
    MaxConns = 1
    MaxAccepts = 1
    MaxReads = 1
SPECIFICATION Spec
INVARIANTS
    JoinsBeforeUserMessages
