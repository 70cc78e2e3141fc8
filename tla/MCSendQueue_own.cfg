CONSTANTS
    a = a
    Channels <- OneChannel
    OutCap = 2
    InternalCap = 1
    UrgentCap = 1
    MaxBatch = 2
    MaxConns = 2
    MaxAccepts = 1
    MaxReads = 0
SPECIFICATION Spec
INVARIANTS
    OwnConnectionOnly
