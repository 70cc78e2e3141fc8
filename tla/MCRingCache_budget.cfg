CONSTANTS
    b1 = b1
    b2 = b2
    m1 = m1
    NoId = NoId
    Buffers = {b1, b2}
    Times = {1, 2}
    MsgIds = {m1}
    Now = 3
    RingSize = 3
    MaxRingBytes = 5
    PruneChunk = 2
    DaysChoices = {0}
    MaxChoices = {0}
    Purges = TRUE
    MaxRows = 3
SPECIFICATION Spec
INVARIANTS
    TypeOK
    PagesAgree
    BytesExact
    WithinBudget
