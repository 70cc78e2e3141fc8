CONSTANTS
    b1 = b1
    b2 = b2
    m1 = m1
    NoId = NoId
    Buffers = {b1}
    Times = {1, 2, 3}
    MsgIds = {}
    Now = 4
    RingSize = 2
    MaxRingBytes = 9
    PruneChunk = 1
    DaysChoices = {0, 1, 2}
    MaxChoices = {0}
    Purges = FALSE
    MaxRows = 4
SPECIFICATION Spec
INVARIANT
    NothingDeletedServed
PROPERTY
    PruneWithinPolicy
