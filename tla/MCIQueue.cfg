SPECIFICATION FairSpec
CONSTANTS
    p1 = p1
    p2 = p2
    w1 = w1
    w2 = w2
    Producers = {p1, p2}
    Waiting = {p2}
    Workers = {w1, w2}
    BufferSize = 2
    MaxEntries = 3
    MaxStarts = 2
    MaxPolls = 1
CHECK_DEADLOCK FALSE
INVARIANT TypeOK
INVARIANT RingConsistent
INVARIANT BufferAccessed
PROPERTY IsWorkQueue
PROPERTY EntryHandled
PROPERTY StopReturns
PROPERTY EnqueueReturns
