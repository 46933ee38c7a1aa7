SPECIFICATION FairSpec
CONSTANTS
    t1 = t1
    w1 = w1
    Callers = {t1}
    Workers = {w1}
    MethodOf <- MCMethodOf
    Parts = 2
    Room = 1
    RoomBack = 1
    QueueSize = 1
    MaxCalls = 1
    MaxConnections = 2
CHECK_DEADLOCK FALSE
INVARIANT TypeOK
INVARIANT PacketsWhole
INVARIANT AnsweredOnce
PROPERTY RequestAnswered
PROPERTY StopReturns
