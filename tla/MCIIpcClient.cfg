SPECIFICATION Spec
CONSTANTS
    app = app
    maintenance = maintenance
    dispatcher = dispatcher
    MaxAppCalls = 1
    MaxCallbackCalls = 0
    MaxConnects = 2
    MaxStarts = 2
    MaxTroubles = 1
    ServerAnswers = TRUE
    PidRefused = TRUE
    MayDispose = TRUE
CHECK_DEADLOCK FALSE
INVARIANT TypeOK
INVARIANT JoinedByOne
INVARIANT ClosedOnce
INVARIANT StoppedIsQuiet
PROPERTY EnqueueOpen
PROPERTY CallsHold
