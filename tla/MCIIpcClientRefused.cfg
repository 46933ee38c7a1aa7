SPECIFICATION FairSpec
CONSTANTS
    app = app
    maintenance = maintenance
    dispatcher = dispatcher
    MaxAppCalls = 1
    MaxCallbackCalls = 0
    MaxConnects = 2
    MaxStarts = 1
    MaxTroubles = 1
    ServerAnswers = TRUE
    PidRefused = TRUE
    MayDispose = FALSE
CHECK_DEADLOCK FALSE
PROPERTY LostCallReturns
