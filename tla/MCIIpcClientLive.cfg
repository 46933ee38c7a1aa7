SPECIFICATION FairSpec
CONSTANTS
    app = app
    maintenance = maintenance
    dispatcher = dispatcher
    MaxAppCalls = 1
    MaxCallbackCalls = 1
    MaxConnects = 1
    MaxStarts = 1
    MaxTroubles = 2
    ServerAnswers = TRUE
    PidRefused = TRUE
    MayDispose = FALSE
CHECK_DEADLOCK FALSE
PROPERTY JoinsEnd
PROPERTY StopReturns
 
