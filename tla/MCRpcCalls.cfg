SPECIFICATION Spec
CONSTANTS
    t1 = t1
    t2 = t2
    w1 = w1
    w2 = w2
    Threads = {t1, t2}
    Dispatchers = {w1, w2}
    MaxCalls = 2
    TimeoutArgs = {TRUE, FALSE}
    Faults = {"close", "stop", "dispose", "sendError", "lose", "oddSize"}
CHECK_DEADLOCK FALSE
SYMMETRY Symmetry
INVARIANT TypeOK
INVARIANT OwnAnswer
INVARIANT PendingResponses
INVARIANT RegistrationLasts
INVARIANT VerdictFinal
PROPERTY IsRemoteCalls
