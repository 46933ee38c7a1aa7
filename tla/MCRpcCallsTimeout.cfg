SPECIFICATION FairSpec
CONSTANTS
    t1 = t1
    t2 = t2
    w1 = w1
    w2 = w2
    Threads = {t1, t2}
    Dispatchers = {w1}
    MaxCalls = 2
    TimeoutArgs = {TRUE}
    Faults = {}
CHECK_DEADLOCK FALSE
PROPERTY TimedCallReturns
