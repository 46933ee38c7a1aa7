SPECIFICATION Spec
CONSTANTS
    Base = 256
    Packets <- MCPackets
    MaxPackets = 2
    ReadSize = 12
    MaxBreaks = 1
    CutAnywhere = TRUE
    QueueMayFill = FALSE
CHECK_DEADLOCK FALSE
INVARIANT NoProtocolError
