SPECIFICATION Spec
CONSTANTS
    Base = 256
    Packets <- MCPackets
    MaxPackets = 3
    ReadSize = 12
    MaxBreaks = 1
    CutAnywhere = FALSE
    QueueMayFill = TRUE
CHECK_DEADLOCK FALSE
INVARIANT PacketsIntact
INVARIANT NothingWithheld
