SPECIFICATION Spec
CONSTANTS
    Base = 16
    Digits = 4
    MaxParameters = 2
    SignedChar = TRUE
    Scalars <- MCScalars
    Companions <- MCCompanions
    Names <- MCNames
    Methods <- MCMethods
    Headers <- MCHeaders
    MaxOthers = 2
    MaxSize = 4
    Decimals = 5
    Significant = 4
    FractionBits = 10
    ExponentBits = 5
CHECK_DEADLOCK FALSE
INVARIANT ResponseRoundTrip
INVARIANT ErrorsTold
INVARIANT RequestRoundTrip
INVARIANT PacketsFramed
INVARIANT CopiesEqual
INVARIANT ScalarsOrdered
INVARIANT JsonRoundTrip
INVARIANT JsonCutShort
INVARIANT AnsiRoundTrip
INVARIANT NumbersConverted
