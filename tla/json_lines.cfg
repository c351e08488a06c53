SPECIFICATION FairSpec
CONSTANTS
    NL = NL
    g = g
    m = m
    MaxLen = 6
    MaxItems = 4
    Greeting = TRUE
    Byte <- MCByte
    Inputs <- MCInputs
    Valid <- MCValid
INVARIANTS
    ScanInv
    NoBufferedLine
    DeliveredInOrder
PROPERTIES
    LinesDelivered
