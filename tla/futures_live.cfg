SPECIFICATION FairSpec
CONSTANTS
    Calls = {c1, c2}
    NoCall = NoCall
    Stray = Stray
    NoId = NoId
    SupportsOob = FALSE
    IdModulus = 1
    MaxUnasked = 1
    Faults = {"close", "event", "abort", "stray"}
    Uses = {"spawn"}
PROPERTIES
    CallsComplete
    ServiceDropEndsLoop
