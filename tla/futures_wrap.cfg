SPECIFICATION Spec
CONSTANTS
    Calls = {c1, c2, c3}
    NoCall = NoCall
    Stray = Stray
    NoId = NoId
    SupportsOob = TRUE
    IdModulus = 2
    MaxUnasked = 0
    Faults = {"cancel"}
    Uses = {"spawn"}
SYMMETRY Symmetry
INVARIANTS
    TypeOK
    DuplicateIdCause
    OwnReply
CHECK_DEADLOCK FALSE
