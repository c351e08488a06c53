SPECIFICATION Spec
CONSTANTS
    Calls = {c1, c2}
    NoCall = NoCall
    Stray = Stray
    NoId = NoId
    SupportsOob = FALSE
    IdModulus = 1
    MaxUnasked = 0
    Faults = {"cancel"}
    Uses = {"spawn"}
INVARIANTS
    DuplicateIdDoesNotHappen
