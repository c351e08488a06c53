SPECIFICATION Spec
CONSTANTS
    Calls = {c1, c2}
    NoCall = NoCall
    Stray = Stray
    NoId = NoId
    SupportsOob = FALSE
    IdModulus = 1
    MaxUnasked = 1
    Faults = {"cancel", "send", "event", "close", "abort"}
    Uses = {"spawn", "stream"}
SYMMETRY Symmetry
INVARIANTS
    SerialWithoutIds
PROPERTIES
    KeepsPromise
