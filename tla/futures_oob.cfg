SPECIFICATION Spec
CONSTANTS
    Calls = {c1, c2}
    NoCall = NoCall
    Stray = Stray
    NoId = NoId
    SupportsOob = TRUE
    IdModulus = 3
    MaxUnasked = 1
    Faults = {"cancel", "event", "bad", "close"}
    Uses = {"spawn", "stream"}
SYMMETRY Symmetry
INVARIANTS
    NoLostWakeup
    NoCallStranded
    ReleaseHandshake
    EventsOutliveService
PROPERTIES
    FailureHasCause
    KeepsPromise
