SPECIFICATION FairSpec
CONSTANTS
    Protocols = {"qmp", "qga"}
    Values = {v1, v2}
    Returned = {v2}
    NoValue = none
    MaxCalls = 4
    MaxEvents = 2
    MaxFaults = 2
    Faults = {"write", "short", "read", "unknown", "restart", "close"}
INVARIANTS OwnAnswer AnswerComes EventsInOrder NopPollsEvents
PROPERTY ExecuteReturns
