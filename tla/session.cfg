SPECIFICATION FairSpec
CONSTANTS
    Greetings = {{}, {"oob"}, {"null"}}
    Protocols = {"qmp", "qga"}
    MaxCalls = 3
    MaxFaults = 2
    Faults = {"cancel", "send", "event", "bad", "stray", "close"}
INVARIANTS AnswerBeatsEnd PanicNeedsLostCall ErrorHasCause HandOverClean
PROPERTY ExecuteEnds
