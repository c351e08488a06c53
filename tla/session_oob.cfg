SPECIFICATION Spec
CONSTANTS
    Greetings = {{}, {"oob"}}
    Protocols = {"qmp"}
    MaxCalls = 1
    MaxFaults = 0
    Faults = {}
INVARIANT OobIsRecognised
