SPECIFICATION Spec
CONSTANTS
    a = a
    b = b
    Ports = {a, b}
    Uses <- MCUses
    NoPort = NoPort
    MaxLen = 2
    MaxEvents = 0
    AwakeLimit = 1
INVARIANT
    PolledReady
PROPERTIES
    CompletionSeen
    OperationsEnd
    TimedWaitEnds
