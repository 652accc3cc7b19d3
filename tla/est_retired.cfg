SPECIFICATION Spec
CONSTANTS
    Socket = {s1, s2}
    NoSocket = NoSocket
    Capacity = 2
    NumPackets = 2
    RepeatLimit = 1
    BackoffLimit = 1
    Operator = FALSE
    Prompt = FALSE
    Faults = {"loss"}
    MaxEvents = 2
    MaxFaults = 1
CHECK_DEADLOCK FALSE
INVARIANTS
    RetiredWereReceived
