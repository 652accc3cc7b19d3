SPECIFICATION Spec
CONSTANTS
    Socket = {s1, s2}
    NoSocket = NoSocket
    Capacity = 1
    NumPackets = 2
    RepeatLimit = 0
    BackoffLimit = 0
    Operator = TRUE
    Prompt = FALSE
    Faults = {"connect", "loss"}
    MaxEvents = 2
    MaxFaults = 1
CHECK_DEADLOCK FALSE
SYMMETRY SocketSymmetry
INVARIANTS
    CountedWereSent
