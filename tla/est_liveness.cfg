SPECIFICATION FairSpec
CONSTANTS
    Socket = {s1, s2}
    NoSocket = NoSocket
    Capacity = 2
    NumPackets = 2
    RepeatLimit = 1
    BackoffLimit = 1
    Operator = FALSE
    Prompt = TRUE
    Faults = {"connect", "loss", "send", "read", "power"}
    MaxEvents = 2
    MaxFaults = 2
CHECK_DEADLOCK FALSE
PROPERTIES
    EveryEventLeaves
    AlwaysReconnects
