SPECIFICATION Spec
CONSTANTS
    Socket = {s1, s2}
    NoSocket = NoSocket
    Capacity = 2
    NumPackets = 2
    RepeatLimit = 1
    BackoffLimit = 1
    Operator = FALSE
    Prompt = FALSE
    Faults = {"gprs", "bearer", "create", "connect", "loss", "send", "read", "power"}
    MaxEvents = 3
    MaxFaults = 2
CHECK_DEADLOCK FALSE
INVARIANTS
    TypeOK
    CountedWereSent
    ConfirmedWereReceived
    NoOverrun
    OneUplink
PROPERTIES
    JournalSpec
