SPECIFICATION FairSpec
CONSTANTS
    Plain = {"apn", "schedulers"}
    Echoed = {"deboung"}
    Given = {"use_sched", "sport"}
    Value = {0, 1}
    Default = 1
    Off = 0
    Cut = Cut
    Torn = Torn
    Faults = {"save", "sched", "restore", "remark", "mark", "read", "power", "lost", "settings"}
    MaxFaults = 1
    MaxTokens = 1
    MaxOps = 3
    MaxFlight = 2
INVARIANTS
    TypeOK
    CutStays
    LastWord
PROPERTIES
    BootKeepsSettings
    BoardWins
