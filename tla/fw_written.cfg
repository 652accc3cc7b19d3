SPECIFICATION Spec
CONSTANTS
    SamPage = 2
    MdmPage = 3
    Chunk = 2
    SamLens = {1}
    MdmLens = {3}
    Faults = {}
    MaxFaults = 0
    MaxAttempts = 1
PROPERTIES
    FinishedWhenWritten
CHECK_DEADLOCK FALSE
