SPECIFICATION FairSpec
CONSTANTS
    BufferLen = 14
    ReadLen = 9
    TimeLen = 1
    Beyond = 23
    Payloads <- MCPayloads
    Stamps <- MCStamps
    SyncLimit = 1
    MaxFrames = 3
INVARIANTS
    TypeOK
    HandledInOrder
    NothingSkipped
PROPERTIES
    AllHandled
