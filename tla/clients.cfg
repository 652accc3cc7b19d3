SPECIFICATION MCSpec
CONSTANTS
    Digits = {0, 1, 7}
    Query = Query
    OpenMenu = OpenMenu
    Config = Config
    Word = Word
    MaxText = 3
    Socket = {s1, s2}
    Slots = 3
    Free = Free
    Failed = Failed
    None = None
    Faults = {"accept", "read", "send", "orphan", "stale"}
    MaxFaults = 2
INVARIANTS
    TypeOK
    QuestionsNeedMenu
    AnswersFollowQuestion
    
    
    
SYMMETRY Sockets
