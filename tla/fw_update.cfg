SPECIFICATION FairSpec
CONSTANTS
    SamPage = 2
    MdmPage = 3
    Chunk = 2
    SamLens = {0, 3, 4}
    MdmLens = {0, 3, 7}
    Faults = {"power", "late", "urc", "ok", "fota", "second"}
    MaxFaults = 3
    MaxAttempts = 2
INVARIANTS
    TypeOK
    FlagMeansWhole
    PagesInTurn
    SamUpdateGood
PROPERTIES
    DoneMeansFlashed
    UpdateEnds
CONSTRAINT ShortWhenTwo
CHECK_DEADLOCK FALSE
