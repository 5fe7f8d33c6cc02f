CONSTANTS
    BlockCount = 4
    Entries = 3
    DataSize = 2
    HdrIxLen = 1
    IxLen = 1
    FdCount = 2
    GcMaxRuns = 5
    MaxRestarts = 20
    Names = {1, 2}
    Values = {1, 2}
    MaxSize = 4
    MaxCalls = 4
    NoFile = NoFile
    QuickFree = {0}
    MayCut = TRUE
SPECIFICATION Spec
INVARIANTS
    Counted
    NoPageLeaked
    DescriptorsFollow
    ListingComplete
    CheckMends
PROPERTY ImplementsObjectStore
CHECK_DEADLOCK FALSE
