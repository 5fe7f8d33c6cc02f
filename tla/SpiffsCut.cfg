CONSTANTS
    BlockCount = 4
    Entries = 3
    DataSize = 2
    HdrIxLen = 1
    IxLen = 1
    FdCount = 1
    GcMaxRuns = 5
    MaxRestarts = 20
    Names = {1, 2}
    Values = {1, 2}
    MaxSize = 4
    MaxCalls = 3
    NoFile = NoFile
    QuickFree = {0}
    MayCut = TRUE
SPECIFICATION Spec
INVARIANT OneCutKeepsFiles
CHECK_DEADLOCK FALSE
