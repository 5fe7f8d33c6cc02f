CONSTANTS
    NItems = 4
    Mem = 7
    MaxCalls = 5
    Keys = {"a", "A"}
    Strs = {"x"}
    Numbers = {"flt"}
    Texts <- MCTexts
    Content <- MCContent
    Spelling <- MCSpelling
    MaxBytes = 4
    Prebuffers = {1}
SPECIFICATION Spec
INVARIANTS
    NothingLost
    PrintedParses
    PrintersFit
PROPERTY ImplementsLists
CHECK_DEADLOCK FALSE
