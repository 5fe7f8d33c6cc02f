SPECIFICATION Spec
CONSTANTS
    N = 9
    Pieces <- MCPieces
    EditTexts <- MCEditTexts
    MaxPieces = 4
    MaxCalls = 4
INVARIANTS
    TreeSound
    PoolsTracked
    SavedIsLoaded
PROPERTY MovesLand
CHECK_DEADLOCK FALSE
