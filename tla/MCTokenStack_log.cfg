SPECIFICATION FairSpec
CONSTANTS
    a = a b = b
    Token = {a, b}
    Inputs <- Programs
    NoSave = NoSave
    MaxLevels = 3
    MaxTokens = 2
    MaxLog = 4
    MallocMayFail = TRUE
INVARIANTS
    IInv
    TextsOwned
PROPERTIES
    RestoreExact
    FreeLeaves
    LoopsEnd
    Implements
CHECK_DEADLOCK FALSE
