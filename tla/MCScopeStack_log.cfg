SPECIFICATION Spec
CONSTANTS
    k1 = k1 f1 = f1 b1 = b1 b2 = b2
    Key = {k1}
    CFun = {f1}
    Block = {b1, b2}
    NONE = NONE
    NoSave = NoSave
    Void = Void
    Wrecked = Wrecked
    InitCap = 1
    MaxLayers = 3
    MaxLog = 3
    MallocMayFail = TRUE
SYMMETRY Renamed
CONSTRAINT NotBeyondWreck
INVARIANTS
    IInv
    OneOwner
PROPERTIES
    RestoreExact
    Implements
CHECK_DEADLOCK FALSE
