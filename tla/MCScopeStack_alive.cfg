SPECIFICATION Spec
CONSTANTS
    k1 = k1 k2 = k2 f1 = f1 f2 = f2 b1 = b1 b2 = b2
    Key = {k1, k2}
    CFun = {f1, f2}
    Block = {b1, b2}
    NONE = NONE
    NoSave = NoSave
    Void = Void
    Wrecked = Wrecked
    InitCap = 2
    MaxLayers = 3
    MaxLog = 3
    MallocMayFail = FALSE
PROPERTIES
    RestoredAlive
CHECK_DEADLOCK FALSE
