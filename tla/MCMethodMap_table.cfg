SPECIFICATION Spec
CONSTANTS
    k1 = k1 k2 = k2 k3 = k3 k4 = k4 f1 = f1 b1 = b1 b2 = b2
    Key = {k1, k2, k3, k4}
    Hash <- Hashes
    CFun = {f1}
    Block = {b1, b2}
    NONE = NONE
    InitWidth = 2
    MaxDepth = 2
    PrefDepth = 1
    MaxWidth = 8
    MaxClaims = 2
    MaxPref = 3
    MallocMayFail = TRUE
INVARIANTS
    IInv
    DoublingFits
    OneOwner
PROPERTIES
    Implements
CHECK_DEADLOCK FALSE
