SPECIFICATION Spec
CONSTANTS
    Key = {"a", "b", "c"}
    Hash <- HashOf
    MaxDepth = 2
    PrefDepth = 1
    NONE = NONE
    Obj = {o1, o2, o3}
    Map = {m}
    LiteralKind = {"integral"}
    SizeMax = 2
    MaxHeld = 1
    MaxItems = 4
INVARIANTS
    IInv
    NothingDangles
    Acyclic
    OnlyReachable
SYMMETRY Permuted
PROPERTIES
    Implements
CHECK_DEADLOCK FALSE
