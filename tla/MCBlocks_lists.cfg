SPECIFICATION Spec
CONSTANTS
    NONE = NONE
    Garbage = Garbage
    Token = {"{", "}"}
    Name = {"name"}
    Word = {"{", "}", "name"}
    MaxTexts = 4
    MallocMayFail = TRUE
    Block = {c1, c2}
    c1 = c1 c2 = c2
    Widths = {1}
    SizeMax = 4
    MaxSource = 2
    MaxHand = 1
    Type = {y1, y2}
    y1 = y1 y2 = y2
    MaxNames = 2
    CurlyWidth = 1
    MaxPushed = 2
    MaxLeft = 2
SYMMETRY Renamed
INVARIANTS
    IInv
    OnlyBracesLeak
PROPERTIES
    Implements
CHECK_DEADLOCK FALSE
