SPECIFICATION FairSpec
CONSTANTS
    Programs <- AllPrograms
    Foreign = {"f"}
    Pushed = {"puts", "{", "}"}
    MaxOps = 5
    MaxLength = 4
    MaxForeign = 2
    NONE = NONE
    NoSave = NoSave
    Void = Void
INVARIANTS
    IInv
    NoStaleSave
    RunsInOrder
PROPERTIES
    CurlyMatches
    Halts
    MismatchLeavesNoTrace
