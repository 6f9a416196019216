SPECIFICATION Spec
CONSTANTS
    Programs <- ForeignPrograms
    Foreign = {"f"}
    Pushed = {"puts", "{", "}"}
    MaxOps = 1
    MaxLength = 0
    MaxForeign = 2
    NONE = NONE
    NoSave = NoSave
    Void = Void
PROPERTIES
    MismatchReported
