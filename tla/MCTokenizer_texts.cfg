SPECIFICATION FairSpec
CONSTANTS
    NUL = NUL
    Char <- CharSet
    Texts <- AllTexts
    MaxNumber = 5
    MaxString = 5
    MaxRegex = 4
    MaxWord = 3
    MaxLongWord = 9
    LLONG_MAX = 127
    BUF_SIZE = 2
    STARTING_RAW_MEM = 2
    SizeMax = 15
    MallocMayFail = TRUE
    ReadMayFail = TRUE
INVARIANTS
    ReadsText
    ReadsRight
    ValuesRight
    RoomForNul
    TokensAreText
PROPERTIES
    Ends
CHECK_DEADLOCK FALSE
