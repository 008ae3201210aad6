CONSTANTS
    Files <- Days  Analysts <- Kinds  Alert <- Rows
    NoSeek = NoSeek  Blank = ""
    WINDOW_S = 3
    MaxClicks = 4  MaxLooks = 2
SPECIFICATION ViewsSpec
CHECK_DEADLOCK FALSE
INVARIANTS
    NothingAhead
PROPERTIES
    SeekIsHonoured
    PlaysToTheEnd
    IncidentsOnlyGrow
