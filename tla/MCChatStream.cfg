CONSTANTS
    MaxSeq = 3
    Window = 1
    MaxDrops = 3
SPECIFICATION Spec
INVARIANTS
    CursorIsHonest
    AnsweredIsComplete
PROPERTIES
    ImplementsJournal
CHECK_DEADLOCK FALSE
