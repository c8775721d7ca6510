CONSTANTS
    t1 = t1
    t2 = t2
    t3 = t3
    s1 = s1
    s2 = s2
    NoSubject = NoSubject
    NoNeedle = NoNeedle
    Threads = {t1, t2, t3}
    Words <- MCWords
    Names <- MCNames
    SubjectOf <- MCSubjectOf
    Titles <- MCTitles
    Labels <- MCLabels
    Walks <- MCWalks
    Says <- MCSays
    Edits <- MCEdits
    Prior <- MCPrior
    PageSize = 1
    ScanLimit = 1
    PreviewWords = 2
    MaxMoves = 2
SPECIFICATION Spec
CHECK_DEADLOCK FALSE
INVARIANTS
    FoundIsDrawn
    RowsTellTheLine
    WalkIsFaithful
