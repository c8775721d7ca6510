CONSTANTS
    Senders = {s1, s2}
    Workers = {w1, w2}
    r1 = r1
    r2 = r2
    NoKey = NoKey
    Media <- MCMedia
    Types = {"image", "file", "contact"}
    Offers <- MCOffers
    Legacy <- MCLegacy
    Words <- MCWords
    MaxAttachments = 2
    MaxRows = 2
    MaxLost = 2
    MaxPasses = 1
SYMMETRY Symmetry
SPECIFICATION Spec
CHECK_DEADLOCK FALSE
INVARIANTS
    LiveMediaIsKept
    DeadMediaIsReleased
PROPERTIES
    OnlyTheDeadAreReleased
