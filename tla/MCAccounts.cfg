CONSTANTS
    guest = guest
    survivor = survivor
    other = other
    c = c
    Rooms <- MCRooms
    Histories <- MCHistories
    Users = {guest, survivor, other}
    Guest = guest
    Survivor = survivor
    Leavers = {other}
    NoUser = NoUser
    Cids = {c}
    NoCid = NoCid
    MaxNews = 1
    MaxCrashes = 1
    MaxRepeats = 1
SPECIFICATION FairSpec
CHECK_DEADLOCK FALSE
INVARIANTS
    NothingStaysBehind
    OneThreadPerPair
    ErasureReaches
PROPERTIES
    ThreadsKeepTheirOrder
    NothingIsLost
    DeliveriesComplete
