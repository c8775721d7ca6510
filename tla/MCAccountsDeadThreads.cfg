CONSTANTS
    guest = guest
    survivor = survivor
    other = other
    c = c
    Rooms <- MCRooms
    Histories <- MCHistories
    Users = {guest, survivor, other}
    Guest = guest
    Survivor = survivor
    Leavers = {other}
    NoUser = NoUser
    Cids = {c}
    NoCid = NoCid
    MaxNews = 0
    MaxCrashes = 1
    MaxRepeats = 0
SPECIFICATION Spec
CHECK_DEADLOCK FALSE
INVARIANT DeadThreadsGo
