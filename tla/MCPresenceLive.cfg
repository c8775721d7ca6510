CONSTANTS
    Sockets = {s1, s2}
    Ttl = 5
    Throttle = 2
    Interval = 1
    Heartbeat = 1
    CallTicks = 1
    MaxConnections = 2
    MayFail = FALSE
    MayCrash = TRUE
SPECIFICATION FairSpec
INVARIANTS
    CountCovers
PROPERTIES
    StayersAreSeen
