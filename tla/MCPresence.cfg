CONSTANTS
    Sockets = {s1, s2}
    Ttl = 6
    Throttle = 2
    Interval = 1
    Heartbeat = 1
    CallTicks = 1
    MaxConnections = 3
    MayFail = TRUE
    MayCrash = TRUE
SYMMETRY Symmetry
SPECIFICATION PresenceSpec
INVARIANTS
    GhostsFade
