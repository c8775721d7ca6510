CONSTANTS
    Users = {ann, bob}
    Readers = {ann}
    NoUser = NoUser
    MaxSeq = 3
    MaxNamed = 3
    MaxClock = 3
    MaxReads = 1
    MaxClears = 2
SPECIFICATION Spec
CHECK_DEADLOCK FALSE
INVARIANT TypeOK
PROPERTIES
    MarkersMoveForward
    NewsRaisesBadge
    RetiredStaysRetired
