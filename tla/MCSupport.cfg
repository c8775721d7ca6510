CONSTANTS
    Users = {ann, o1, o2}
    Customer = ann
    Workers = {w1, w2}
    NoUser = NoUser
    MaxMoves = 3
    MaxRevoked = 1
    MaxDeleted = 1
SYMMETRY Symmetry
SPECIFICATION Spec
INVARIANTS
    LinesTellMoves
    NobodyWaitsUnseen
PROPERTIES
    FirstComeFirstServed
    AuthorityComesFirst
