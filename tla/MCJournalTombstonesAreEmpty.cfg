CONSTANTS
    Users = {alice, bob}
    NoUser = NoUser
    Cids = {c1}
    NoCid = NoCid
    Texts = {hello}
    NoText = NoText
    Workers = {w1, w2}
    MaxSeq = 3
SPECIFICATION Spec
INVARIANT TombstonesAreEmpty
