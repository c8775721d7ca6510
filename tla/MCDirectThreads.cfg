CONSTANTS
    u1 = u1
    u2 = u2
    x = x
    item = item
    junk = junk
    Users = {u1, u2}
    Scopes = {x}
    Workers = {w1, w2}
    Kinds = {"direct", "group", "support"}
    Registered = {item}
    Unregistered = {junk}
    Cids = {c}
    NoUser = NoUser
    NoCid = NoCid
    NoSubject = NoSubject
    NoKey = NoKey
    Deployments <- MCDeployments
    Offers <- MCOffers
    Prior <- MCPrior
    MayFail = TRUE
    MaxThreads = 2
    MaxMessages = 1
    MaxRemoved = 1
SYMMETRY Symmetry
SPECIFICATION Spec
INVARIANTS
    OneThreadPerPair
    RefusalsAreJust
PROPERTIES
    NothingSlipsThrough
    ImplementsDirectory
