\* Two participants, two workers, one client_msg_id; four positions.
CONSTANTS
    Users = {alice, bob}
    NoUser = NoUser
    Cids = {c1}
    NoCid = NoCid
    Texts = {hello}
    NoText = NoText
    Workers = {w1, w2}
    MaxSeq = 4
SYMMETRY Symmetry
SPECIFICATION Spec
INVARIANTS
    TypeOK
    JournalPositions
    SendOnce
    OutboxTellsJournal
    QuietAfterLeaving
    FramesFollowRows
PROPERTIES
    ChangesPassEveryCursor
    TombstonesStay
    ImplementsJournal
