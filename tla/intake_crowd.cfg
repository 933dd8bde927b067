SPECIFICATION Spec
CONSTANTS
    m1 = m1
    m2 = m2
    m3 = m3
    amy = amy
    bob = bob
    bot = bot
    eve = eve
    Msgs <- TwoMsgs
    Contents <- CrowdContents
    Notices <- CrowdNotices
    Users <- MCUsers
    Hashes <- MCHashes
    Near <- MCNear
    Known <- MCKnown
    Faults = TRUE
    None = None
    Unchecked = Unchecked
INVARIANTS
    TypeOK
    StoredInOrder
    ReportsAreGenuine
PROPERTY RowsNeverChange
CHECK_DEADLOCK FALSE
