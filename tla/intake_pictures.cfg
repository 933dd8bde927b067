SPECIFICATION Spec
CONSTANTS
    m1 = m1
    m2 = m2
    m3 = m3
    amy = amy
    bob = bob
    bot = bot
    eve = eve
    Msgs <- MCMsgs
    Contents <- PictureContents
    Notices <- NoNotices
    Users <- MCUsers
    Hashes <- MCHashes
    Near <- MCNear
    Known <- MCKnown
    Faults = FALSE
    None = None
    Unchecked = Unchecked
SYMMETRY Symmetry
INVARIANTS
    GivesUpOnlyWhen
    SomeoneReports
    StickersNotReported
    ReportsFirst
CHECK_DEADLOCK FALSE
