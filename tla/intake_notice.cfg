SPECIFICATION Spec
CONSTANTS
    m1 = m1
    m2 = m2
    m3 = m3
    amy = amy
    bob = bob
    bot = bot
    eve = eve
    Msgs <- TwoMsgs
    Contents <- CrowdContents
    Notices <- CrowdNotices
    Users <- MCUsers
    Hashes <- MCHashes
    Near <- MCNear
    Known <- MCKnown
    Faults = FALSE
    None = None
    Unchecked = Unchecked
INVARIANT EventsStored
CHECK_DEADLOCK FALSE
