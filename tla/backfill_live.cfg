SPECIFICATION FairSpec
CONSTANTS
    Groups = {g1, g2}
    Limit = 2
    Chunk = 1
    MaxClock = 3
    Env <- AiAndCrash
    None = None
INVARIANT RepeatsOneBatch
PROPERTY EverythingAttempted
