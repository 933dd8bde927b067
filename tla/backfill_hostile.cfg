SPECIFICATION Spec
CONSTANTS
    Groups = {g1, g2}
    Limit = 2
    Chunk = 1
    MaxClock = 3
    Env <- Hostile
    None = None
SYMMETRY Symmetry
INVARIANTS
    TypeOK
    DoneMeansCaughtUp
PROPERTY ConsumerSpec
