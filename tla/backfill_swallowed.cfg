SPECIFICATION Spec
CONSTANTS
    Groups = {g1, g2}
    Limit = 2
    Chunk = 1
    MaxClock = 3
    Env <- AiOnly
    None = None
INVARIANT FailedBatchKept
