SPECIFICATION Spec
CONSTANTS
    Handlers = {h1, h2}
    Conns = {c1, c2}
    Scripts <- MCScripts
    MaxActions = 2
    Env <- AllEvents
    None = None
SYMMETRY Symmetry
INVARIANTS
    TypeOK
    OwnedOnce
    BacklogLaw
PROPERTIES
    ArchiveSpec
    LogSpec
CHECK_DEADLOCK FALSE
