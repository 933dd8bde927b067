SPECIFICATION FairSpec
CONSTANTS
    Handlers = {h1, h2}
    Conns = {c1}
    Scripts <- QuietScripts
    MaxActions = 2
    Env <- NoEvents
    None = None
INVARIANT ReceiptMatchesSend
PROPERTY RepliesArchived
CHECK_DEADLOCK FALSE
