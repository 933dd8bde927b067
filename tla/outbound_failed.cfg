SPECIFICATION Spec
CONSTANTS
    Handlers = {h1, h2}
    Conns = {c1}
    Scripts <- ReplyOnly
    MaxActions = 1
    Env <- FailOnly
    None = None
INVARIANT ReceiptMatchesSend
CHECK_DEADLOCK FALSE
