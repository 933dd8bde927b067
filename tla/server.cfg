SPECIFICATION FairSpec
CONSTANTS
    Payloads <- MCPayloads
    Part <- MCPart
    MaxTexts = 2
    MaxReads = 2
    Faults = TRUE
    Reader = Reader
    Nobody = Nobody
    MaxDuplicates = 1
    Answers <- MCAnswers
INVARIANTS
    TypeOK
    RepliesSound
PROPERTIES
    LogSpec
    Finishes
CHECK_DEADLOCK FALSE
