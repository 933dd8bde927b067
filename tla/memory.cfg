SPECIFICATION FairSpec
CONSTANTS
    g1 = g1
    s1 = s1
    s2 = s2
    s3 = s3
    amy = amy
    bob = bob
    Groups = {g1}
    Sources <- MCSources
    GroupOf <- MCGroupOf
    UserOf <- MCUserOf
    Users = {amy, bob}
    Texts = {1, 2, 3}
    Answers <- MCAnswers
    Alike <- MCAlike
    MaxItems = 2
    Faults = TRUE
    MaxCrashes = 1
    Ticker = Ticker
    NoUser = NoUser
INVARIANTS
    TypeOK
    ItemsKept
    OneActiveFact
    ImpressionsKept
    VersionsGrow
PROPERTY ItemsLeave
CHECK_DEADLOCK FALSE
