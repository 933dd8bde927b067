SPECIFICATION Spec
CONSTANTS
    \* AiCommands
    Handlers = {"h1", "h2"}
    Newest = 2
    Url <- MCUrl
    Counts = {2}
    Offers <- MCOffers
    MaxHistory = 2
    Tries = 2
    None = None
    \* BbhAppend
    Authors = {"h1", "h2"}
    Web = {"w"}
    Old = {"first"}
    Books <- MCBooks
    Ranges <- MCRanges
    Opening = "h"
    Closing = "t"
    \* ImagePool
    Commands = {"h1", "h2"}
    Family <- MCFamily
    HasURL <- MCHasURL
    RowsAsked <- MCRowsAsked
    MaxConcurrency = 2
    NoURL = NoURL
    \* QTanAnimation
    Pictures <- MCPictures
    Parts = {1, 2, 3}
    Options <- MCOptions
    NotGiven = NotGiven
    Heights = {0, 45, 1000}
    FrameInterval = 20
    MaxDuration = 8000
    MaxSourcePixels = 67108864
    MaxPixels = 40000
    Padding = 10
    \* QTanPalette
    Colours <- MCColours
    Weights = {1, 2, 9}
    MaxColors = 3
INVARIANTS
    TypeOK
    AicPicturesMatch
    AicContinuesTheLastAi
    RepeatsOnlyAfterAllTries
    ParagraphsSound
    PicturesSound
    AnimationSound
    AnswersExact
PROPERTIES
    RefusedIsNotRetried
    CommandsEnd
CHECK_DEADLOCK FALSE
