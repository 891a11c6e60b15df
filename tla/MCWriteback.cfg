SPECIFICATION FairSpec
CONSTANTS
    Texts <- MCTexts
    ParseBool <- MCParseBool
    ParseFloat <- MCParseFloat
    Integral <- MCIntegral
    SignedWidth <- MCSignedWidth
    UnsignedWidth <- MCUnsignedWidth
    MaxWidth = 5
    Float32Max = 100
    NodeType <- MCNodeType
    CommandSet <- MCCommandSet
    NoNode = ""
    MaxCommands = 2
    NatsOutages = 1
    CanStop = TRUE
INVARIANTS TypeOK NewestWins RequestsFaithful ErrorMeansNotTaken
PROPERTIES ImplementsService Answered ShutdownEnds
CHECK_DEADLOCK FALSE
