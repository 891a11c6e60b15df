SPECIFICATION Spec
CONSTANTS
    Texts <- MCTexts
    ParseBool <- MCParseBool
    ParseFloat <- MCParseFloat
    Integral <- MCIntegral
    SignedWidth <- MCSignedWidth
    UnsignedWidth <- MCUnsignedWidth
    MaxWidth = 5
    Float32Max = 100
    NodeType <- MCNodeType
    CommandSet <- MCIntegerCommands
    NoNode = ""
    MaxCommands = 1
    NatsOutages = 1
    CanStop = TRUE
INVARIANTS OutOfRangeIsRejected
CHECK_DEADLOCK FALSE
