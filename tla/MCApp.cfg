SPECIFICATION FairSpec
CONSTANTS
    Second = 10
    MaxDuration = 8191
    Variables <- MCVariables
    Folders <- MCFolders
    Hidden <- MCHidden
    Garbage <- MCGarbage
    MaxBrowses = 6
    Unknown = "unknown"
    None = None
    ItemsPerSub = 2
    SubChannelSize = 2
    MergedSize = 1
    MaxChanges = 1
    MaxOthers = 1
    NatsOutages = 1
    Setups <- MCSetups
INVARIANTS TypeOK ConfigSafe FlagSettles ResolvedBetween Attributed
PROPERTIES NoStepBack EveryChangeHandled Starts
CHECK_DEADLOCK FALSE
