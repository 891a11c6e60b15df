SPECIFICATION FairSpec
CONSTANTS
    Nodes = {n1}
    Strays = {}
    Workers = {w1, w2}
    PushMode = "immediate"
    ForceHeartbeat = TRUE
    ChannelBufferSize = 1
    StaleThreshold = 1
    HealthBatchSize = 1
    ClockLag = 2
    SampleQualities = {"Good"}
    Unmarshalable = {}
    MaxVersion = 1
    MaxTime = 0
    MaxBatch = 1
    NatsOutages = 1
    CanStop = FALSE
    CounterSize = 1
    NoValue = NoValue
    NoPoint = NoPoint
PROPERTIES Converges StaleIsAnnounced
CHECK_DEADLOCK FALSE
