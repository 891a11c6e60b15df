SPECIFICATION Spec
CONSTANTS
    Nodes = {n1, n2}
    Strays = {}
    Workers = {w1}
    PushMode = "timed"
    ForceHeartbeat = TRUE
    ChannelBufferSize = 1
    StaleThreshold = 1
    HealthBatchSize = 1
    ClockLag = 2
    SampleQualities = {"Good"}
    Unmarshalable = {}
    MaxVersion = 1
    MaxTime = 0
    MaxBatch = 1
    NatsOutages = 0
    CanStop = FALSE
    CounterSize = 1
    NoValue = NoValue
    NoPoint = NoPoint
PROPERTIES ImplementsFeed
CHECK_DEADLOCK FALSE
