SPECIFICATION Spec
CONSTANTS
    Nodes = {n1}
    Strays = {}
    Workers = {w1}
    PushMode = "timed"
    ForceHeartbeat = TRUE
    ChannelBufferSize = 1
    StaleThreshold = 1
    HealthBatchSize = 1
    ClockLag = 0
    SampleQualities = {"Good", "Bad"}
    Unmarshalable = {}
    MaxVersion = 1
    MaxTime = 1
    MaxBatch = 1
    NatsOutages = 0
    CanStop = FALSE
    CounterSize = 1
    NoValue = NoValue
    NoPoint = NoPoint
PROPERTIES BadHeartbeatKeepsTimestamp
CHECK_DEADLOCK FALSE
