SPECIFICATION Spec
CONSTANTS
    Nodes = {n1}
    Strays = {}
    Workers = {w1, w2}
    PushMode = "immediate"
    ForceHeartbeat = TRUE
    ChannelBufferSize = 1
    StaleThreshold = 1
    HealthBatchSize = 1
    ClockLag = 1
    SampleQualities = {"Good", "Bad"}
    Unmarshalable = {0}
    MaxVersion = 1
    MaxTime = 1
    MaxBatch = 1
    NatsOutages = 0
    CanStop = TRUE
    CounterSize = 2
    NoValue = NoValue
    NoPoint = NoPoint
SYMMETRY WorkerSymmetry
INVARIANTS TypeOK ClosedOnlyWhenQuiet StaleOnlyIfSilent PointsAccounted
PROPERTIES ImplementsFeed
CHECK_DEADLOCK FALSE
