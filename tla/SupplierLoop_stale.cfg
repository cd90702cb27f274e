SPECIFICATION Spec
CONSTANTS
    PollInterval = 2
    PublishInterval = 20
    HeartbeatInterval = 15
    StaleAfter = 60
    RpcTimeout = 30
    PublishTimeout = 35
    RpcDelays <- SecondsRpcDelays
    PublishDelays <- NoDelays
    MaxHeight = 0
    MaxAge = 160
    Faults <- OutageFaults
INVARIANTS
    HealthyLoopNeverStale
CHECK_DEADLOCK FALSE
