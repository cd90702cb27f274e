SPECIFICATION Spec
CONSTANTS
    PollInterval = 2
    PublishInterval = 20
    HeartbeatInterval = 15
    StaleAfter = 60
    RpcTimeout = 30
    PublishTimeout = 35
    RpcDelays <- NoDelays
    PublishDelays <- NoDelays
    MaxHeight = 1
    MaxAge = 160
    Faults <- NoFaults
INVARIANT PublishesSynchronizedTip
CHECK_DEADLOCK FALSE
