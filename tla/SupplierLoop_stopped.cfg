SPECIFICATION Spec
CONSTANTS
    PollInterval = 2
    PublishInterval = 20
    HeartbeatInterval = 15
    StaleAfter = 60
    RpcTimeout = 30
    PublishTimeout = 35
    RpcDelays <- NoDelays
    PublishDelays <- DeadlineDelays
    MaxHeight = 1
    MaxAge = 160
    Faults <- StopFaults
INVARIANT StoppedIsFinal
CHECK_DEADLOCK FALSE
