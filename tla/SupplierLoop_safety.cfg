SPECIFICATION Spec
CONSTANTS
    PollInterval = 2
    PublishInterval = 20
    HeartbeatInterval = 15
    StaleAfter = 60
    RpcTimeout = 30
    PublishTimeout = 35
    RpcDelays <- SecondsRpcDelays
    PublishDelays <- SecondsPublishDelays
    MaxHeight = 2
    MaxAge = 160
    Faults <- SafetyFaults
INVARIANTS
    TypeOK
    HealthyIsEarned
    FreshWhilePublishing
    RecordAgeBounded
    LostStopIsBrief
PROPERTY PostsPolled
CHECK_DEADLOCK FALSE
