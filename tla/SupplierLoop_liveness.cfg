SPECIFICATION FairSpec
CONSTANTS
    PollInterval = 1
    PublishInterval = 4
    HeartbeatInterval = 3
    StaleAfter = 12
    RpcTimeout = 6
    PublishTimeout = 7
    RpcDelays <- UnitsRpcDelays
    PublishDelays <- UnitsPublishDelays
    MaxHeight = 1
    MaxAge = 25
    Faults <- OutageFaults
PROPERTIES
    Recovers
    FaultsReported
    ImplementsContract
CHECK_DEADLOCK FALSE
