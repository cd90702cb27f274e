SPECIFICATION FairSpec
CONSTANTS
    Window = 12
    TorPollInterval = 1
    AttemptTimeout = 3
    PortTimeout = 2
    RetryInterval = 3
    StaleAfter = 20
    OpDelays = {0, 3}
    MaxAge = 21
INVARIANTS
    TorTypeOK
    WaitingNeverStale
    RouteProved
PROPERTIES
    BlameKeptInWindow
    ReadyWhenUsable
    TorFaultsReported
