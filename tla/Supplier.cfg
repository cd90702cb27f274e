SPECIFICATION FairSupplier
CONSTANTS
    StaleAfter = 2
    CheckTimeout = 1
    MaxAge = 4
    MaxRuns = 2
    Pids = {1, 2}
    ClockSteps <- ClockSetForward
    Lease = 4
INVARIANT HealthCheckTypeOK
PROPERTIES
    SuccessIsFresh
    SuccessFromLiveProcess
    
    SilenceIsNoticed
    SuccessIsEarned
