SPECIFICATION Spec
CONSTANTS
    StaleAfter = 4
    CheckTimeout = 2
    MaxAge = 7
    MaxRuns = 2
    Pids = {1, 2}
    ClockSteps <- SteadyClock
PROPERTY SuccessFromLiveWriter
