SPECIFICATION FairSpec
CONSTANTS
    Deadline = 6
    ProbeTimeout = 1
    Networks <- NetworkModes
    Disk <- DiskStates
INVARIANTS
    PublicationTypeOK
    DeadlineKept
    VerdictIsPools
    AlarmIsOwn
    StopEndsProcess
PROPERTIES
    AnswerIsTold
    EveryCallReturns
CHECK_DEADLOCK FALSE
