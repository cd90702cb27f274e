SPECIFICATION Spec
CONSTANTS
    i1 = i1
    i2 = i2
    i3 = i3
    i4 = i4
    i5 = i5
    Inodes = {i1, i2, i3, i4, i5}
    NoFile = NoFile
    healthy = healthy
    LoopRecords = {healthy}
    MaxSignals = 2
    SignalSteps <- SettledSteps
    DiskFaults <- AllFaults
INVARIANTS
    HealthFileTypeOK
    RecordWhole
    StopIsRecorded
PROPERTY IsAtomicRegister
SYMMETRY AnyInode
