SPECIFICATION Spec
CONSTANTS
    p1 = p1
    f1 = f1
    i1 = i1
    i2 = i2
    None = None
    Procs <- OneProc
    Commands <- SyncTickEnd
    Faults <- OneFault
    Inodes <- TwoInodes
    MaxStarts = 1
    MaxSegments = 1
    MaxFaults = 1
INVARIANTS
    SegmentsAreAccountedFor
    TypeOK
    FinalScoreStands
PROPERTIES
    LastGoodBundleStands
    EndedSessionIsFrozen
    SegmentsReachTheBucket
    ImplementsDelivery
