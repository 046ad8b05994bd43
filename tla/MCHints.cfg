SPECIFICATION FairSpec
CONSTANTS
    w1 = w1
    w2 = w2
    w3 = w3
    Writers <- ThreeWriters
    MaxCrashes = 1
INVARIANTS
    TypeOK
    MutualExclusion
PROPERTIES
    EveryHintReturns
    ImplementsHintLedger
CHECK_DEADLOCK FALSE
