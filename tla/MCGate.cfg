SPECIFICATION Spec
CONSTANTS
    NFaults = 2
    MaxDefects = 2
    MaxRuns = 2
    MaxFailures = 1
INVARIANTS
    TypeOK
    GreenMeansProved
    LedgerIsTrue
PROPERTIES
    EveryRunEnds
CHECK_DEADLOCK FALSE
