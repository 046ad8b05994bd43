SPECIFICATION Spec
CONSTANTS
    p1 = p1
    Procs <- OneProc
    NFaults = 3
    MaxAborts = 2
INVARIANTS
    TypeOK
    OnlyNextFaultUnrecorded
PROPERTIES
    TeardownSticks
    RecordOnlyGrows
    BreakInjectsWholePack
