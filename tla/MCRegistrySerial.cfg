SPECIFICATION Spec
CONSTANTS
    p1 = p1
    s1 = s1
    s2 = s2
    s3 = s3
    s4 = s4
    NoSeed = NoSeed
    Procs <- OneProc
    Seeds <- FourSeeds
    UsesOf <- OneOfEach
    PinnedSeeds <- Pinned
    MaxCrashes = 2
INVARIANTS
    TypeOK
    EndedOverNothingNamed
PROPERTIES
    OnlyStartRetargets
