SPECIFICATION Spec
CONSTANTS
    p1 = p1
    e1 = e1
    e2 = e2
    Procs <- OneProc
    Envs <- TwoEnvs
    SharedEnvs <- FirstEnv
    AppEnvs = {}
    NPids = 2
    MaxFaults = 1
INVARIANTS
    TypeOK
    RecorderNeverAccusesFalsely
    EveryProcessIsRecorded
PROPERTIES
    AnswersAreItsOwn
    StopLeavesNothing
