SPECIFICATION Spec
CONSTANTS
    m1 = m1
    m2 = m2
    NoOne = NoOne
    Machines <- TwoMachines
    Home = m1
    Beside <- MCBeside
    MaxStarts = 1
    MaxFailures = 1
    MaxKills = 0
INVARIANT AnyMachineCanEnd
