SPECIFICATION FairSpec
CONSTANTS
    Procs = {p1}
    Jobs = {j1}
    NoJob = NoJob
    Kinds <- ContentKinds
    ZombieAge = 1
    MaxTime = 2
    MaxFaults = 0

CHECK_DEADLOCK FALSE
PROPERTY ContentJobSettles
