SPECIFICATION FairSpec
CONSTANTS
    Procs = {p1, p2}
    Jobs = {j1, j2}
    NoJob = NoJob
    Kinds <- MixedKinds
    ZombieAge = 1
    MaxTime = 2
    MaxFaults = 2
CHECK_DEADLOCK FALSE
INVARIANTS YoungJobsRunOnce UnattendedOnlyAfterFault
PROPERTIES TextJobSettles ImplementsLifecycle
