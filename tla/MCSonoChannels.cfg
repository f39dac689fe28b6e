SPECIFICATION FairSpec
CONSTANTS
    alice = alice
    bob = bob
    Users = {alice}
    MaxDeposit = 2
    MaxBlock = 5
    SyncBack = 2
    PollBack = 1
    MaxFaults = 1
CHECK_DEADLOCK FALSE
INVARIANTS TableIsRight
PROPERTIES TallyKept OpenedIsTracked
