SPECIFICATION SceneSpec
CONSTANTS
    checkout = checkout
    orphan = orphan
    transfer = transfer
    vain = vain
    note = note
    stray = stray
    h1 = h1
    h2 = h2
    h3 = h3
    api1 = api1
    api2 = api2
    NoPayment = NoPayment
    Payments = {checkout, orphan, transfer, vain, note, stray}
    Chain <- ChainOfPayments
    Known <- KnownPayments
    HasUser <- UserPayments
    HasCredits <- PaymentsWithCredits
    Sweepable <- SweptPayments
    Handlers = {h1, h2, h3}
    Home <- HomeOfHandlers
    MaxFaults = 2
    Scenes <- FiveScenes
CHECK_DEADLOCK FALSE
INVARIANTS FundsFollowCredit StrandedOnlyAfterFault
PROPERTIES ImplementsLedgers ArrivedIsCredited
