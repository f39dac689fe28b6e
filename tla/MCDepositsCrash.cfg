SPECIFICATION SceneSpec
CONSTANTS
    checkout = checkout
    orphan = orphan
    transfer = transfer
    vain = vain
    note = note
    stray = stray
    h1 = h1
    h2 = h2
    h3 = h3
    api1 = api1
    api2 = api2
    NoPayment = NoPayment
    Payments = {checkout}
    Chain <- ChainOfPayments
    Known <- KnownPayments
    HasUser <- UserPayments
    HasCredits <- PaymentsWithCredits
    Sweepable <- SweptPayments
    Handlers = {h1, h2}
    Home <- HomeOfHandlers
    MaxFaults = 1
    Scenes <- OneCheckout
CHECK_DEADLOCK FALSE
PROPERTY ConfirmedIsCredited
