SPECIFICATION Spec
CONSTANTS
    alice = alice
    visitor = visitor
    article = article
    speech = speech
    song = song
    payout = payout
    hello = hello
    Accounts = {alice}
    Visitors = {visitor}
    Requests = {article, speech, song, payout, hello}
    Route <- RouteOf
    Payer <- PayerOf
    Chars <- CharsOf
    Cost <- CostOf
    Limit <- LimitOf
    Amounts <- OneOrTwo
    MaxGranted = 3
    MaxDay = 1
    MaxFaults = 1
CHECK_DEADLOCK FALSE
INVARIANTS ChargeMatchesJob BooksBalance
PROPERTIES DailyAllowance ImplementsAccounts
