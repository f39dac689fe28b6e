SPECIFICATION Spec
CONSTANTS
    Handlers = {h1, h2}
    Nothing = Nothing
    MaxFaults = 1
    Tokens = {1, 2}
    NoToken = NoToken
    Kinds <- MCKinds
    Counted <- MCCounted
    MaxAttempts = 2
    MaxLinks = 1
    MaxChallenges = 1
    Ttl = 2
    Timeout = 1
    NewId <- MCNewId
    recording = recording
    note = note
    film = film
    Items = {recording, note, film}
    SizeOf <- MCSizes
    Quota = 1
    MaxSize = 1
    Credits = 1
    Pages = {1, 2}
    Texts = {x1, x2}
    Users = {alice, bob}
    ContactIds = {c1, c2, c3}
    Lengths <- MCLengths
    MaxLength = 2
    DailyLimit = 2
    LastDay = 1
    Codes = {red, blue}
    Sockets = {s1, s2, s3}
    Sessions = {1, 2}
    NoSession = NoSession
    Oracles = {o1, o2}
    Prices <- MCPrices
    MaxErrors = 1
    Accounts = {alice}
    Callers = {d1, d2, d3}
    NoAccount = NoAccount
    MaxAddresses = 2
    MaxDrops = 1
    Ceremonies = {1, 2}
    Costs = {2, 3}
    Custodial = 4
    InChannel = 4
    MaxChanges = 1
    paid1 = paid1
    paid2 = paid2
    paid3 = paid3
    Notes = {paid1, paid2, paid3}
    TxOf <- MCTxOf
    MaxStarts = 2
    MaxFailures = 1
    book = book
    page = page
    Jobs = {book, page}
    Shared = TRUE
    Watchers = {w1}
    MaxMisreads = 1
    Files = {f1}
    KeyTokens = {key1}
    UserTokens = {user1}
    LegacyTokens = {}
    MaxSeals = 3
INVARIANTS SignInWhole IdentityHolds
           ListedIsStored OverrunByOverlap ContentHistory RowPerInvite EmbedCounted
           CallTally QuoteIsContract AddressServed
           CeremonyCounts TakenIsEarned CreditedPerStart ToldIsFinal
           UploadsReadable LoggedOutIsRefused WebhookVerifies
PROPERTIES Readmitted
CHECK_DEADLOCK FALSE
