SPECIFICATION SessionsSpec
CONSTANTS
    Handlers = {h1, h2}
    Nothing = Nothing
    MaxFaults = 1
    KeyTokens = {}
    UserTokens = {t1}
    LegacyTokens = {}
INVARIANT SessionIsRecognised
CHECK_DEADLOCK FALSE
