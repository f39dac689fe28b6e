SPECIFICATION StreamsSpec
CONSTANTS
    asr1 = asr1
    asr2 = asr2
    note = note
    Requests = {asr1, asr2, note}
    Kind <- KindOf
    Chunks <- ChunksOf
    ReplyChunks <- ReplyChunksOf
    SentenceCount = 4
    Capacity = 2
    Connections = {q1, q2}
    NoBundle = NoBundle
    MaxBoots = 2
    MaxBreaks = 2
CHECK_DEADLOCK FALSE
INVARIANTS InOrder FailureHasCause SessionPaired
PROPERTIES EncryptedEnds ConversationServed

