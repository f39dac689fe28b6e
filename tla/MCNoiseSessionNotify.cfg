SPECIFICATION Spec
CONSTANTS
    asr1 = asr1
    asr2 = asr2
    note = note
    Requests = {asr1, note}
    Kind <- KindOf
    Chunks <- ChunksOf
    ReplyChunks <- ReplyChunksOf
CHECK_DEADLOCK FALSE
INVARIANT QuietSessionAnswers

