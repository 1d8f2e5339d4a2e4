SPECIFICATION MCSpec
CONSTANTS
    Ask = {a1}
    Reply <- Everything
    MaxReplies = 3
    None = None
    Pusher = {p1, p2}
    Closer = closer
    MaxQueue = 3
    MaxPushes = 3
    End = End
    MaxCalls = 2
    Events <- Written
    MaxEvents = 2
INVARIANTS NoAnswerIsPassedOver FirstAnswerCounts TopicEndsWithItsAsk WireIsComplete ChunksDoNotMatter
PROPERTY NobodyWaitsForever
CHECK_DEADLOCK FALSE
