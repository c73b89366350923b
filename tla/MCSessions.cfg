CONSTANTS
    Slot = {s1, s2}
    Capacity = 2
    Reader = {a}
    Rec = {r1}
    Text <- MCText
    ChunkLen = 4
    PieceLen = 2
    MaxChunk = 3
    MaxFaults = 2
    MaxLeaks = 1
    MaxHandles = 1
    Nothing = Nothing
SPECIFICATION SsSpec
INVARIANT ShownTextIsWhole
PROPERTIES OneRetryIsEnough EveryRequestEnds FailuresStop
CHECK_DEADLOCK FALSE
