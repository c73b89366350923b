CONSTANTS
    Crash <- TwoApps
    Client = {c1}
    Span = 8
    Times = {1, 2}
    MaxAge = 1
    MaxPerGroup = 2
    MaxTotal = 2
    MaxPayloads = 1
    LogKeyAge = 1
    MaxIds = 3
    MaxFaults = 1
    MaxLives = 2
SPECIFICATION StoreSpec
INVARIANTS
    StoreTypeOK
    IdsAreFresh
    LostPayloadWasChosen
    CeilingsHold
    GroupsCoverRows
CHECK_DEADLOCK FALSE
