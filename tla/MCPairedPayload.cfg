SPECIFICATION Spec
CONSTANTS
    None = None
    Process = {"app"}
    AnrFile = {"anr_1"}
    Fragment <- JavaEvidence
    Window = 4
    Skew = 1
    Settle = 1
    MaxAge = 9
    MaxPerGroup = 9
    MaxTotal = 9
    MaxPayloads = 9
    LogKeyAge = 9
    Excluded = {}
    Horizon = 6
    MaxCompletions = 3
    MaxRows = 3
    MaxFaults = 0
    MaxLives = 1
INVARIANT PairedLogSuppliesPayload
CHECK_DEADLOCK FALSE
