SPECIFICATION PipeSpec
CONSTANTS
    None = None
    Process = {"app"}
    AnrFile = {"anr_1"}
    Fragment <- OwnerDeath
    Window = 2
    Skew = 1
    Settle = 1
    MaxAge = 9
    MaxPerGroup = 9
    MaxTotal = 9
    MaxPayloads = 9
    LogKeyAge = 9
    Excluded = {}
    Horizon = 5
    MaxCompletions = 4
    MaxRows = 2
    MaxFaults = 1
    MaxLives = 2
    Grace = 1
    Unrelated = {}
    Installed = 2
    MaxGlitches = 1
INVARIANTS
    PipeTypeOK
    OneRecordPerDeath
    SentIsNeverHistory
CHECK_DEADLOCK FALSE
