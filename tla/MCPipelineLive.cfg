SPECIFICATION FairPipeSpec
CONSTANTS
    None = None
    Process = {"app"}
    AnrFile = {"anr_1"}
    Fragment <- AnrDeath
    Window = 2
    Skew = 1
    Settle = 1
    MaxAge = 9
    MaxPerGroup = 9
    MaxTotal = 9
    MaxPayloads = 9
    LogKeyAge = 9
    Excluded = {}
    Horizon = 6
    MaxCompletions = 4
    MaxRows = 4
    MaxFaults = 0
    MaxLives = 2
    Grace = 1
    Unrelated <- BlankDump
    Installed = 2
    MaxGlitches = 0
CHECK_DEADLOCK FALSE
PROPERTIES
    EvidenceSettles
