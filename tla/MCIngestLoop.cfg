SPECIFICATION Spec
CONSTANTS
    None = None
    Process = {"app"}
    AnrFile = {"anr_1", "anr_2"}
    Fragment <- MixedEvidence
    Window = 4
    Skew = 1
    Settle = 1
    MaxAge = 3
    MaxPerGroup = 1
    MaxTotal = 2
    MaxPayloads = 1
    LogKeyAge = 2
    Excluded <- NoSelfHandled
    Horizon = 5
    MaxCompletions = 2
    MaxRows = 3
    MaxFaults = 1
    MaxLives = 2
INVARIANTS
    TypeOK
    RowsNeverMixIdentities
    OneFragmentPerSource
    AcknowledgedIsRecorded
    SuppressionSettles
PROPERTIES
    NoSilentDrop
    SweepTakesOldest
    EvictionIsFinal
CHECK_DEADLOCK FALSE
