CONSTANTS
    p1 = p1
    Pkg = {p1}
    Conn = {c1}
    Asked <- MCAsked
    Crashes <- MCCrashes
    MinKept = 1
    MaxKept = 2
    Kept = 2
    MaxAsks = 2
    Faults = TRUE
    Outages = TRUE
    Sdk28 = TRUE
    All = All
    Corrupt = Corrupt
    None = None
SPECIFICATION ConfigSpec
INVARIANTS
    AnsweredIsInForce
    SilencedAppsStaySilent
PROPERTY
    ConfigIsAtomic
CHECK_DEADLOCK FALSE
