SPECIFICATION EvidenceSpec
CONSTANTS
    None = None
    Fragment <- AllFragments
    Process = {"app", "app:remote", "main"}
    AnrFile = {"anr_1"}
    Window = 3
    Skew = 2
    Settle = 1
    Scenario <- TwoDeaths
    Flawed = {1}
    Class = {"Broken", "SIGSEGV"}
    Method = {"framework", "app", "waiting", "method(int)", "mapped", "base.apk"}
    Framework = {"framework"}
    FrameCount = 2
    MaxPlausibleUser = 999
    PerUser = 100000
    SystemServer = 1500
    ThreadName = "main"
    OtherThread = "waiting"
    Printed <- Prints
    MappedFile = "base.apk"
    PackageOf <- Packages
INVARIANTS
    CrashIsAttributed
    EvidenceJoins
    OnlyABlankHalfHides
    SiteIsStable
CHECK_DEADLOCK FALSE
