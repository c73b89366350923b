CONSTANTS
    mgr = mgr
    app = app
    sys = sys
    Pkg = {mgr, app, sys}
    Manager = mgr
    SystemPkg = {sys}
    Partition = {sys}
    Fresh = {app}
    AppId <- MCAppId
    Peer <- MCPeer
    Process = {}
    Crashing = {app}
    Slot = {s1}
    Include = {TRUE, FALSE}
    Interval = 1
    Retries = 1
    MaxMoves = 1
    MaxDeaths = 1
    Nobody = Nobody
SPECIFICATION PkSpec
INVARIANT OnlyNewAppsAreMisfiled
PROPERTY ManagerGetsIn
CHECK_DEADLOCK FALSE
