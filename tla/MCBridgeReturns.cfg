CONSTANTS
    Caller = {c1}
    Record = {r1}
    Package = {}
    Asked <- PostOnly
    Proc = {b1, b2}
    Conn = {k1, k2}
    MaxRequests = 1
    None = None
SPECIFICATION BridgeSpec
PROPERTIES
    EveryCallReturns
    BridgeComesBack
CHECK_DEADLOCK FALSE
