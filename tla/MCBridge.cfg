CONSTANTS
    Caller = {c1, c2}
    Record = {r1}
    Package = {p1}
    Asked <- PostAndQuery
    Proc = {b1}
    Conn = {k1, k2}
    MaxRequests = 2
    None = None
SPECIFICATION BridgeSafetySpec
SYMMETRY Interchangeable
INVARIANTS
    AnswersMatch
    NoCallWaitsInVain
    LeaksAreBounded
CHECK_DEADLOCK FALSE
