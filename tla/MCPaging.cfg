CONSTANTS
    Group = {1, 2, 3}
    Traits <- MCTraits
    Filter <- MCFilter
    Time = {1, 3}
    Bound = {0, 2, 4}
    Limit = {0, 1, 3}
    DefaultLimit = 2
    MaxLimit = 2
    Buckets = 2
    Width = {0, 2}
    MaxRecords = 3
    NoCursor = NoCursor
SPECIFICATION PgSpec
INVARIANTS
    ScrollIsComplete
    ScrollIsOrdered
    StatsAgree
    AppsAgree
CHECK_DEADLOCK FALSE
