SPECIFICATION FairSpec
CONSTANTS
    a = a
    b = b
    c = c
    Free = Free
    Requests = {a, b, c}
    Callers = {a, b, c}
    Threads = {a, b, c}
    Scenarios <- MCScenarios
    Initially <- MCInitially
    Expired = {1}
    Ttl = 1
    MaxTime = 2
    Outages = TRUE
INVARIANTS
    TypeOK
    NoOpenAdmin
    EveryAnswerCarriesItsId
    LogTellsTheTruth
    BoundedStaleness
    RefreshSaveLands
PROPERTIES
    NoConnectionIsTrue
    EveryRequestAnswered
