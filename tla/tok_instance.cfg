SPECIFICATION FairSpec
CONSTANTS
    r1 = r1
    r2 = r2
    r3 = r3
    d1 = d1
    d2 = d2
    cb = cb
    a = a
    b = b
    Free = Free
    Calls = {r1, r2, r3, d1, d2, cb}
    Arrivals <- Solo
    Instances = {a}
    On <- OnOne
    Kind <- MCKind
    Faults <- FaultsAndStaleRevoke
INVARIANTS
    TypeOK
    RefreshPresentsLive
PROPERTIES
    
    EveryCallAnswered
